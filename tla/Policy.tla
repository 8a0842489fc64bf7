------------------------------- MODULE Policy -------------------------------
(***************************************************************************)
(* What the server does to what a client asks for: the environment of a    *)
(* new agent (process.rs) and the lines AcpPolicy edits on their way to it *)
(* (policy.rs).  ServerSession only knows the outcomes of AcpPolicy, as    *)
(* its constant Apply.                                                     *)
(*                                                                         *)
(* A line is the JSON tree the policy sees of it:                          *)
(*                                                                         *)
(*   shape   plain: no method can be sniffed; object: a request; array: a  *)
(*           JSON array whose only element is the method, which serde      *)
(*           takes for the struct MethodOnly; unparsable: a request that   *)
(*           from_str::<Value> refuses (nesting, a number out of range)    *)
(*   text    original, or canonical after serde_json::to_string            *)
(*   params  absent, other (not an object), or an object with cwd and      *)
(*           mcpServers; the rest of the line is other                     *)
(*                                                                         *)
(* The id and the rest may be WideNumber: a number that is no 64-bit       *)
(* integer and loses digits as an f64.                                     *)
(* A variable name or a value that is missing or no string is NoString.    *)
(***************************************************************************)
EXTENDS Naturals, Sequences, FiniteSets, SequencesExt

CONSTANTS Host,           \* the server's own environment
          Agent,          \* AgentConfig: pass_env, env, client_env_allowlist
          McpServers,     \* the configured MCP servers, by name
          InvalidNames,   \* names that are empty or hold '=' or NUL
          InvalidValues,  \* values that hold NUL
          Policies,       \* the policies an agent can have
          Environments,   \* client environments of open requests
          Lines,          \* lines a client can send
          MaxLines        \* bound: lines per session

NoString == "no string"
WideNumber == "wide"
Absent == "absent"

NoMcp == [kind |-> Absent, servers |-> << >>]

\* Entries no two of which have the same name.
DistinctNames(entries) ==
    \A i, j \in DOMAIN entries : entries[i].name = entries[j].name => i = j

\* The env of an MCP server is a list of entries: an array's in its order, or
\* those of an object, which has a name once.
IsEnv(incoming) ==
    /\ incoming.kind \in {Absent, "other", "array", "object"}
    /\ incoming.entries \in Seq(Range(incoming.entries))
    /\ incoming.kind \in {Absent, "other"} => incoming.entries = << >>
    /\ incoming.kind = "object" => DistinctNames(incoming.entries)

\* So is mcpServers a list of servers, if it is an array.
IsMcp(mcp) ==
    /\ mcp.kind \in {Absent, "other", "array"}
    /\ mcp = [kind |-> mcp.kind, servers |-> mcp.servers]
    /\ mcp.servers \in Seq(Range(mcp.servers))
    /\ \A server \in Range(mcp.servers) : IsEnv(server.env)

\* A line has these fields, and its params these.
IsLine(line) ==
    /\ line.shape \in {"plain", "object", "array", "unparsable"}
    /\ line.params.kind \in {Absent, "other", "object"}
    /\ line.params = [kind |-> line.params.kind, cwd |-> line.params.cwd,
                      mcp |-> line.params.mcp]
    /\ IsMcp(line.params.mcp)
    /\ line.params.kind # "object" => line.params.mcp = NoMcp
    /\ line = [shape |-> line.shape, text |-> line.text, method |-> line.method,
               id |-> line.id, params |-> line.params, other |-> line.other]

ASSUME PolicyAssumption ==
    /\ Policies \subseteq [rewrite_cwd : BOOLEAN,
                           mcp : {"passthrough", "deny", "allowlisted"}]
    /\ \A line \in Lines : IsLine(line)
    /\ \A variables \in Environments : variables \in Seq(Range(variables))
    /\ \A name \in DOMAIN McpServers :
          IsFiniteSet(DOMAIN McpServers[name].env) /\ IsFiniteSet(McpServers[name].pass_env)
    /\ MaxLines \in Nat

VARIABLES policy,   \* the AcpPolicy of the session
          agent,    \* the agent, what was asked for it, and its environment
          exchange, \* the line handled last and the outcome
          handled   \* the lines handled so far

vars == <<policy, agent, exchange, handled>>

NoEnv == << >>
Failure == [ok |-> FALSE, env |-> NoEnv]

-----------------------------------------------------------------------------
(* Environments.                                                           *)

\* The map f, and the map g where f has no entry.
Over(f, g) ==
    [n \in DOMAIN f \cup DOMAIN g |-> IF n \in DOMAIN f THEN f[n] ELSE g[n]]

Single(name, value) == [n \in {name} |-> value]

\* Variables passed from the host, and the fixed ones.
SelectedEnvironment(config) ==
    Over(config.env, [n \in config.pass_env \cap DOMAIN Host |-> Host[n]])

\* Mutant: a repeated name is not noticed.
MutantParseEntry(kind, parsed, entry) ==
    IF \/ ~parsed.ok
       \/ entry.name = NoString \/ entry.value = NoString
       \/ entry.name \in InvalidNames
    THEN Failure
    ELSE [parsed EXCEPT !.env = Over(Single(entry.name, entry.value), @)]

\* parse_client_environment takes one entry after the other; only an array
\* can name a variable twice.
ParseEntry(kind, parsed, entry) ==
    IF \/ ~parsed.ok
       \/ entry.name = NoString \/ entry.value = NoString
       \/ entry.name \in InvalidNames
       \/ kind = "array" /\ entry.name \in DOMAIN parsed.env
    THEN Failure
    ELSE [parsed EXCEPT !.env = Over(Single(entry.name, entry.value), @)]

ParseEntries(kind, entries) ==
    LET parsed[i \in 0 .. Len(entries)] ==
          IF i = 0 THEN [ok |-> TRUE, env |-> NoEnv]
          ELSE ParseEntry(kind, parsed[i - 1], entries[i])
    IN parsed[Len(entries)]

ParseClientEnvironment(incoming) ==
    IF incoming.kind = "other" THEN Failure
    ELSE ParseEntries(incoming.kind, incoming.entries)

\* Mutant: client values replace those of the server.
MutantMergeMcpEnvironment(server, allowlist, incoming) ==
    LET parsed == ParseClientEnvironment(incoming)
    IN [parsed EXCEPT !.env = Over([n \in allowlist \cap DOMAIN @ |-> @[n]],
                                         server)]

\* Client values fill what the server leaves free and allows.
MergeMcpEnvironment(server, allowlist, incoming) ==
    LET parsed == ParseClientEnvironment(incoming)
    IN [parsed EXCEPT !.env = Over(server,
                                         [n \in allowlist \cap DOMAIN @ |-> @[n]])]

\* Mutant: incoming_names is not looked at.
MutantMergeAgentVariable(merged, variable) ==
    IF \/ ~merged.ok
       \/ variable.name \in InvalidNames
       \/ variable.value \in InvalidValues
       \/ variable.name \notin Agent.client_env_allowlist
    THEN [merged EXCEPT !.ok = FALSE]
    ELSE [merged EXCEPT !.names = @ \cup {variable.name},
                        !.env = Over(@, Single(variable.name, variable.value))]

\* The same for a new agent, where an unlisted name is an error.
MergeAgentVariable(merged, variable) ==
    IF \/ ~merged.ok
       \/ variable.name \in InvalidNames \cup merged.names
       \/ variable.value \in InvalidValues
       \/ variable.name \notin Agent.client_env_allowlist
    THEN [merged EXCEPT !.ok = FALSE]
    ELSE [merged EXCEPT !.names = @ \cup {variable.name},
                        !.env = Over(@, Single(variable.name, variable.value))]

MergeAgentEnvironment(variables) ==
    LET merged[i \in 0 .. Len(variables)] ==
          IF i = 0 THEN [ok |-> TRUE, names |-> {}, env |-> SelectedEnvironment(Agent)]
          ELSE MergeAgentVariable(merged[i - 1], variables[i])
    IN merged[Len(variables)]

-----------------------------------------------------------------------------
(* AcpPolicy.                                                              *)

Lifecycle == {"session/new", "session/load", "session/resume"}

\* The definition an allowlisted server is replaced by; its variables come in
\* the order of their names.
ConfiguredMcp(name, env) ==
    [name |-> name, command |-> "server",
     env |-> [kind |-> "array",
              entries |-> SetToSeq({[name |-> n, value |-> env[n]] :
                                       n \in DOMAIN env})]]

ReplaceMcp(replaced, server) ==
    IF ~replaced.ok \/ server.name \notin DOMAIN McpServers
    THEN [replaced EXCEPT !.ok = FALSE]
    ELSE LET configured == McpServers[server.name]
             merged == MergeMcpEnvironment(SelectedEnvironment(configured),
                                           configured.client_env_allowlist,
                                           server.env)
         IN [ok |-> merged.ok,
             servers |-> Append(replaced.servers,
                                ConfiguredMcp(server.name, merged.env))]

ReplaceServers(servers) ==
    LET replaced[i \in 0 .. Len(servers)] ==
          IF i = 0 THEN [ok |-> TRUE, servers |-> << >>]
          ELSE ReplaceMcp(replaced[i - 1], servers[i])
    IN replaced[Len(servers)]

\* apply_mcp on params.mcpServers: [ok, mcp].
ApplyMcp(mcp) ==
    CASE policy.mcp = "passthrough" -> [ok |-> TRUE, mcp |-> mcp]
      [] policy.mcp = "deny" ->
           [ok |-> TRUE, mcp |-> [kind |-> "array", servers |-> << >>]]
      [] policy.mcp = "allowlisted" /\ mcp.kind # "array" ->
           [ok |-> mcp.kind = Absent, mcp |-> mcp]
      [] OTHER ->
           LET replaced == ReplaceServers(mcp.servers)
           IN [ok |-> replaced.ok, mcp |-> [mcp EXCEPT !.servers = replaced.servers]]

Forward(line) == [kind |-> "forward", line |-> line]
PolicyError == [kind |-> "error"]

\* The answer to a request without id names null.
Reject(line) == [kind |-> "reject",
                 id |-> IF line.id = Absent THEN "null" ELSE line.id]

EmptyParams == [kind |-> "object", cwd |-> Absent, mcp |-> NoMcp]

\* serde_json::Value holds 64-bit integers and f64: other numbers are rounded.
Reread(line) ==
    LET Rounded(v) == IF v = WideNumber THEN "rounded" ELSE v
    IN [line EXCEPT !.id = Rounded(@), !.other = Rounded(@)]

\* Mutant: the MCP policy is applied to every lifecycle method.
MutantEdit(line) ==
    LET given == IF line.params.kind = Absent THEN EmptyParams ELSE line.params
        moved == IF policy.rewrite_cwd THEN [given EXCEPT !.cwd = "workspace"]
                                       ELSE given
        mcp == ApplyMcp(moved.mcp)
    IN IF mcp.ok
       THEN Forward([line EXCEPT !.params = [moved EXCEPT !.mcp = mcp.mcp],
                                 !.text = "canonical"])
       ELSE Reject(line)

\* The part of apply behind its early returns.
Edit(line) ==
    LET given == IF line.params.kind = Absent THEN EmptyParams ELSE line.params
        moved == IF policy.rewrite_cwd THEN [given EXCEPT !.cwd = "workspace"]
                                       ELSE given
        mcp == IF line.method = "session/new" THEN ApplyMcp(moved.mcp)
                                              ELSE [ok |-> TRUE, mcp |-> moved.mcp]
    IN IF mcp.ok
       THEN Forward([line EXCEPT !.params = [moved EXCEPT !.mcp = mcp.mcp],
                                 !.text = "canonical"])
       ELSE Reject(line)

\* Whether apply has to look at the line at all.
Concerns(line) ==
    /\ line.shape # "plain" /\ line.method \in Lifecycle
    /\ \/ policy.rewrite_cwd
       \/ line.method = "session/new" /\ policy.mcp # "passthrough"

Apply(line) ==
    CASE ~Concerns(line) -> Forward(line)
      [] Concerns(line) /\ (line.shape # "object" \/ line.params.kind = "other") ->
           PolicyError
      [] OTHER -> Edit(Reread(line))

-----------------------------------------------------------------------------
(* The session.                                                            *)

NoExchange == [line |-> "none", outcome |-> [kind |-> "none"]]

Init == /\ policy \in Policies
        /\ agent = [state |-> "opening", asked |-> << >>, env |-> NoEnv]
        /\ exchange = NoExchange
        /\ handled = 0

\* prepare_agent: an environment the server does not accept starts no agent.
PrepareAgent(variables) ==
    /\ agent.state = "opening"
    /\ LET merged == MergeAgentEnvironment(variables)
       IN agent' = [state |-> IF merged.ok THEN "running" ELSE "refused",
                    asked |-> variables,
                    env |-> IF merged.ok THEN merged.env ELSE NoEnv]
    /\ UNCHANGED <<policy, exchange, handled>>

\* An acp envelope of the client: an error of the policy ends the session.
HandleLine(line) ==
    /\ agent.state = "running"
    /\ handled < MaxLines
    /\ handled' = handled + 1
    /\ exchange' = [line |-> line, outcome |-> Apply(line)]
    /\ agent' = [agent EXCEPT !.state = IF exchange'.outcome.kind = "error"
                                        THEN "failed" ELSE @]
    /\ UNCHANGED policy

Next == \/ \E variables \in Environments : PrepareAgent(variables)
        \/ \E line \in Lines : HandleLine(line)

Spec == Init /\ [][Next]_vars

-----------------------------------------------------------------------------
(* Properties.  They say what is to come out without saying how: no loop,   *)
(* no merge, only which values the documents promise.                      *)

\* The values that entries give to a variable.
ValuesOf(entries, n) == {e.value : e \in {x \in Range(entries) : x.name = n}}

\* Fixed values first, then those of the host, then allowed ones of the client.
Promised(config, entries, n) ==
    IF n \in DOMAIN config.env THEN {config.env[n]}
    ELSE IF n \in config.pass_env \cap DOMAIN Host THEN {Host[n]}
    ELSE IF n \in config.client_env_allowlist THEN ValuesOf(entries, n)
    ELSE {}

\* What an MCP server may bring as its env.
WellFormed(incoming) ==
    /\ incoming.kind # "other"
    /\ \A e \in Range(incoming.entries) :
          e.name \notin InvalidNames \cup {NoString} /\ e.value # NoString
    /\ incoming.kind = "array" => DistinctNames(incoming.entries)

\* The line is a session/new the MCP allowlist applies to.
Allowlisted(line) ==
    /\ policy.mcp = "allowlisted"
    /\ line.shape = "object" /\ line.method = "session/new"
    /\ line.params.kind # "other"

\* Every MCP server of a forwarded session/new is, in the client's order, the
\* server's own definition of that name, and each of its variables has the
\* value docs/configuration.md promises, or none (apply_mcp,
\* merge_mcp_environment, selected_environment).
EnvironmentByPrecedence ==
    LET line == exchange.line
        outcome == exchange.outcome
    IN (/\ outcome.kind = "forward"
        /\ Allowlisted(line) /\ line.params.mcp.kind = "array") =>
           LET before == line.params.mcp.servers
               after == outcome.line.params.mcp.servers
           IN /\ Len(after) = Len(before)
              /\ \A i \in DOMAIN before :
                   /\ after[i].name = before[i].name
                   /\ after[i].command = "server"
                   /\ DistinctNames(after[i].env.entries)
                   /\ \A n \in {e.name : e \in Range(before[i].env.entries)
                                             \cup Range(after[i].env.entries)}
                            \cup DOMAIN McpServers[before[i].name].env
                            \cup McpServers[before[i].name].pass_env :
                        ValuesOf(after[i].env.entries, n) =
                          Promised(McpServers[before[i].name],
                                   before[i].env.entries, n)

\* A session/new under the allowlist is answered with an error exactly if one
\* of its servers is not configured or has a malformed or ambiguous
\* environment; it is never half applied (apply, apply_mcp,
\* parse_client_environment).
RejectsExactlyMalformed ==
    LET line == exchange.line
        good == \/ line.params.mcp.kind = Absent
                \/ /\ line.params.mcp.kind = "array"
                   /\ \A s \in Range(line.params.mcp.servers) :
                         s.name \in DOMAIN McpServers /\ WellFormed(s.env)
    IN handled > 0 /\ Allowlisted(line) =>
           exchange.outcome.kind = (IF good THEN "forward" ELSE "reject")

\* A line is forwarded byte for byte unless a configured edit concerns its
\* method; then params.cwd is the workspace exactly if cwd is rewritten, and
\* mcpServers changes only in a session/new that the policy controls (apply:
\* "Every other ACP message is returned byte-for-byte unchanged").
EditsAreConfigured ==
    LET line == exchange.line
        after == exchange.outcome.line
        moves == policy.rewrite_cwd /\ line.method \in Lifecycle
        controls == policy.mcp # "passthrough" /\ line.method = "session/new"
    IN exchange.outcome.kind = "forward" =>
         /\ after.shape = line.shape /\ after.method = line.method
         /\ ~moves /\ ~controls => after = line
         /\ ~moves /\ line.params.kind = "object" => after.params.cwd = line.params.cwd
         /\ ~controls /\ line.params.kind = "object" => after.params.mcp = line.params.mcp
         /\ moves /\ line.shape = "object" => after.params.cwd = "workspace"

\* An agent is started exactly for environments without unlisted, repeated or
\* invalid names and values, and each of its variables has the value the
\* documents promise (merge_agent_environment).
AgentEnvironmentByPrecedence ==
    LET acceptable ==
          /\ DistinctNames(agent.asked)
          /\ \A v \in Range(agent.asked) :
               /\ v.name \in Agent.client_env_allowlist \ InvalidNames
               /\ v.value \notin InvalidValues
    IN agent.state # "opening" =>
         /\ agent.state = "refused" <=> ~acceptable
         /\ agent.state # "refused" =>
              \A n \in DOMAIN agent.env \cup {v.name : v \in Range(agent.asked)}
                        \cup DOMAIN Agent.env \cup Agent.pass_env :
                {agent.env[m] : m \in DOMAIN agent.env \cap {n}} =
                  Promised(Agent, agent.asked, n)

-----------------------------------------------------------------------------
(* What the documents say and the code does not do in every case.          *)

\* README.md, "JSON-RPC IDs, `_meta`, and unknown fields survive the edit" and
\* "Unknown allowlist names produce a JSON-RPC error with the original request
\* ID": an edited line keeps its id and what the policy does not know, and the
\* answer to a rejected request names the request (apply).
IdsAndFieldsSurvive ==
    LET line == exchange.line
        outcome == exchange.outcome
    IN /\ outcome.kind = "forward" =>
            outcome.line.id = line.id /\ outcome.line.other = line.other
       /\ outcome.kind = "reject" /\ line.id # Absent => outcome.id = line.id

=============================================================================
