------------------------------ MODULE MCPolicy ------------------------------
(***************************************************************************)
(* Inputs of Policy for TLC.  The variable fixed is set by the server and  *)
(* passed by its host, and the client may ask for it; free is allowed and  *)
(* unset; unlisted is not allowed; bad=name is invalid.                    *)
(***************************************************************************)
EXTENDS Policy

MCHost == [passed |-> "host", home |-> "host"]
MCServer == [env |-> [fixed |-> "server"], pass_env |-> {"passed", "unset"},
             client_env_allowlist |-> {"fixed", "passed", "free", "unset"}]
MCMcpServers == [tools |-> MCServer,
                 plain |-> [env |-> NoEnv, pass_env |-> {},
                            client_env_allowlist |-> {}]]
MCInvalidNames == {"bad=name"}
MCInvalidValues == {"nul"}
MCPolicies == [rewrite_cwd : BOOLEAN, mcp : {"passthrough", "deny", "allowlisted"}]

Seqs(S) == UNION {[1 .. n -> S] : n \in 0 .. 2}

\* Environments of open requests.
MCEnvironments ==
    Seqs([name : {"fixed", "passed", "free", "unlisted", "bad=name"},
          value : {"one", "nul"}])

Entries == [name : {"fixed", "passed", "free", "unlisted", "bad=name", NoString},
            value : {"one", NoString}]
Envs == [kind : {"array"}, entries : Seqs(Entries)]
        \cup [kind : {"object"},
              entries : {e \in Seqs({x \in Entries : x.name # NoString}) :
                            DistinctNames(e)}]
        \cup [kind : {Absent, "other"}, entries : {<< >>}]

Named(names, envs) == [name : names, command : {"client"}, env : envs]
SmallEnvs == {[kind |-> "other", entries |-> << >>],
              [kind |-> Absent, entries |-> << >>],
              [kind |-> "object", entries |-> <<[name |-> "free", value |-> "two"]>>]}

Mcps == [kind : {"array"},
         servers : [1 .. 1 -> Named({"tools"}, Envs)]
                   \cup Seqs(Named({"tools", "plain", "unknown", NoString}, SmallEnvs))]
        \cup [kind : {Absent, "other"}, servers : {<< >>}]

Params(mcps) == [kind : {"object"}, cwd : {"client"}, mcp : mcps]
                \cup [kind : {Absent, "other"}, cwd : {Absent},
                      mcp : {EmptyParams.mcp}]
FewMcps == [kind : {Absent, "array"}, servers : {<< >>}]
           \cup [kind : {"array"}, servers : [1 .. 1 -> Named({"unknown"}, SmallEnvs)]]

MCLines == [shape : {"object"}, method : {"session/new"}, id : {"i1", Absent},
            params : Params(Mcps), other : {"kept"}, text : {"original"}]
           \cup [shape : {"object", "unparsable"}, id : {"i1", WideNumber},
                 method : Lifecycle \cup {"session/prompt"},
                 params : Params(FewMcps), other : {"kept", WideNumber},
                 text : {"original"}]
           \cup [shape : {"array"}, method : {"session/new", "session/prompt"},
                 id : {Absent}, params : {EmptyParams}, other : {"kept"},
                 text : {"original"}]
           \cup [shape : {"plain"}, method : {Absent}, id : {Absent},
                 params : {EmptyParams}, other : {"kept"}, text : {"original"}]
=============================================================================
