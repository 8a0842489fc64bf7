SPECIFICATION Spec
CONSTANTS
    Host <- MCHost
    Agent <- MCServer
    McpServers <- MCMcpServers
    InvalidNames <- MCInvalidNames
    InvalidValues <- MCInvalidValues
    Policies <- MCPolicies
    Environments <- MCEnvironments
    Lines <- MCLines
    MaxLines = 1
INVARIANTS
    EnvironmentByPrecedence
    RejectsExactlyMalformed
    EditsAreConfigured
    AgentEnvironmentByPrecedence
CHECK_DEADLOCK FALSE
