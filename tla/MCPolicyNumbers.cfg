\* Ids and unknown fields that are integers of more than 64 bits.
SPECIFICATION Spec
CONSTANTS
    Host <- MCHost
    Agent <- MCServer
    McpServers <- MCMcpServers
    InvalidNames <- MCInvalidNames
    InvalidValues <- MCInvalidValues
    Policies <- MCPolicies
    Environments <- MCEnvironments
    Lines <- MCLines
    MaxLines = 1
INVARIANTS
    IdsAndFieldsSurvive
CHECK_DEADLOCK FALSE
