\* A connector that resumes while its old transport is still attached.
SPECIFICATION Spec
CONSTANTS
  p1 = p1  p2 = p2  w2 = w2  p3 = p3  r3 = r3  p4 = p4
  a1 = a1  a2 = a2  a3 = a3
  Payloads <- MCPayloads
  Size <- MCSize
  EnvelopeSize <- MCEnvelopeSize
  Apply <- MCApply
  ClientInput <- OneClientLine
  AgentOutput <- OneAgentLine
  MaxSockets = 2
  WireCapacity = 2
  MaxFaults = 1
  ClientFrameBytes = 1
  ClientReplayFrames = 2
  ClientReplayBytes = 2
  ServerFrameBytes = 1
  ServerReplayFrames = 2
  ServerReplayBytes = 2
  ChannelCapacity = 1
  EventCapacity = 1
  MaxNoise = 0
  MayCancel = FALSE
  MayExit = FALSE
  MayOutlast = FALSE
  MayCloseStdin = FALSE
  MaySignal = FALSE
INVARIANTS
  DetachedHasDeadline
\* An idle tunnel waits for lines that may never come.
CHECK_DEADLOCK FALSE
