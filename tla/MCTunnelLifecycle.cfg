\* A rejected line, one the policy fails on, two agent lines, and every way
\* to end: signal, server shutdown, agent exit; queues and buffers of one.
SPECIFICATION Spec
CONSTANTS
  p1 = p1  p2 = p2  w2 = w2  p3 = p3  r3 = r3  p4 = p4
  a1 = a1  a2 = a2  a3 = a3
  Payloads <- MCPayloads
  Size <- MCSize
  EnvelopeSize <- LongAnswer
  Apply <- MCApply
  ClientInput <- InvalidLineLast
  AgentOutput <- LongAgentLine
  MaxSockets = 2
  WireCapacity = 1
  MaxFaults = 0
  ClientFrameBytes = 1
  ClientReplayFrames = 1
  ClientReplayBytes = 1
  ServerFrameBytes = 1
  ServerReplayFrames = 1
  ServerReplayBytes = 1
  ChannelCapacity = 1
  EventCapacity = 1
  MaxNoise = 1
  MayCancel = TRUE
  MayExit = TRUE
  MayOutlast = TRUE
  MayCloseStdin = FALSE
  MaySignal = TRUE
INVARIANTS
  PeersAgree
  ReplayBounded
  ReportedEndReaps
  EndedSessionReaps
  ExitComesLast
\* An idle tunnel waits for lines that may never come.
CHECK_DEADLOCK FALSE
