\* A burst of client lines, the event queue at its smallest size.
SPECIFICATION FairSpec
CONSTANTS
  p1 = p1  p2 = p2  w2 = w2  p3 = p3  r3 = r3  p4 = p4
  a1 = a1  a2 = a2  a3 = a3
  Payloads <- MCPayloads
  Size <- MCSize
  EnvelopeSize <- MCEnvelopeSize
  Apply <- MCApply
  ClientInput <- BurstOfLines
  AgentOutput <- NoLines
  MaxSockets = 1
  WireCapacity = 11
  MaxFaults = 0
  ClientFrameBytes = 1
  ClientReplayFrames = 11
  ClientReplayBytes = 11
  ServerFrameBytes = 1
  ServerReplayFrames = 2
  ServerReplayBytes = 2
  ChannelCapacity = 1
  EventCapacity = 8
  MaxNoise = 0
  MayCancel = TRUE
  MayExit = FALSE
  MayOutlast = FALSE
  MayCloseStdin = FALSE
  MaySignal = FALSE
PROPERTIES
  ShutdownTerminatesAgent
\* An idle tunnel waits for lines that may never come.
CHECK_DEADLOCK FALSE
