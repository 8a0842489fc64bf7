\* A rewritten and a rejected client line, an agent line, one fault, one resumed
\* socket and an agent that may close its stdin; queues and streams of one, so
\* that all of them fill.
SPECIFICATION LiveSpec
CONSTANTS
  p1 = p1  p2 = p2  w2 = w2  p3 = p3  r3 = r3  p4 = p4
  a1 = a1  a2 = a2  a3 = a3
  Payloads <- MCPayloads
  Size <- MCSize
  EnvelopeSize <- MCEnvelopeSize
  Apply <- MCApply
  ClientInput <- TwoClientLines
  AgentOutput <- OneAgentLine
  MaxSockets = 2
  WireCapacity = 1
  MaxFaults = 1
  ClientFrameBytes = 1
  ClientReplayFrames = 2
  ClientReplayBytes = 2
  ServerFrameBytes = 1
  ServerReplayFrames = 2
  ServerReplayBytes = 2
  ChannelCapacity = 1
  EventCapacity = 1
  MaxNoise = 0
  MayCancel = FALSE
  MayExit = FALSE
  MayOutlast = FALSE
  MayCloseStdin = TRUE
  MaySignal = FALSE
INVARIANTS
  TypeOK
  LinesKeepTheirNumbers
  ConnectorRetains
  SessionRetains
  PeersAgree
  EndedSessionReaps
  ShutdownDeliversInput
PROPERTIES
  InputIsReliable
  OutputIsReliable
  OnlyLostTransportsDetach
  SessionLives
  InputGetsThrough
  OutputGetsThrough
  SessionFollows
\* An idle tunnel waits for lines that may never come.
CHECK_DEADLOCK FALSE
