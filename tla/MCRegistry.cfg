SPECIFICATION Spec
CONSTANTS
  c1 = c1
  c2 = c2
  c3 = c3
  a1 = a1
  a2 = a2
  w1 = w1
  w2 = w2
  Sockets = {c1, c2, c3}
  AgentIds = {a1, a2}
  WorkspaceIds = {w1, w2}
  Allowed <- Pairs
  Offers <- OneFieldOff
  AttachmentCapacity = 1
  MaxOpens = 1
  NoSocket = NoSocket
  ForgedToken = ForgedToken
INVARIANTS TypeOK SessionsAreOwned EntriesHaveSessions
PROPERTIES RejectedOnlyWhenOver ShutdownRevokesResume SocketsSettle UnclaimedSessionsEnd SessionsLive
CHECK_DEADLOCK FALSE
