SPECIFICATION Spec
CONSTANTS
  c1 = c1  c2 = c2  c3 = c3  ip1 = ip1
  Conns = {c1, c2, c3}
  Ips = {ip1}
  IpOf <- OneIp
  AuthMaxFails = 5
  AuthWindow = 60
  AuthBlock = 30
  MaxBlockedIps = 64
  MaxTime = 1
  MaxClients = 2
  HasPassword = TRUE
  WebSocket = TRUE
  KnowsPassword <- FirstKnows
  Versions = {3, 8}
  MaxInbox = 1
  ReadBuf = 2
INVARIANTS TypeOK AuthenticatedSession HandshakeInOrder
INVARIANTS WalkSafe ConnectionLimit
CONSTRAINT Bounded
