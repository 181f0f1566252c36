SPECIFICATION FairSpec
CONSTANTS
  c1 = c1  c2 = c2  c3 = c3  ip1 = ip1
  Conns = {c1, c2}
  Ips = {ip1}
  IpOf <- OneIp
  AuthMaxFails = 5
  AuthWindow = 60
  AuthBlock = 30
  MaxBlockedIps = 64
  MaxTime = 0
  MaxClients = 2
  HasPassword = FALSE
  WebSocket = TRUE
  KnowsPassword = {}
  Versions = {7}
  MaxInbox = 1
  ReadBuf = 1
PROPERTY PollEnds
