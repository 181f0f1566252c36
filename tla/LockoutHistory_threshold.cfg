SPECIFICATION HSpec
CONSTANTS
  c1 = c1  c2 = c2  c3 = c3  ip1 = ip1
  Conns = {c1}
  Ips = {ip1}
  IpOf <- OneIp
  AuthMaxFails = 5
  AuthWindow = 60
  AuthBlock = 30
  MaxBlockedIps = 64
  MaxTime = 1
  MaxClients = 2
  HasPassword = TRUE
  WebSocket = FALSE
  KnowsPassword = {}
  Versions = {3, 7, 8}
  MaxInbox = 1
  ReadBuf = 1
INVARIANT LockoutEnforced
