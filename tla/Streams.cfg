CONSTANTS
  MaxSent = 2
  HTTPS = FALSE
  AnswerLen = 3
  MaxAnswer = 5
  Callers = {reader, writer, addr}
  HeaderLen = 2
  MaxPeer = 3
  Timeout = TRUE
  Conns = {c1, c2}
  Closers = {k1, k2, k3}
  Dials = {d1, d2}
  Wanted <- MCWanted
  NoPort = "none"
  Loopback = {"::1"}
  Redirects <- MCRedirects
  Attempts = 2
  ListenerNames <- MCListenerNames
  Peers = {p1, p2}
  MaxAcceptErrors = 1
  LimitedConns = {n1, n2}
  ReadLimit = 1
  WriteLimit = 3
  DefaultMaxBurst = 2
  BurstShare = 1
  MaxChunk = 3
  MaxBytes = 7
  MaxTime = 4
  LogWriters = {w1}
  Reopeners = {r1}
  Hup = hup
  MaxFiles = 3
  MaxLines = 2
  Grace = 2
  Lines <- MCLines
  Arrives <- MCArrives
  TLVLists <- MCTLVLists
  MessageLists <- MCMessageLists
  Prefix = 2
SPECIFICATION StreamsSpec
INVARIANTS BytesKept ConnHandedOver HeaderFirst OnCloseInsideClose ActiveExact
  NetAccounted RateHeld LogKept HeaderExact MessagesWhole
PROPERTIES TunnelFinishes ConnectEnds HeaderReadEnds
