CONSTANTS
  Conns = {c1, c2}
  Listeners = {l1}
  NoConn = NoConn
SPECIFICATION FairSpec
INVARIANTS DrainedMeansIdle CloseReachesAll
PROPERTY ProxyFinishes
