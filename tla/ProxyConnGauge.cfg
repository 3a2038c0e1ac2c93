CONSTANTS
  Configs <- MCSimple
  Conn = c1
SPECIFICATION ConnSpec
INVARIANT GaugeNotNegative
