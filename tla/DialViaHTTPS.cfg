CONSTANTS
  HTTPS = TRUE
  AnswerLen = 3
  MaxAnswer = 5
SPECIFICATION DialFairSpec
PROPERTY ConnectTimeoutBinds
