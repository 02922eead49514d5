SPECIFICATION StatusSpec
CONSTANTS
  Targets = 3
  MAX_DISCONNECTS = 3
  MaxRecent = 4
PROPERTY
  ProxyReevaluatesDiffs
CHECK_DEADLOCK FALSE
