CONSTANTS
  Cmds = {"traceroute"}
  LocalIps = {}
  MEASUREMENT_TIMEOUT = 30
  MAX_RAW_OUTPUT_BYTES = 14
  MARKER = 2
  HEADERS_SIZE_LIMIT = 16
  BODY_LIMIT = 3
  MARK = 3
SPECIFICATION Spec
INVARIANT GatewayHidden
CHECK_DEADLOCK FALSE
