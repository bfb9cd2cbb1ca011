SPECIFICATION RequestSpec
CONSTANTS
  Visits <- MCVisits
  buf_size = 21
  MaxHeaders = 2
  Timeout = 1
  MaxLen = 20
  CharsPerLine = 4
  Port = 80
  Domain <- MCDomain
INVARIANTS AnsweredAsSent  
CHECK_DEADLOCK FALSE
