\* One connection, byte by byte, with clients that vanish.
SPECIFICATION Spec
CONSTANTS
  MAXLINE = 4
  RIO_BUFSIZE = 2
  Texts = {"POST", "host", "x"}
  Requests <- MCRequests
  Files <- MCFiles
INVARIANTS
  TypeOK
  StreamsIntact
  ReadBeforeAnswered
  ClientHasResponse
  ServerSurvives
PROPERTY ExchangeEnds
CHECK_DEADLOCK FALSE
