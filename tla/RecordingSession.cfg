SPECIFICATION Spec
CONSTANTS
  t1 = t1  t2 = t2  w1 = w1
  clean = clean  secret = secret  opaque = opaque  blank = blank
  Tasks = {t1, t2}
  WsTasks = {w1}
  Digests = {clean, secret}
  BodyLen <- MCBodyLen
  Redact <- MCRedact
  Payloads = {secret}
  WsRedact <- MCWsRedact
  MaxMessages = 1
  OverLimit = {}
  LineLen <- MCLineLen
  MaxLineBytes = 2
  MaxBlobBytes = 2
  MaxFlows = 2
  MaxTotalBytes = 3
  MaxEventFlows = 1
INVARIANTS
  SessionSound
  LimitsExact
  RawNeverPublished
  PublishedConversationsComplete
  OkStaysValid
PROPERTIES
  RefinesPublication
CHECK_DEADLOCK FALSE
