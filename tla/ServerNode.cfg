CONSTANTS
  c1 = c1
  c2 = c2
  d1 = d1
  d2 = d2
  d3 = d3
  k = k
  m = m
  own = own
  None = None
  Nobody = Nobody
  AnyTarget = AnyTarget
  Service = Service
  Malformed = Malformed
  Uri = Uri
  GrainliftUri = GrainliftUri
  OwnKeys = {GrainliftUri, own}
  NUL = "0"
  Letters <- MCLetters
  Descriptors = {d1, d2, d3}
  PayloadSize <- MCPayloadSize
  Domains <- MCDomains
  Anonymous <- MCAnonymous
  Header = 2
  MaxMillis = 1
  MaxControl = 12
  ResponseLimits = {11, 12}
  Entry = 1
  Ttl = 1
  MaxClock = 1
  MaxTokens = 1
  MaxProcesses = 2
  Bytes = {"bytes"}
  Texts64 = {"text", "other"}
  Encode64 <- MCEncode64
  Decode64 <- MCDecode64
  Workloads <- MCWorkloads
SPECIFICATION FairSpec
INVARIANTS
  TokensRedeemed
  OptionsByPolicy
  SessionsEntitled
PROPERTY ServerStops
CHECK_DEADLOCK FALSE
