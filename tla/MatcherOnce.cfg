SPECIFICATION Spec
CONSTANTS
  Lower <- ToLower
  SizeOf <- Size
  Req <- RequestOf
  IgnoredHeaders <- Volatile
  Upstream <- Origin
  Names = {"a2", "a3", "f2", "o2", "ol", "v2", "w2"}
  Tape <- MixedTape
  Policy <- Secrets
  Mode = "Once"
  MaxCalls = 6
INVARIANTS
  TapeReplays
  ExhaustedMeansConsumed
CHECK_DEADLOCK FALSE
