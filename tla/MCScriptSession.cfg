CONSTANTS
  Builds = {"v1", "v2"}
  Safe = {"v1", "v2"}
  Compatible = {"v2"}
  NeedsLibs = {"v2"}
  Jobs <- MCJobs
  None = None
  MaxEdits = 2
  Existing <- MCExisting
  Payloads <- MCPayloads
  Arguments <- MCArguments
  MaxNonce = 3
  MaxForeign = 1
SPECIFICATION Spec
INVARIANTS
  DeploysWhatPassed
  
  ReadsAgree
  ReceiptsAgree
PROPERTIES
  
  
  DecodedTruly
  UpgradeTakesEffect
CHECK_DEADLOCK FALSE
