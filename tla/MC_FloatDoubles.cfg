CONSTANTS
  ResponseError = ResponseError
  ErrorClasses <- MCErrorClasses
  Instances <- FloatInstances
  ReplySet <- MCReplySet
  ParamSet <- MCParamSet
INIT Init
NEXT Next
INVARIANTS
  VersionTransparency
