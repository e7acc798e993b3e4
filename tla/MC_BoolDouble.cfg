CONSTANTS
  ResponseError = ResponseError
  ErrorClasses <- MCErrorClasses
  Instances <- BoolInstances
  ReplySet <- MCReplySet
  ParamSet <- MCParamSet
INIT Init
NEXT Next
INVARIANTS
  VersionTransparency
