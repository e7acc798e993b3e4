CONSTANTS
  ResponseError = ResponseError
  ErrorClasses <- MCErrorClasses
  Instances <- DictInstances
  ReplySet <- MCReplySet
  ParamSet <- MCParamSet
INIT Init
NEXT Next
INVARIANTS
  VersionTransparency
