CONSTANTS
  ResponseError = ResponseError
  ErrorClasses <- MCErrorClasses
  Instances <- TransparentInstances
  ReplySet <- MCNestedDoubleReplySet
  ParamSet <- MCParamSet
INIT Init
NEXT Next
INVARIANTS
  VersionTransparency
