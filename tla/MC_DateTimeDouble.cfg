CONSTANTS
  ResponseError = ResponseError
  ErrorClasses <- MCErrorClasses
  Instances <- DateTimeInstances
  ReplySet <- MCReplySet
  ParamSet <- MCParamSet
INIT Init
NEXT Next
INVARIANTS
  VersionTransparency
