CONSTANTS
  ResponseError = ResponseError
  ErrorClasses <- MCErrorClasses
  Instances <- AllInstances
  ReplySet <- MCReplySet
  ParamSet <- MCParamSet
INIT Init
NEXT Next
INVARIANTS
  StatusRaisePolicy
  DateTimeUnitAgreement
