--------------------------- MODULE CommandBinding ----------------------------
(***************************************************************************)
(* What the command layer fixes before a reply reaches a callback: the    *)
(* callback instances commands are bound to, the replies the server may   *)
(* send for them and the keyword arguments a call may carry.             *)
(***************************************************************************)
EXTENDS Callbacks, Replies

CONSTANTS
  Instances,  \* the callback instances commands are bound to
  ReplySet,   \* the logical replies the server may send
  ParamSet    \* the keyword arguments a call may carry

NoParams == [unit |-> "none"]

ASSUME InstancesAssumption == Instances \subseteq CallbackConfigs
ASSUME ReplySetAssumption == ReplySet \subseteq LogicalReplies
ASSUME ParamSetAssumption ==
  NoParams \in ParamSet /\ ParamSet \subseteq [unit : {"none", "seconds", "milliseconds"}]

\* The reply kinds a callback class is bound to (spec 4.1, "Accepts"):
\* BoolCallback takes any reply, DateTimeCallback an integer or float
\* timestamp, and an Optional class nil or what its counterpart takes.
Accepts(family) ==
  CASE family = "SimpleString"      -> {"status", "nil"}
    [] family = "Float"             -> {"double", "int", "bulk"}
    [] family = "Bool"              -> ScalarKinds \cup AggregateKinds
    [] family = "SimpleStringOrInt" -> {"int", "boolean", "status"}
    [] family \in {"Tuple", "List", "Bools"} -> {"array"}
    [] family = "DateTime"          -> {"int", "double"}
    [] family = "Dict"              -> {"map"}
    [] family = "Set"               -> {"set", "nil"}
    [] family = "OptionalFloat"     -> {"double", "int", "bulk", "nil"}
    [] family = "OptionalInt"       -> {"int", "nil"}
    [] family = "OptionalSet"       -> {"set", "nil"}
    [] family = "OptionalTuple"     -> {"array", "nil"}

\* Only ParametrizedCallback subclasses are called with keyword arguments.
ParamsFor(family) == IF family = "DateTime" THEN ParamSet ELSE {NoParams}

\* No outcome yet.
NoOutcome == [ok |-> FALSE, val |-> PyNone, exc |-> "none"]

=============================================================================
