------------------------------ MODULE Callbacks -----------------------------
(***************************************************************************)
(* The callback framework of coredis.response.callbacks: one operator per  *)
(* callback class's transform, and the version dispatch of                *)
(* SimpleCallback.__call__ / ParametrizedCallback.__call__.                *)
(*                                                                         *)
(* A callback instance is its construction-time configuration: its class  *)
(* and, for SimpleStringCallback, the exception class it raises on a      *)
(* non-OK status (raise_on_error).  Invocation reads the configuration    *)
(* and never writes it.                                                    *)
(***************************************************************************)
EXTENDS PyValues

CONSTANT ErrorClasses   \* exception classes a caller may pass as raise_on_error

ASSUME ErrorClassesAssumption ==
  ErrorClasses \cap (BuiltinErrors \cup {"none"}) = {}

Families == {"SimpleString", "Float", "Bool", "SimpleStringOrInt", "Tuple",
             "List", "DateTime", "Dict", "Set", "Bools", "OptionalFloat",
             "OptionalInt", "OptionalSet", "OptionalTuple"}

\* The configurations a callback can be constructed with.  Only
\* SimpleStringCallback takes raise_on_error; "none" stands for None.
CallbackConfigs ==
  [family : Families \ {"SimpleString"}, raise_on_error : {"none"}]
    \cup [family : {"SimpleString"}, raise_on_error : ErrorClasses \cup {"none"}]

\* The exceptions an invocation can raise.
Exceptions == BuiltinErrors \cup ErrorClasses

\* The status text "OK".
OK == <<79, 75>>

\* nativestr(response) == "OK": bytes are decoded, str() of anything else
\* (an int, a bool) is never "OK".
NativeStrIsOK(r) == r.t = "bytes" /\ r.s = OK

-----------------------------------------------------------------------------
(* The transforms, one per class.                                          *)

\* Mutant: raise whenever configured, the `not success` test dropped.
SimpleStringTransformRaiseAlways(cb, r) ==
  LET success == IF Truthy(r) THEN PyBool(NativeStrIsOK(r)) ELSE r
  IN  IF cb.raise_on_error # "none" THEN Raise(cb.raise_on_error, r) ELSE Ret(success)

\* success = response and nativestr(response) == "OK"; a falsy response is
\* itself the result.  Raise when not successful and configured to.
SimpleStringTransform(cb, r) ==
  LET success == IF Truthy(r) THEN PyBool(NativeStrIsOK(r)) ELSE r
  IN  IF ~Truthy(success) /\ cb.raise_on_error # "none"
        THEN Raise(cb.raise_on_error, r)
        ELSE Ret(success)

FloatTransform(r) == IF r.t = "float" THEN Ret(r) ELSE ToFloat(r)

BoolTransform(r) == IF r.t = "bool" THEN Ret(r) ELSE Ret(PyBool(Truthy(r)))

\* An int or bool is returned as it is; anything else goes through a fresh
\* SimpleStringCallback() (no raise_on_error) called at the default version.
SimpleStringOrIntTransform(r) ==
  IF r.t \in {"int", "bool"}
    THEN Ret(r)
    ELSE SimpleStringTransform([family |-> "SimpleString", raise_on_error |-> "none"], r)

TupleTransform(r) == ToTuple(r)

ListTransform(r) == IF r.t = "list" THEN Ret(r) ELSE ToList(r)

\* Mutant: the unit keyword is not consulted.
DateTimeTransformUnitIgnored(r, kwargs) == FromTimestamp(r, 1)

\* kwargs.get("unit") == "milliseconds" divides by 1000; any other unit, or
\* none, is read as seconds.
DateTimeTransform(r, kwargs) ==
  FromTimestamp(r, IF kwargs.unit = "milliseconds" THEN 1000 ELSE 1)

\* The generic conversion, taken when no transform_function was given.
DictTransform(r) == IF r.t = "dict" THEN Ret(r) ELSE ToDict(r)

\* Mutant: a list taken for a set and returned as it is.
SetTransformListAsSet(r) ==
  CASE r.t \in {"set", "list"} -> Ret(r)
    [] Truthy(r)              -> ToSet(r)
    [] OTHER                  -> Ret(PySet({}))

SetTransform(r) ==
  CASE r.t = "set" -> Ret(r)
    [] Truthy(r)   -> ToSet(r)
    [] OTHER       -> Ret(PySet({}))

\* tuple(BoolCallback()(r) for r in response)
BoolsTransform(r) ==
  IF IsSeqLike(r)
    THEN Ret(PyTuple([i \in DOMAIN Iter(r) |-> BoolTransform(Iter(r)[i]).val]))
    ELSE Raise("TypeError", r)

\* Mutant: the override missing, so OptionalPrimitiveCallback.transform
\* returns the reply as it is.
OptionalFloatTransformInherited(r) == Ret(r)

OptionalFloatTransform(r) == IF r.t = "float" THEN Ret(r) ELSE PyAnd(r, ToFloat(r))

\* isinstance(True, int) holds, so bools are returned as they are.
OptionalIntTransform(r) == IF r.t \in {"int", "bool"} THEN Ret(r) ELSE PyAnd(r, ToInt(r))

OptionalSetTransform(r) == IF r.t = "set" THEN Ret(r) ELSE PyAnd(r, ToSet(r))

OptionalTupleTransform(r) == PyAnd(r, ToTuple(r))

-----------------------------------------------------------------------------
(* Dispatch.                                                               *)

\* The transform of the instance's class.
Transform(cb, r, kwargs) ==
  CASE cb.family = "SimpleString"      -> SimpleStringTransform(cb, r)
    [] cb.family = "Float"             -> FloatTransform(r)
    [] cb.family = "Bool"              -> BoolTransform(r)
    [] cb.family = "SimpleStringOrInt" -> SimpleStringOrIntTransform(r)
    [] cb.family = "Tuple"             -> TupleTransform(r)
    [] cb.family = "List"              -> ListTransform(r)
    [] cb.family = "DateTime"          -> DateTimeTransform(r, kwargs)
    [] cb.family = "Dict"              -> DictTransform(r)
    [] cb.family = "Set"               -> SetTransform(r)
    [] cb.family = "Bools"             -> BoolsTransform(r)
    [] cb.family = "OptionalFloat"     -> OptionalFloatTransform(r)
    [] cb.family = "OptionalInt"       -> OptionalIntTransform(r)
    [] cb.family = "OptionalSet"       -> OptionalSetTransform(r)
    [] cb.family = "OptionalTuple"     -> OptionalTupleTransform(r)

\* The RESP3 transform: no class of this module overrides transform_3, so
\* it is the default that delegates to transform.
Transform3(cb, r, kwargs) == Transform(cb, r, kwargs)

\* callback(response, version, **kwargs)
Invoke(cb, r, version, kwargs) ==
  IF version = 3 THEN Transform3(cb, r, kwargs) ELSE Transform(cb, r, kwargs)

=============================================================================
