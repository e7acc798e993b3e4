------------------------ MODULE ResponsePipeline_proofs ----------------------
(***************************************************************************)
(* Proofs about ResponsePipeline for every value of its constants.        *)
(*                                                                         *)
(* The type invariant rests on one fact about the callback layer: for     *)
(* every callback configuration and every Python value the decoder can    *)
(* hand over, an invocation either returns a Python value or raises one   *)
(* of the exceptions a callback can raise (OutcomeOK).  It is proved      *)
(* bottom-up: the builtins, then each class's transform, then the         *)
(* version dispatch.                                                      *)
(***************************************************************************)
EXTENDS ResponsePipeline, TLAPS

\* An outcome that is a returned Python value or a raised callback exception.
OutcomeOK(o) ==
  /\ o.ok \in BOOLEAN
  /\ o.ok => o.exc = "none" /\ o.val.t \in Tags
  /\ ~o.ok => o.exc \in Exceptions

-----------------------------------------------------------------------------
(* The builtins.                                                           *)

\* Returning a Python value is a well-formed outcome.
LEMMA RetOK ==
  ASSUME NEW x, x.t \in Tags
  PROVE  OutcomeOK(Ret(x))
BY DEF OutcomeOK, Ret

\* Raising a builtin or configured exception is a well-formed outcome.
LEMMA RaiseOK ==
  ASSUME NEW e \in Exceptions, NEW x
  PROVE  OutcomeOK(Raise(e, x))
BY DEF OutcomeOK, Raise

\* TypeError and ValueError are among the exceptions a callback raises.
LEMMA BuiltinErrorsRaised ==
  BuiltinErrors \subseteq Exceptions
BY DEF Exceptions

\* Every Python value has a truth value (the CASE of Truthy covers the tags).
LEMMA TruthyBoolean ==
  ASSUME NEW x, x.t \in Tags
  PROVE  Truthy(x) \in BOOLEAN
BY DEF Truthy, Tags, IsNumber, IsSeqLike

\* `x and y` is well formed when x is a value and y a well-formed outcome.
LEMMA PyAndOK ==
  ASSUME NEW x, x.t \in Tags, NEW y, OutcomeOK(y)
  PROVE  OutcomeOK(PyAnd(x, y))
BY RetOK, TruthyBoolean DEF PyAnd

\* float(x) and int(x).
LEMMA ToFloatOK ==
  ASSUME NEW x, x.t \in Tags
  PROVE  OutcomeOK(ToFloat(x))
BY RetOK, RaiseOK, BuiltinErrorsRaised
   DEF ToFloat, PyFloat, Tags, BuiltinErrors

LEMMA ToIntOK ==
  ASSUME NEW x, x.t \in Tags
  PROVE  OutcomeOK(ToInt(x))
BY RetOK, RaiseOK, BuiltinErrorsRaised
   DEF ToInt, PyInt, Tags, BuiltinErrors

\* tuple(x), list(x) and set(x).
LEMMA ContainersOK ==
  ASSUME NEW x, x.t \in Tags
  PROVE  /\ OutcomeOK(ToTuple(x))
         /\ OutcomeOK(ToList(x))
         /\ OutcomeOK(ToSet(x))
BY RetOK, RaiseOK, BuiltinErrorsRaised
   DEF ToTuple, ToList, ToSet, PyTuple, PyList, PySet, Tags, BuiltinErrors

\* dict(x): the pairs become a dict, or the first bad element raises.
LEMMA ToDictOK ==
  ASSUME NEW x, x.t \in Tags
  PROVE  OutcomeOK(ToDict(x))
<1>1. \A s : OutcomeOK(DictFromPairs(s))
  BY RetOK, RaiseOK, BuiltinErrorsRaised DEF DictFromPairs, PyDict, Tags, BuiltinErrors
<1>. QED  BY <1>1, RetOK, RaiseOK, BuiltinErrorsRaised DEF ToDict, BuiltinErrors

\* datetime.fromtimestamp(x / div).
LEMMA FromTimestampOK ==
  ASSUME NEW x, NEW div
  PROVE  OutcomeOK(FromTimestamp(x, div))
BY RetOK, RaiseOK, BuiltinErrorsRaised DEF FromTimestamp, PyDateTime, Tags, BuiltinErrors

-----------------------------------------------------------------------------
(* The transforms of the callback classes.                                 *)

\* SimpleStringCallback: True/False or the falsy reply itself, or the
\* configured raise_on_error class.
LEMMA SimpleStringOK ==
  ASSUME NEW cb \in CallbackConfigs, NEW r, r.t \in Tags
  PROVE  OutcomeOK(SimpleStringTransform(cb, r))
<1>. DEFINE success == IF Truthy(r) THEN PyBool(NativeStrIsOK(r)) ELSE r
<1>1. success.t \in Tags
  BY TruthyBoolean DEF PyBool, Tags
<1>2. Truthy(success) \in BOOLEAN
  BY <1>1, TruthyBoolean
<1>3. cb.raise_on_error # "none" => cb.raise_on_error \in Exceptions
  BY DEF CallbackConfigs, Exceptions
<1>. QED  BY <1>1, <1>2, <1>3, RetOK, RaiseOK DEF SimpleStringTransform

\* The classes whose transform is one builtin, or a pass-through and one.
LEMMA PrimitivesOK ==
  ASSUME NEW r, r.t \in Tags, NEW kw
  PROVE  /\ OutcomeOK(FloatTransform(r))
         /\ OutcomeOK(BoolTransform(r))
         /\ OutcomeOK(TupleTransform(r))
         /\ OutcomeOK(ListTransform(r))
         /\ OutcomeOK(DateTimeTransform(r, kw))
         /\ OutcomeOK(DictTransform(r))
         /\ OutcomeOK(SetTransform(r))
<1>1. OutcomeOK(FloatTransform(r))  BY RetOK, ToFloatOK DEF FloatTransform
<1>2. OutcomeOK(BoolTransform(r))   BY RetOK DEF BoolTransform, PyBool, Tags
<1>3. OutcomeOK(TupleTransform(r))  BY ContainersOK DEF TupleTransform
<1>4. OutcomeOK(ListTransform(r))   BY RetOK, ContainersOK DEF ListTransform
<1>5. OutcomeOK(DateTimeTransform(r, kw))  BY FromTimestampOK DEF DateTimeTransform
<1>6. OutcomeOK(DictTransform(r))   BY RetOK, ToDictOK DEF DictTransform
<1>7. OutcomeOK(SetTransform(r))
  BY RetOK, ContainersOK, TruthyBoolean DEF SetTransform, PySet, Tags
<1>. QED  BY <1>1, <1>2, <1>3, <1>4, <1>5, <1>6, <1>7

\* SimpleStringOrIntCallback delegates to a plain SimpleStringCallback.
LEMMA SimpleStringOrIntOK ==
  ASSUME NEW r, r.t \in Tags
  PROVE  OutcomeOK(SimpleStringOrIntTransform(r))
<1>1. [family |-> "SimpleString", raise_on_error |-> "none"] \in CallbackConfigs
  BY DEF CallbackConfigs
<1>. QED  BY <1>1, RetOK, SimpleStringOK DEF SimpleStringOrIntTransform

\* BoolsCallback returns a tuple or raises TypeError on a non-iterable.
LEMMA BoolsOK ==
  ASSUME NEW r, r.t \in Tags
  PROVE  OutcomeOK(BoolsTransform(r))
BY RetOK, RaiseOK, BuiltinErrorsRaised DEF BoolsTransform, PyTuple, Tags, BuiltinErrors

\* The Optional classes: a pass-through, or `response and conversion`.
LEMMA OptionalsOK ==
  ASSUME NEW r, r.t \in Tags
  PROVE  /\ OutcomeOK(OptionalFloatTransform(r))
         /\ OutcomeOK(OptionalIntTransform(r))
         /\ OutcomeOK(OptionalSetTransform(r))
         /\ OutcomeOK(OptionalTupleTransform(r))
<1>1. OutcomeOK(OptionalFloatTransform(r))
  BY RetOK, ToFloatOK, PyAndOK DEF OptionalFloatTransform
<1>2. OutcomeOK(OptionalIntTransform(r))
  BY RetOK, ToIntOK, PyAndOK DEF OptionalIntTransform
<1>3. OutcomeOK(OptionalSetTransform(r))
  BY RetOK, ContainersOK, PyAndOK DEF OptionalSetTransform
<1>4. OutcomeOK(OptionalTupleTransform(r))
  BY ContainersOK, PyAndOK DEF OptionalTupleTransform
<1>. QED  BY <1>1, <1>2, <1>3, <1>4

\* Every invocation, at either protocol version, is well formed.
LEMMA InvokeOK ==
  ASSUME NEW cb \in CallbackConfigs, NEW r, r.t \in Tags, NEW v, NEW kw
  PROVE  OutcomeOK(Invoke(cb, r, v, kw))
<1>1. cb.family \in Families  BY DEF CallbackConfigs, Families
<1>2. OutcomeOK(Transform(cb, r, kw))
  BY <1>1, SimpleStringOK, PrimitivesOK, SimpleStringOrIntOK, BoolsOK, OptionalsOK
     DEF Transform, Families
<1>. QED  BY <1>2 DEF Invoke, Transform3

-----------------------------------------------------------------------------
(* The pipeline.                                                           *)

\* What the reply assumption says of a single reply.
LEMMA ReplyShape ==
  ASSUME NEW l \in ReplySet
  PROVE  /\ l.kind \in ScalarKinds \cup AggregateKinds
         /\ l.kind \in {"bulk", "status"} => l.s \in Seq(0 .. 255)
         /\ l.kind = "int" => l.n \in Int
         /\ l.kind = "boolean" => l.b \in BOOLEAN
BY ReplySetAssumption DEF LogicalReplies, ScalarReplies, ScalarKinds, AggregateKinds

\* The decoder hands over a Python value for every reply kind.
LEMMA EncodeOK ==
  ASSUME NEW l, l.kind \in ScalarKinds \cup AggregateKinds, NEW ver
  PROVE  Encode(l, ver).t \in Tags
BY DEF Encode, EncodeScalar, ScalarKinds, AggregateKinds, Tags,
       PyNone, PyInt, PyBytes, PyFloat, PyBool, PyList, PyDict, PySet

\* Every step of the pipeline preserves TypeOK.
LEMMA TypeOKStep == TypeOK /\ [Next]_vars => TypeOK'
<1> SUFFICES ASSUME TypeOK, [Next]_vars PROVE TypeOK'
  OBVIOUS
<1>1. CASE Receive
  <2>1. PICK cb \in Instances, l \in ReplySet :
               /\ l.kind \in Accepts(cb.family)
               /\ \E p \in ParamsFor(cb.family) :
                    req' = [cb |-> cb, logical |-> l, raw |-> Encode(l, proto),
                            params |-> p]
    BY <1>1 DEF Receive
  <2>2. PICK p \in ParamsFor(cb.family) :
               req' = [cb |-> cb, logical |-> l, raw |-> Encode(l, proto), params |-> p]
    BY <2>1
  <2>3. p \in ParamSet
    BY ParamSetAssumption DEF ParamsFor
  <2>4. Encode(l, proto).t \in Tags
    BY ReplyShape, EncodeOK
  <2>. QED  BY <1>1, <2>2, <2>3, <2>4 DEF Receive, TypeOK
<1>2. CASE InvokeCallback
  <2>1. req.cb \in CallbackConfigs
    BY <1>2, InstancesAssumption DEF InvokeCallback, TypeOK
  <2>2. OutcomeOK(outcome')
    BY <1>2, <2>1, InvokeOK DEF InvokeCallback, TypeOK
  <2>. QED  BY <1>2, <2>2 DEF InvokeCallback, TypeOK, OutcomeOK
<1>3. CASE Deliver
  BY <1>3 DEF Deliver, TypeOK
<1>4. CASE UNCHANGED vars
  BY <1>4 DEF vars, TypeOK
<1>. QED  BY <1>1, <1>2, <1>3, <1>4 DEF Next

(***************************************************************************)
(* Type correctness: in every reachable state, a reply in flight is a      *)
(* decoded Python value bound to a configured callback, and an invocation *)
(* of any callback class at either protocol version has returned a Python *)
(* value or raised a builtin error or the configured raise_on_error       *)
(* (SimpleCallback.__call__, ParametrizedCallback.__call__ and every      *)
(* transform of coredis.response.callbacks).  TypeOK is inductive.        *)
(***************************************************************************)
THEOREM TypeCorrect == Spec => []TypeOK
<1>1. Init => TypeOK
  BY DEF Init, TypeOK, Versions
<1>. QED  BY <1>1, TypeOKStep, PTL DEF Spec

-----------------------------------------------------------------------------
(* SimpleStringCallback's raise policy.                                    *)

\* The raise policy for one invocation o of callback cb on the decoding r
\* of the logical reply l.
StatusPolicyHolds(cb, l, r, o) ==
  /\ o = Ret(PyBool(TRUE)) <=> IsOKStatus(l)
  /\ ~o.ok <=> (~IsOKStatus(l) /\ cb.raise_on_error # "none")
  /\ ~o.ok => o.exc = cb.raise_on_error /\ o.val = r

\* What SimpleStringCallback does with the decoding of a status or nil
\* reply, at either protocol version.
LEMMA StatusOutcome ==
  ASSUME NEW cb \in CallbackConfigs, cb.family = "SimpleString",
         NEW l, l.kind \in {"status", "nil"},
         l.kind = "status" => l.s \in Seq(0 .. 255),
         NEW r, r = IF l.kind = "nil" THEN PyNone ELSE PyBytes(l.s)
  PROVE  StatusPolicyHolds(cb, l, r, SimpleStringTransform(cb, r))
<1>. SUFFICES /\ SimpleStringTransform(cb, r) = Ret(PyBool(TRUE)) <=> IsOKStatus(l)
              /\ ~SimpleStringTransform(cb, r).ok <=>
                   (~IsOKStatus(l) /\ cb.raise_on_error # "none")
              /\ ~SimpleStringTransform(cb, r).ok =>
                   /\ SimpleStringTransform(cb, r).exc = cb.raise_on_error
                   /\ SimpleStringTransform(cb, r).val = r
  BY DEF StatusPolicyHolds
<1>1. CASE l.kind = "nil"
  <2>1. r = PyNone  BY <1>1
  <2>2. ~Truthy(PyNone)  BY DEF Truthy, PyNone, IsNumber, IsSeqLike
  <2>3. ~IsOKStatus(l)  BY <1>1 DEF IsOKStatus
  <2>. QED  BY <2>1, <2>2, <2>3 DEF SimpleStringTransform, Ret, Raise, PyNone, PyBool
<1>2. CASE l.kind = "status"
  <2>1. r = PyBytes(l.s)  BY <1>2
  <2>2. Truthy(PyBytes(l.s)) <=> l.s # <<>>
    <3>1. l.s \in Seq(0 .. 255)  BY <1>2
    <3>2. Iter(PyBytes(l.s)) = [i \in DOMAIN l.s |-> PyInt(l.s[i])]  BY DEF Iter, PyBytes
    <3>3. [i \in DOMAIN l.s |-> PyInt(l.s[i])] = <<>> <=> l.s = <<>>  BY <3>1
    <3>. QED  BY <3>2, <3>3 DEF Truthy, PyBytes, IsNumber, IsSeqLike
  <2>3. NativeStrIsOK(PyBytes(l.s)) <=> IsOKStatus(l)
    BY <1>2 DEF NativeStrIsOK, IsOKStatus, PyBytes
  <2>4. Truthy(PyBool(TRUE)) /\ ~Truthy(PyBool(FALSE))
    BY DEF Truthy, PyBool, NumVal, IsNumber, IsSeqLike
  <2>5. CASE l.s = OK
    <3>1. l.s # <<>> /\ IsOKStatus(l)  BY <1>2, <2>5 DEF OK, IsOKStatus
    <3>2. Truthy(PyBytes(l.s)) /\ NativeStrIsOK(PyBytes(l.s))  BY <2>2, <2>3, <3>1
    <3>3. SimpleStringTransform(cb, PyBytes(l.s)) = Ret(PyBool(TRUE))
      BY <2>4, <3>2 DEF SimpleStringTransform
    <3>. QED  BY <2>1, <3>1, <3>3 DEF Ret
  <2>6. CASE l.s # OK /\ l.s # <<>>
    <3>1. ~IsOKStatus(l)  BY <2>6 DEF IsOKStatus
    <3>2. Truthy(PyBytes(l.s)) /\ ~NativeStrIsOK(PyBytes(l.s))  BY <2>2, <2>3, <2>6, <3>1
    <3>3. PyBool(NativeStrIsOK(PyBytes(l.s))) = PyBool(FALSE)
      BY <3>2 DEF PyBool, NativeStrIsOK, PyBytes
    <3>4. (IF Truthy(PyBytes(l.s)) THEN PyBool(NativeStrIsOK(PyBytes(l.s)))
                                   ELSE PyBytes(l.s)) = PyBool(FALSE)
      BY <3>2, <3>3
    <3>5. SimpleStringTransform(cb, PyBytes(l.s)) =
            IF cb.raise_on_error # "none" THEN Raise(cb.raise_on_error, PyBytes(l.s))
                                         ELSE Ret(PyBool(FALSE))
      BY <2>4, <3>4 DEF SimpleStringTransform
    <3>. QED  BY <2>1, <3>1, <3>5 DEF Ret, Raise, PyBool
  <2>7. CASE l.s = <<>>
    <3>1. ~IsOKStatus(l)  BY <2>7 DEF IsOKStatus, OK
    <3>. QED  BY <2>1, <2>2, <2>7, <3>1 DEF SimpleStringTransform, Ret, Raise, PyBytes, PyBool
  <2>. QED  BY <2>5, <2>6, <2>7
<1>. QED  BY <1>1, <1>2

\* The decoding of a status or nil reply, at either protocol version.
LEMMA EncodeStatus ==
  ASSUME NEW l, l.kind \in {"status", "nil"}, NEW v
  PROVE  Encode(l, v) = IF l.kind = "nil" THEN PyNone ELSE PyBytes(l.s)
BY DEF Encode, EncodeScalar

\* The strengthening of StatusRaisePolicy: the reply in flight is the
\* decoding of its logical reply, of a kind the bound class accepts, and
\* the outcome is what the invocation gave.
IInv ==
  /\ TypeOK
  /\ stage # "idle" => /\ req.raw = Encode(req.logical, proto)
                       /\ req.logical.kind \in Accepts(req.cb.family)
                       /\ req.params \in ParamsFor(req.cb.family)
  /\ stage = "done" => outcome = Invoke(req.cb, req.raw, proto, req.params)

\* IInv holds initially and is preserved by every step.
LEMMA IInvInductive == Spec => []IInv
<1>1. Init => IInv
  BY DEF Init, IInv, TypeOK, Versions
<1>2. IInv /\ [Next]_vars => IInv'
  <2> SUFFICES ASSUME IInv, [Next]_vars PROVE IInv'
    OBVIOUS
  <2>1. TypeOK'  BY TypeOKStep DEF IInv

  <2>2. CASE Receive
    BY <2>1, <2>2 DEF Receive, IInv
  <2>3. CASE InvokeCallback
    BY <2>1, <2>3 DEF InvokeCallback, IInv
  <2>4. CASE Deliver
    BY <2>1, <2>4 DEF Deliver, IInv
  <2>5. CASE UNCHANGED vars
    BY <2>1, <2>5 DEF vars, IInv
  <2>. QED  BY <2>2, <2>3, <2>4, <2>5 DEF Next
<1>. QED  BY <1>1, <1>2, PTL DEF Spec

(***************************************************************************)
(* SimpleStringCallback's raise policy holds for every configuration and  *)
(* reply, at either protocol version: the callback returns True exactly on *)
(* an OK status, raises exactly on a non-OK status when raise_on_error was *)
(* given, and then raises that class with the raw reply (lines 62-66,     *)
(* reached through SimpleCallback.__call__).                              *)
(***************************************************************************)
THEOREM StatusRaiseCorrect == Spec => []StatusRaisePolicy
<1>1. IInv => StatusRaisePolicy
  <2> SUFFICES ASSUME IInv, stage = "done", req.cb.family = "SimpleString"
               PROVE  /\ outcome = Ret(PyBool(TRUE)) <=> IsOKStatus(req.logical)
                      /\ ~outcome.ok <=> (~IsOKStatus(req.logical)
                                          /\ req.cb.raise_on_error # "none")
                      /\ ~outcome.ok => /\ outcome.exc = req.cb.raise_on_error
                                        /\ outcome.val = req.raw
    BY DEF StatusRaisePolicy
  <2>1. req.cb \in CallbackConfigs
    BY InstancesAssumption DEF IInv, TypeOK
  <2>2. req.logical.kind \in {"status", "nil"}
    BY DEF IInv, Accepts
  <2>3. req.logical.kind = "status" => req.logical.s \in Seq(0 .. 255)
    BY ReplyShape DEF IInv, TypeOK
  <2>4. outcome = Invoke(req.cb, req.raw, proto, req.params)
    BY DEF IInv
  <2>5. Transform(req.cb, req.raw, req.params) = SimpleStringTransform(req.cb, req.raw)
    BY DEF Transform
  <2>6. outcome = SimpleStringTransform(req.cb, req.raw)
    BY <2>4, <2>5 DEF Invoke, Transform3
  <2>7. req.raw = Encode(req.logical, proto)  BY DEF IInv
  <2>8. req.raw = IF req.logical.kind = "nil" THEN PyNone ELSE PyBytes(req.logical.s)
    BY <2>2, <2>7, EncodeStatus
  <2>9. StatusPolicyHolds(req.cb, req.logical, req.raw,
                          SimpleStringTransform(req.cb, req.raw))
    BY <2>1, <2>2, <2>3, <2>8, StatusOutcome
  <2>. QED  BY <2>6, <2>9 DEF StatusPolicyHolds
<1>. QED  BY <1>1, IInvInductive, PTL

-----------------------------------------------------------------------------
(* DateTimeCallback's unit.                                                *)

\* Outcomes compare equal to themselves (Python == is reflexive on the
\* values the callbacks return).
LEMMA OutcomeEqRefl ==
  ASSUME NEW o
  PROVE  OutcomeEq(o, o)
BY DEF OutcomeEq, PyEq

\* An integer reply decodes to a Python int under either version.
LEMMA EncodeInt ==
  ASSUME NEW l, l.kind = "int", NEW v
  PROVE  Encode(l, v) = PyInt(l.n)
BY DEF Encode, EncodeScalar

\* DateTimeCallback on an int at either version (lines 108-112): the
\* timestamp in microseconds, divided by 1000 for unit "milliseconds".
LEMMA DateTimeOutcome ==
  ASSUME NEW cb, cb.family = "DateTime", NEW n \in Int, NEW v, NEW p
  PROVE  Invoke(cb, PyInt(n), v, p) =
           Ret(PyDateTime((n * 1000000) \div (IF p.unit = "milliseconds" THEN 1000 ELSE 1)))
BY DEF Invoke, Transform3, Transform, DateTimeTransform, FromTimestamp,
       IsNumber, NumVal, PyInt

\* A whole number of seconds in milliseconds, divided by 1000.
LEMMA MillisToSeconds ==
  ASSUME NEW n \in Int, n % 1000 = 0
  PROVE  (n * 1000000) \div 1000 = (n \div 1000) * 1000000
<1>1. n = 1000 * (n \div 1000)  OBVIOUS
<1>. QED  BY <1>1

(***************************************************************************)
(* DateTimeCallback reads an integer timestamp in milliseconds as the    *)
(* same calendar time as the same instant in seconds, and every other     *)
(* unit, none included, as seconds (lines 108-112, kwargs.get("unit")),   *)
(* for every integer reply, unit and version.                             *)
(***************************************************************************)
THEOREM DateTimeUnitCorrect == Spec => []DateTimeUnitAgreement
<1>1. IInv => DateTimeUnitAgreement
  <2> SUFFICES ASSUME IInv, stage = "done", req.cb.family = "DateTime",
                      req.logical.kind = "int"
               PROVE  IF req.params.unit = "milliseconds"
                        THEN req.logical.n % 1000 = 0 =>
                               OutcomeEq(outcome,
                                 Invoke(req.cb, Encode([kind |-> "int", n |-> req.logical.n \div 1000], proto),
                                        proto, [unit |-> "seconds"]))
                        ELSE OutcomeEq(outcome,
                               Invoke(req.cb, Encode([kind |-> "int", n |-> req.logical.n], proto),
                                      proto, [unit |-> "seconds"]))
    BY DEF DateTimeUnitAgreement
  <2>2. req.logical.n \in Int  BY ReplyShape DEF IInv, TypeOK
  <2>3. req.raw = PyInt(req.logical.n)  BY EncodeInt DEF IInv
  <2>4. outcome = Ret(PyDateTime((req.logical.n * 1000000) \div
                                 (IF req.params.unit = "milliseconds" THEN 1000 ELSE 1)))
    BY <2>2, <2>3, DateTimeOutcome DEF IInv
  <2>5. ASSUME NEW k \in Int
        PROVE  Invoke(req.cb, Encode([kind |-> "int", n |-> k], proto), proto, [unit |-> "seconds"])
                 = Ret(PyDateTime(k * 1000000))
    <3>1. Encode([kind |-> "int", n |-> k], proto) = PyInt(k)  BY EncodeInt
    <3>2. (k * 1000000) \div 1 = k * 1000000  OBVIOUS
    <3>. QED  BY <3>1, <3>2, DateTimeOutcome
  <2>6. CASE req.params.unit = "milliseconds"
    <3>1. SUFFICES ASSUME req.logical.n % 1000 = 0
                   PROVE  OutcomeEq(outcome,
                            Invoke(req.cb, Encode([kind |-> "int", n |-> req.logical.n \div 1000], proto),
                                   proto, [unit |-> "seconds"]))
      BY <2>6
    <3>2. outcome = Ret(PyDateTime((req.logical.n \div 1000) * 1000000))
      BY <2>2, <2>4, <2>6, <3>1, MillisToSeconds
    <3>3. req.logical.n \div 1000 \in Int  BY <2>2
    <3>. QED  BY <2>5, <3>2, <3>3, OutcomeEqRefl
  <2>7. CASE req.params.unit # "milliseconds"
    <3>1. outcome = Ret(PyDateTime(req.logical.n * 1000000))  BY <2>2, <2>4, <2>7
    <3>. QED  BY <2>2, <2>5, <2>7, <3>1, OutcomeEqRefl
  <2>. QED  BY <2>6, <2>7
<1>. QED  BY <1>1, IInvInductive, PTL

-----------------------------------------------------------------------------
(* Booleans under the two protocols.                                       *)

\* A boolean reply decodes to a bool under RESP3 and to the int 1 or 0
\* under RESP2.
LEMMA EncodeBoolean ==
  ASSUME NEW l, l.kind = "boolean", NEW v
  PROVE  Encode(l, v) = IF v = 3 THEN PyBool(l.b) ELSE PyInt(IF l.b THEN 1 ELSE 0)
BY DEF Encode, EncodeScalar

(***************************************************************************)
(* The classes that take boolean replies give ==-equal results for a      *)
(* boolean whether it came as a RESP3 bool or as the RESP2 integer 1/0:   *)
(* BoolCallback coerces the int by truthiness (line 85), and              *)
(* SimpleStringOrIntCallback and OptionalIntCallback return it as it is   *)
(* (isinstance(True, int), lines 89 and 160), where 1 == True.            *)
(***************************************************************************)
THEOREM BooleanReplyTransparent ==
  ASSUME NEW cb, cb.family \in {"Bool", "SimpleStringOrInt", "OptionalInt"},
         NEW l, l.kind = "boolean", l.b \in BOOLEAN, NEW p
  PROVE  OutcomeEq(Invoke(cb, Encode(l, 3), 3, p), Invoke(cb, Encode(l, 2), 2, p))
<1>1. Encode(l, 3) = PyBool(l.b) /\ Encode(l, 2) = PyInt(IF l.b THEN 1 ELSE 0)
  BY EncodeBoolean
<1>2. CASE cb.family = "Bool"
  <2>1. Truthy(PyInt(IF l.b THEN 1 ELSE 0)) = l.b
    BY DEF Truthy, PyInt, IsNumber, NumVal, IsSeqLike
  <2>2. Invoke(cb, Encode(l, 3), 3, p) = Ret(PyBool(l.b))
    BY <1>1, <1>2 DEF Invoke, Transform3, Transform, BoolTransform, PyBool
  <2>3. Invoke(cb, Encode(l, 2), 2, p) = Ret(PyBool(l.b))
    BY <1>1, <1>2, <2>1 DEF Invoke, Transform, BoolTransform, PyInt
  <2>. QED  BY <2>2, <2>3, OutcomeEqRefl
<1>3. CASE cb.family \in {"SimpleStringOrInt", "OptionalInt"}
  <2>1. Invoke(cb, Encode(l, 3), 3, p) = Ret(PyBool(l.b))
    BY <1>1, <1>3 DEF Invoke, Transform3, Transform, SimpleStringOrIntTransform,
                      OptionalIntTransform, PyBool
  <2>2. Invoke(cb, Encode(l, 2), 2, p) = Ret(PyInt(IF l.b THEN 1 ELSE 0))
    BY <1>1, <1>3 DEF Invoke, Transform, SimpleStringOrIntTransform,
                      OptionalIntTransform, PyInt
  <2>3. PyEq(PyBool(l.b), PyInt(IF l.b THEN 1 ELSE 0))
    BY DEF PyEq, Canon, CanonScalar, IsNumber, NumVal, PyBool, PyInt
  <2>4. OutcomeEq(Ret(PyBool(l.b)), Ret(PyInt(IF l.b THEN 1 ELSE 0)))
    BY <2>3 DEF OutcomeEq, Ret
  <2>. QED  BY <2>1, <2>2, <2>4
<1>. QED  BY <1>2, <1>3

-----------------------------------------------------------------------------
(* Protocol-version transparency.                                          *)

\* A scalar other than a double decodes under either version to values
\* that compare equal and that BoolCallback coerces alike: only a boolean
\* changes shape (bool under RESP3, the int 1 or 0 under RESP2).
LEMMA ScalarTransparent ==
  ASSUME NEW e \in ScalarReplies, e.kind # "double",
         NEW v \in Versions, NEW w \in Versions
  PROVE  /\ CanonScalar(EncodeScalar(e, v)) = CanonScalar(EncodeScalar(e, w))
         /\ BoolTransform(EncodeScalar(e, v)) = BoolTransform(EncodeScalar(e, w))
<1>1. CASE e.kind # "boolean"
  <2>1. EncodeScalar(e, v) = EncodeScalar(e, w)
    BY <1>1 DEF ScalarReplies, EncodeScalar
  <2>. QED  BY <2>1
<1>2. CASE e.kind = "boolean"
  <2>1. e.b \in BOOLEAN  BY <1>2 DEF ScalarReplies
  <2>2. \A u \in Versions :
          EncodeScalar(e, u) \in {PyBool(e.b), PyInt(IF e.b THEN 1 ELSE 0)}
    BY <1>2 DEF EncodeScalar, Versions
  <2>3. /\ CanonScalar(PyBool(e.b)) = [t |-> "number", n |-> IF e.b THEN 1 ELSE 0]
        /\ BoolTransform(PyBool(e.b)) = Ret(PyBool(e.b))
    BY <2>1 DEF CanonScalar, BoolTransform, IsNumber, NumVal, PyBool
  <2>4. CanonScalar(PyInt(IF e.b THEN 1 ELSE 0)) = [t |-> "number", n |-> IF e.b THEN 1 ELSE 0]
    BY DEF CanonScalar, IsNumber, NumVal, PyInt
  <2>5. Truthy(PyInt(IF e.b THEN 1 ELSE 0)) = e.b
    <3>1. \A n \in {0, 1} : Truthy(PyInt(n)) = (n # 0)
      BY DEF Truthy, IsNumber, NumVal, IsSeqLike, PyInt
    <3>2. CASE e.b
      <4>1. PyInt(IF e.b THEN 1 ELSE 0) = PyInt(1)  BY <3>2
      <4>2. Truthy(PyInt(1))  BY DEF Truthy, IsNumber, NumVal, IsSeqLike, PyInt
      <4>3. Truthy(PyInt(1)) \in BOOLEAN  BY TruthyBoolean DEF PyInt, Tags
      <4>. QED  BY <2>1, <3>2, <4>1, <4>2, <4>3
    <3>3. CASE ~e.b
      <4>1. PyInt(IF e.b THEN 1 ELSE 0) = PyInt(0)  BY <3>3
      <4>. QED  BY <2>1, <3>1, <3>3, <4>1
    <3>. QED  BY <3>2, <3>3
  <2>6. BoolTransform(PyInt(IF e.b THEN 1 ELSE 0)) = Ret(PyBool(e.b))
    BY <2>5 DEF BoolTransform, PyInt
  <2>. QED  BY <2>2, <2>3, <2>4, <2>6
<1>. QED  BY <1>1, <1>2

\* The decodings of an aggregate's elements under two versions compare
\* equal elementwise when no element is a double.
LEMMA SeqTransparent ==
  ASSUME NEW s \in Seq(ScalarReplies), \A i \in DOMAIN s : s[i].kind # "double",
         NEW v \in Versions, NEW w \in Versions, NEW T \in {"list", "tuple"}
  PROVE  PyEq([t |-> T, items |-> EncodeSeq(s, v)], [t |-> T, items |-> EncodeSeq(s, w)])
<1>1. Len(EncodeSeq(s, v)) = Len(EncodeSeq(s, w))
  BY DEF EncodeSeq
<1>2. \A i \in DOMAIN EncodeSeq(s, v) :
        CanonScalar(EncodeSeq(s, v)[i]) = CanonScalar(EncodeSeq(s, w)[i])
  BY ScalarTransparent DEF EncodeSeq
<1>. QED  BY <1>1, <1>2 DEF PyEq

\* A list iterates to its items.
LEMMA IterList ==
  ASSUME NEW x
  PROVE  IsSeqLike(PyList(x)) /\ Iter(PyList(x)) = x /\ PyList(x).t = "list"
BY DEF IsSeqLike, Iter, PyList

\* The classes that iterate an array (tuple(), list(), bool() of each
\* element; lines 95-104, 136-141, 168-170) give ==-equal results for an
\* array without doubles under either version.
LEMMA ArrayTransparent ==
  ASSUME NEW cb, cb.family \in {"Tuple", "List", "Bools", "OptionalTuple"},
         NEW s \in Seq(ScalarReplies), \A i \in DOMAIN s : s[i].kind # "double",
         NEW v \in Versions, NEW w \in Versions, NEW p
  PROVE  OutcomeEq(Transform(cb, PyList(EncodeSeq(s, v)), p),
                   Transform(cb, PyList(EncodeSeq(s, w)), p))
<1>1. /\ IsSeqLike(PyList(EncodeSeq(s, v))) /\ Iter(PyList(EncodeSeq(s, v))) = EncodeSeq(s, v)
      /\ IsSeqLike(PyList(EncodeSeq(s, w))) /\ Iter(PyList(EncodeSeq(s, w))) = EncodeSeq(s, w)
      /\ PyList(EncodeSeq(s, v)).t = "list" /\ PyList(EncodeSeq(s, w)).t = "list"
  BY IterList
<1>2. OutcomeEq(Ret(PyTuple(EncodeSeq(s, v))), Ret(PyTuple(EncodeSeq(s, w))))
  BY SeqTransparent DEF OutcomeEq, Ret, PyTuple
<1>3. OutcomeEq(Ret(PyList(EncodeSeq(s, v))), Ret(PyList(EncodeSeq(s, w))))
  BY SeqTransparent DEF OutcomeEq, Ret, PyList
<1>4. CASE cb.family = "Tuple"
  BY <1>1, <1>2, <1>4 DEF Transform, TupleTransform, ToTuple
<1>5. CASE cb.family = "List"
  BY <1>1, <1>3, <1>5 DEF Transform, ListTransform
<1>6. CASE cb.family = "Bools"
  <2>1. [i \in DOMAIN EncodeSeq(s, v) |-> BoolTransform(EncodeSeq(s, v)[i]).val]
          = [i \in DOMAIN EncodeSeq(s, w) |-> BoolTransform(EncodeSeq(s, w)[i]).val]
    BY ScalarTransparent DEF EncodeSeq
  <2>2. Transform(cb, PyList(EncodeSeq(s, v)), p) = Transform(cb, PyList(EncodeSeq(s, w)), p)
    BY <1>1, <1>6, <2>1 DEF Transform, BoolsTransform
  <2>. QED  BY <2>2, OutcomeEqRefl
<1>7. CASE cb.family = "OptionalTuple"
  <2>1. CASE s = <<>>
    <3>1. EncodeSeq(s, v) = <<>> /\ EncodeSeq(s, w) = <<>>  BY <2>1 DEF EncodeSeq
    <3>. QED  BY <3>1, OutcomeEqRefl
  <2>2. CASE s # <<>>
    <3>1. EncodeSeq(s, v) # <<>> /\ EncodeSeq(s, w) # <<>>  BY <2>2 DEF EncodeSeq
    <3>2. Truthy(PyList(EncodeSeq(s, v))) /\ Truthy(PyList(EncodeSeq(s, w)))
      BY <1>1, <3>1 DEF Truthy, IsNumber, PyList
    <3>. QED  BY <1>1, <1>2, <1>7, <3>2 DEF Transform, OptionalTupleTransform, PyAnd, ToTuple
  <2>. QED  BY <2>1, <2>2
<1>. QED  BY <1>4, <1>5, <1>6, <1>7

\* The members of a set reply, compared by value.
CanonMembers(m) == {CanonScalar(EncodeScalar(m[i], 3)) : i \in DOMAIN m}

\* SetCallback (lines 131-134) returns, under either version, a set whose
\* members compare equal to the decoded members of the reply.
LEMMA SetResult ==
  ASSUME NEW cb, cb.family = "Set",
         NEW l, l.kind = "set", l.members \in Seq(ScalarReplies),
         \A i \in DOMAIN l.members : l.members[i].kind # "double",
         NEW u \in Versions, NEW p
  PROVE  \E R : /\ Transform(cb, Encode(l, u), p) = Ret(R)
               /\ R.t = "set"
               /\ Canon(R) = [t |-> "set", members |-> CanonMembers(l.members)]
<1>1. \A i \in DOMAIN l.members :
        CanonScalar(EncodeScalar(l.members[i], u)) = CanonScalar(EncodeScalar(l.members[i], 3))
  BY ScalarTransparent DEF Versions
<1>2. \A A : Canon(PySet(A)) = [t |-> "set", members |-> {CanonScalar(x) : x \in A}]
  BY DEF Canon, PySet
<1>3. CASE u = 3
  <2>1. Encode(l, u) = PySet(ElemSet(EncodeSeq(l.members, 3)))  BY <1>3 DEF Encode
  <2>2. Transform(cb, Encode(l, u), p) = Ret(PySet(ElemSet(EncodeSeq(l.members, 3))))
    <3>1. Transform(cb, Encode(l, u), p) = SetTransform(Encode(l, u))  BY DEF Transform
    <3>2. Encode(l, u).t = "set"  BY <2>1 DEF PySet
    \* A non-empty set is also truthy; that arm's set() returns it as well.
    <3>3. ToSet(Encode(l, u)) = Ret(Encode(l, u))  BY <3>2 DEF ToSet, IsSeqLike
    <3>4. SetTransform(Encode(l, u)) = Ret(Encode(l, u))  BY <3>2, <3>3 DEF SetTransform
    <3>. QED  BY <2>1, <3>1, <3>4
  <2>3. {CanonScalar(x) : x \in ElemSet(EncodeSeq(l.members, 3))} = CanonMembers(l.members)
    BY DEF ElemSet, EncodeSeq, CanonMembers
  <2>. QED  BY <1>2, <2>2, <2>3 DEF PySet
<1>4. CASE u = 2
  <2>1. Encode(l, u) = PyList(EncodeSeq(l.members, 2))  BY <1>4 DEF Encode
  <2>2. /\ IsSeqLike(PyList(EncodeSeq(l.members, 2)))
        /\ Iter(PyList(EncodeSeq(l.members, 2))) = EncodeSeq(l.members, 2)
        /\ PyList(EncodeSeq(l.members, 2)).t = "list"
    BY IterList
  <2>3. CASE l.members = <<>>
    <3>1. EncodeSeq(l.members, 2) = <<>>  BY <2>3 DEF EncodeSeq
    <3>2. ~Truthy(PyList(<<>>))  BY DEF Truthy, IsNumber, IsSeqLike, Iter, PyList
    <3>3. Transform(cb, Encode(l, u), p) = Ret(PySet({}))
      BY <2>1, <2>2, <3>1, <3>2 DEF Transform, SetTransform
    <3>4. CanonMembers(l.members) = {}  BY <2>3 DEF CanonMembers
    <3>. QED  BY <1>2, <3>3, <3>4 DEF PySet
  <2>4. CASE l.members # <<>>
    <3>1. EncodeSeq(l.members, 2) # <<>>  BY <2>4 DEF EncodeSeq
    <3>2. Truthy(PyList(EncodeSeq(l.members, 2)))
      BY <2>2, <3>1 DEF Truthy, IsNumber
    <3>3. ToSet(PyList(EncodeSeq(l.members, 2))) = Ret(PySet(ElemSet(EncodeSeq(l.members, 2))))
      BY <2>2 DEF ToSet
    <3>4. Transform(cb, Encode(l, u), p) = Ret(PySet(ElemSet(EncodeSeq(l.members, 2))))
      BY <2>1, <2>2, <3>2, <3>3 DEF Transform, SetTransform
    <3>5. {CanonScalar(x) : x \in ElemSet(EncodeSeq(l.members, 2))} = CanonMembers(l.members)
      BY <1>1, <1>4 DEF ElemSet, EncodeSeq, CanonMembers
    <3>. QED  BY <1>2, <3>4, <3>5 DEF PySet
  <2>. QED  BY <2>3, <2>4
<1>. QED  BY <1>3, <1>4 DEF Versions

\* The elements of an aggregate reply, in the server's order.
Payload(l) ==
  CASE l.kind = "array" -> l.elems
    [] l.kind = "set"   -> l.members
    [] l.kind = "map"   -> l.pairs

\* bool() of a list, a set and a dict: non-empty.
LEMMA TruthyContainers ==
  /\ \A x : Truthy(PyList(x)) = (x # <<>>)
  /\ \A S : Truthy(PySet(S)) = (S # {})
  /\ \A f : Truthy(PyDict(f)) = (DOMAIN f # {})
BY DEF Truthy, PyList, PySet, PyDict, IsNumber, IsSeqLike, Iter

\* The interval 1 .. n is empty exactly when n is 0.
LEMMA EmptyInterval ==
  ASSUME NEW n \in Nat
  PROVE  (1 .. n = {}) <=> (n = 0)
<1>1. n = 0 => 1 .. n = {}  OBVIOUS
<1>2. n # 0 => 1 \in 1 .. n  OBVIOUS
<1>. QED  BY <1>1, <1>2

\* A sequence decodes elementwise to an empty sequence exactly when it is
\* empty.
LEMMA EncodeSeqEmpty ==
  ASSUME NEW S, NEW s \in Seq(S), NEW u
  PROVE  /\ (EncodeSeq(s, u) = <<>>) <=> (s = <<>>)
         /\ (ElemSet(EncodeSeq(s, u)) = {}) <=> (s = <<>>)
<1>1. DOMAIN EncodeSeq(s, u) = 1 .. Len(s)  BY DEF EncodeSeq
<1>2. (s = <<>>) <=> (Len(s) = 0)  OBVIOUS
<1>3. (EncodeSeq(s, u) = <<>>) <=> (Len(s) = 0)  BY <1>1 DEF EncodeSeq
<1>4. (ElemSet(EncodeSeq(s, u)) = {}) <=> (DOMAIN EncodeSeq(s, u) = {})  BY DEF ElemSet
<1>5. (1 .. Len(s) = {}) <=> (Len(s) = 0)
  <2>1. Len(s) \in Nat  OBVIOUS
  <2>. QED  BY <2>1, EmptyInterval
<1>. QED  BY <1>1, <1>2, <1>3, <1>4, <1>5

\* Under either version an aggregate reply decodes to a list, a set or a
\* dict, which bool() finds true exactly when the reply has elements.
LEMMA AggregateTruthy ==
  ASSUME NEW l \in LogicalReplies, l.kind \in AggregateKinds, NEW u \in Versions
  PROVE  /\ Encode(l, u).t \in {"list", "set", "dict"}
         /\ Truthy(Encode(l, u)) = (Payload(l) # <<>>)
<1>1. CASE l.kind = "array"
  <2>1. l.elems \in Seq(ScalarReplies)  BY <1>1 DEF LogicalReplies, ScalarReplies
  <2>2. Encode(l, u) = PyList(EncodeSeq(l.elems, u))  BY <1>1 DEF Encode
  <2>3. Payload(l) = l.elems  BY <1>1 DEF Payload
  <2>. QED  BY <2>1, <2>2, <2>3, TruthyContainers, EncodeSeqEmpty DEF PyList
<1>2. CASE l.kind = "set"
  <2>1. l.members \in Seq(ScalarReplies)  BY <1>2 DEF LogicalReplies, ScalarReplies
  <2>2. Payload(l) = l.members  BY <1>2 DEF Payload
  <2>3. CASE u = 3
    <3>1. Encode(l, u) = PySet(ElemSet(EncodeSeq(l.members, 3)))  BY <1>2, <2>3 DEF Encode
    <3>. QED  BY <2>1, <2>2, <3>1, TruthyContainers, EncodeSeqEmpty DEF PySet
  <2>4. CASE u = 2
    <3>1. Encode(l, u) = PyList(EncodeSeq(l.members, 2))  BY <1>2, <2>4 DEF Encode
    <3>. QED  BY <2>1, <2>2, <3>1, TruthyContainers, EncodeSeqEmpty DEF PyList
  <2>. QED  BY <2>3, <2>4 DEF Versions
<1>3. CASE l.kind = "map"
  <2>1. l.pairs \in Seq(ScalarReplies \X ScalarReplies)  BY <1>3 DEF LogicalReplies, ScalarReplies
  <2>2. Payload(l) = l.pairs  BY <1>3 DEF Payload
  <2>3. (l.pairs = <<>>) <=> (DOMAIN l.pairs = {})
    <3>1. DOMAIN l.pairs = 1 .. Len(l.pairs) /\ Len(l.pairs) \in Nat  BY <2>1
    <3>2. (1 .. Len(l.pairs) = {}) <=> (Len(l.pairs) = 0)  BY <3>1, EmptyInterval
    <3>. QED  BY <2>1, <3>1, <3>2
  <2>4. CASE u = 3
    <3> DEFINE K == {EncodeScalar(l.pairs[i][1], 3) : i \in DOMAIN l.pairs}
    <3> DEFINE F == [k \in K |-> EncodeScalar(l.pairs[CHOOSE i \in DOMAIN l.pairs :
                                     EncodeScalar(l.pairs[i][1], 3) = k][2], 3)]
    <3>1. Encode(l, u) = PyDict(F)  BY <1>3, <2>4 DEF Encode
    <3>2. (K = {}) <=> (DOMAIN l.pairs = {})  OBVIOUS
    <3>3. Truthy(PyDict(F)) = (DOMAIN F # {})  BY TruthyContainers
    <3>4. DOMAIN F = K  OBVIOUS
    <3>. QED  BY <2>2, <2>3, <3>1, <3>2, <3>3, <3>4 DEF PyDict
  <2>5. CASE u = 2
    <3>1. Encode(l, u) = PyList(EncodeSeq(Flatten(l.pairs), 2))  BY <1>3, <2>5 DEF Encode
    <3>2. DOMAIN EncodeSeq(Flatten(l.pairs), 2) = 1 .. 2 * Len(l.pairs)
      BY DEF EncodeSeq, Flatten
    <3>3. (EncodeSeq(Flatten(l.pairs), 2) = <<>>) <=> (Len(l.pairs) = 0)
      BY <2>1, <3>2 DEF EncodeSeq
    <3>4. (l.pairs = <<>>) <=> (Len(l.pairs) = 0)  BY <2>1
    <3>. QED  BY <2>2, <3>1, <3>3, <3>4, TruthyContainers DEF PyList
  <2>. QED  BY <2>4, <2>5 DEF Versions
<1>. QED  BY <1>1, <1>2, <1>3 DEF AggregateKinds

\* BoolCallback on an aggregate reply (line 84, bool(response)) gives the
\* same result under either version.
LEMMA BoolAggregateTransparent ==
  ASSUME NEW cb, cb.family = "Bool", NEW l \in LogicalReplies, l.kind \in AggregateKinds,
         NEW v \in Versions, NEW w \in Versions, NEW p
  PROVE  OutcomeEq(Transform(cb, Encode(l, v), p), Transform(cb, Encode(l, w), p))
<1>1. \A u \in Versions : Transform(cb, Encode(l, u), p) = Ret(PyBool(Payload(l) # <<>>))
  <2> SUFFICES ASSUME NEW u \in Versions
               PROVE  Transform(cb, Encode(l, u), p) = Ret(PyBool(Payload(l) # <<>>))
    OBVIOUS
  <2>1. /\ Encode(l, u).t \in {"list", "set", "dict"}
        /\ Truthy(Encode(l, u)) = (Payload(l) # <<>>)
    BY AggregateTruthy
  <2>2. Transform(cb, Encode(l, u), p) = BoolTransform(Encode(l, u))  BY DEF Transform
  <2>. QED  BY <2>1, <2>2 DEF BoolTransform
<1>. QED  BY <1>1, OutcomeEqRefl

\* The classes other than DictCallback and OptionalSetCallback, whose
\* transforms do not read the two shapes alike (findings 1 and 2).
TransparentFamilies == Families \ {"Dict", "OptionalSet"}

\* A reply that is not a double and holds none.  An aggregate holding a
\* double is not read alike (finding 4).  A double reply is not read
\* alike by BoolCallback or DateTimeCallback (findings 5 and 6), and
\* the provers cannot follow its RESP2 decimal text through float() in
\* FloatCallback (README, "What stays with TLC").
DoubleFree(l) ==
  /\ l.kind # "double"
  /\ l.kind = "array" => \A i \in DOMAIN l.elems : l.elems[i].kind # "double"
  /\ l.kind = "set" => \A i \in DOMAIN l.members : l.members[i].kind # "double"

\* Invocation at two versions of a reply the class accepts gives ==-equal
\* results: __call__'s dispatch is to the same transform (no class
\* overrides transform_3), and each transform reads both shapes alike.
LEMMA TransformTransparent ==
  ASSUME NEW cb \in CallbackConfigs, cb.family \in TransparentFamilies,
         NEW l \in LogicalReplies, l.kind \in Accepts(cb.family), DoubleFree(l),
         NEW v \in Versions, NEW w \in Versions, NEW p
  PROVE  OutcomeEq(Invoke(cb, Encode(l, v), v, p), Invoke(cb, Encode(l, w), w, p))
<1>1. \A r, u : Invoke(cb, r, u, p) = Transform(cb, r, p)  BY DEF Invoke, Transform3
<1>. SUFFICES OutcomeEq(Transform(cb, Encode(l, v), p), Transform(cb, Encode(l, w), p))
  BY <1>1
<1>2. cb.family \in Families \ {"Dict", "OptionalSet"}  BY DEF TransparentFamilies
<1>3. CASE l.kind \in {"nil", "int", "bulk", "status"}
  <2>1. Encode(l, v) = Encode(l, w)  BY <1>3 DEF Encode, EncodeScalar
  <2>. QED  BY <2>1, OutcomeEqRefl
<1>4. CASE l.kind = "boolean"
  <2>1. l \in ScalarReplies  BY <1>4 DEF LogicalReplies
  <2>2. \A u \in Versions : Encode(l, u) = EncodeScalar(l, u)  BY <1>4 DEF Encode
  <2>3. cb.family \in {"Bool", "SimpleStringOrInt"}  BY <1>2, <1>4 DEF Accepts, Families
  <2>4. CASE cb.family = "Bool"
    <3>1. BoolTransform(Encode(l, v)) = BoolTransform(Encode(l, w))
      BY <1>4, <2>1, <2>2, ScalarTransparent
    <3>. QED  BY <2>4, <3>1, OutcomeEqRefl DEF Transform
  <2>5. CASE cb.family = "SimpleStringOrInt"
    <3>1. \A u \in Versions : Encode(l, u).t \in {"int", "bool"}
      BY <1>4, EncodeBoolean DEF PyBool, PyInt
    <3>2. \A u \in Versions : Transform(cb, Encode(l, u), p) = Ret(Encode(l, u))
      BY <2>5, <3>1 DEF Transform, SimpleStringOrIntTransform
    <3>3. CanonScalar(Encode(l, v)) = CanonScalar(Encode(l, w))
      BY <1>4, <2>1, <2>2, ScalarTransparent
    <3>4. PyEq(Encode(l, v), Encode(l, w))
      BY <3>1, <3>3 DEF PyEq, Canon
    <3>5. /\ Transform(cb, Encode(l, v), p) = Ret(Encode(l, v))
          /\ Transform(cb, Encode(l, w), p) = Ret(Encode(l, w))
      BY <3>2
    <3>6. OutcomeEq(Ret(Encode(l, v)), Ret(Encode(l, w)))  BY <3>4 DEF OutcomeEq, Ret
    <3>. QED  BY <3>5, <3>6
  <2>. QED  BY <2>3, <2>4, <2>5
<1>5. CASE cb.family = "Bool" /\ l.kind \in AggregateKinds
  BY <1>5, BoolAggregateTransparent
<1>6. CASE cb.family # "Bool" /\ l.kind = "array"
  <2>1. l.elems \in Seq(ScalarReplies)  BY <1>6 DEF LogicalReplies, ScalarReplies
  <2>2. \A u \in Versions : Encode(l, u) = PyList(EncodeSeq(l.elems, u))  BY <1>6 DEF Encode
  <2>3. cb.family \in {"Tuple", "List", "Bools", "OptionalTuple"}
    BY <1>2, <1>6 DEF Accepts, Families
  <2>. QED  BY <1>6, <2>1, <2>2, <2>3, ArrayTransparent DEF DoubleFree
<1>7. CASE cb.family # "Bool" /\ l.kind = "set"
  <2>1. l.members \in Seq(ScalarReplies)  BY <1>7 DEF LogicalReplies, ScalarReplies
  <2>2. cb.family = "Set"  BY <1>2, <1>7 DEF Accepts, Families
  <2>3. \A i \in DOMAIN l.members : l.members[i].kind # "double"  BY <1>7 DEF DoubleFree
  <2>4. PICK Rv : /\ Transform(cb, Encode(l, v), p) = Ret(Rv) /\ Rv.t = "set"
                  /\ Canon(Rv) = [t |-> "set", members |-> CanonMembers(l.members)]
    BY <1>7, <2>1, <2>2, <2>3, SetResult
  <2>5. PICK Rw : /\ Transform(cb, Encode(l, w), p) = Ret(Rw) /\ Rw.t = "set"
                  /\ Canon(Rw) = [t |-> "set", members |-> CanonMembers(l.members)]
    BY <1>7, <2>1, <2>2, <2>3, SetResult
  <2>6. PyEq(Rv, Rw)  BY <2>4, <2>5 DEF PyEq
  <2>. QED  BY <2>4, <2>5, <2>6 DEF OutcomeEq, Ret
<1>8. CASE cb.family # "Bool" /\ l.kind = "map"
  BY <1>2, <1>8 DEF Accepts, Families
<1>9. CASE l.kind = "double"
  BY <1>9 DEF DoubleFree
<1>. QED  BY <1>3, <1>4, <1>5, <1>6, <1>7, <1>8, <1>9
  DEF LogicalReplies, ScalarReplies, AggregateKinds

\* A completed call's outcome is what the same callback would give for the
\* same logical reply under the other protocol version (VersionTransparency),
\* for any configuration whose callbacks exclude DictCallback and
\* OptionalSetCallback and whose replies hold no double.  No exclusion can
\* be dropped: DictCallback breaks the property (run dict_versions,
\* finding 1); OptionalSetCallback returns an empty RESP3 set as set() and
\* the empty RESP2 array as []; TupleCallback keeps a double inside an
\* array as 12.0 under one version and b"12" under the other (run
\* nested_double, finding 4); BoolCallback and DateTimeCallback read a
\* double 0 differently (runs bool_double and datetime_double).  Top-level
\* doubles through FloatCallback and OptionalFloatCallback are left to the
\* float_doubles run.
THEOREM VersionTransparent ==
  ASSUME \A cb \in Instances : cb.family \in TransparentFamilies,
         \A l \in ReplySet : DoubleFree(l)
  PROVE  Spec => []VersionTransparency
<1>1. IInv => VersionTransparency
  <2> SUFFICES ASSUME IInv, stage = "done"
               PROVE  OutcomeEq(outcome, Invoke(req.cb, Encode(req.logical, IF proto = 3 THEN 2 ELSE 3),
                                                IF proto = 3 THEN 2 ELSE 3, req.params))
    BY DEF VersionTransparency
  <2>1. /\ req.cb \in Instances /\ req.logical \in ReplySet /\ proto \in Versions
        /\ req.logical.kind \in Accepts(req.cb.family)
        /\ outcome = Invoke(req.cb, Encode(req.logical, proto), proto, req.params)
    BY DEF IInv, TypeOK
  <2>2. /\ req.cb \in CallbackConfigs /\ req.cb.family \in TransparentFamilies
        /\ req.logical \in LogicalReplies /\ DoubleFree(req.logical)
    BY <2>1, InstancesAssumption, ReplySetAssumption
  <2>3. (IF proto = 3 THEN 2 ELSE 3) \in Versions  BY DEF Versions
  <2>. QED  BY <2>1, <2>2, <2>3, TransformTransparent
<1>. QED  BY <1>1, IInvInductive, PTL

=============================================================================
