--------------------------- MODULE ResponsePipeline --------------------------
(***************************************************************************)
(* A reply's way through the response-callback layer on one connection.   *)
(* The connection has negotiated protocol version proto.  The decoder     *)
(* hands over the reply of a command together with the callback instance  *)
(* the command is bound to and the call's keyword arguments (Receive);    *)
(* the callback is invoked with the reply and proto (InvokeCallback); the *)
(* caller takes the typed result or the raised exception (Deliver).       *)
(***************************************************************************)
EXTENDS CommandBinding

NoRequest == [idle |-> TRUE]

VARIABLES
  proto,    \* the protocol version the connection negotiated
  stage,    \* "idle", "received" (reply handed over) or "done" (invoked)
  req,      \* the reply in flight: callback, logical reply, decoded value, kwargs
  outcome   \* what the invocation returned or raised

vars == <<proto, stage, req, outcome>>

Init ==
  /\ proto \in Versions
  /\ stage = "idle"
  /\ req = NoRequest
  /\ outcome = NoOutcome

\* The decoder hands over a reply of a shape the bound callback accepts,
\* decoded under the connection's protocol version.
Receive ==
  /\ stage = "idle"
  /\ \E cb \in Instances, l \in ReplySet :
       /\ l.kind \in Accepts(cb.family)
       /\ \E p \in ParamsFor(cb.family) :
            req' = [cb |-> cb, logical |-> l, raw |-> Encode(l, proto), params |-> p]
  /\ stage' = "received"
  /\ UNCHANGED <<proto, outcome>>

\* callback(response, version=proto, **kwargs)
InvokeCallback ==
  /\ stage = "received"
  /\ outcome' = Invoke(req.cb, req.raw, proto, req.params)
  /\ stage' = "done"
  /\ UNCHANGED <<proto, req>>

\* The caller consumes the result or the exception.
Deliver ==
  /\ stage = "done"
  /\ stage' = "idle"
  /\ req' = NoRequest
  /\ outcome' = NoOutcome
  /\ UNCHANGED proto

Next == Receive \/ InvokeCallback \/ Deliver

Spec == Init /\ [][Next]_vars

-----------------------------------------------------------------------------
(* Properties.                                                             *)

(***************************************************************************)
(* Type correctness of the pipeline: an invocation's outcome is a Python   *)
(* value, and it raised exactly when it carries one of the exceptions a   *)
(* callback can raise (a builtin's or the configured raise_on_error).     *)
(***************************************************************************)
TypeOK ==
  /\ proto \in Versions
  /\ stage \in {"idle", "received", "done"}
  /\ stage = "idle" => req = NoRequest /\ outcome = NoOutcome
  /\ stage # "idle" => /\ req.cb \in Instances
                       /\ req.logical \in ReplySet
                       /\ req.params \in ParamSet
                       /\ req.raw.t \in Tags
  /\ stage = "done" => /\ outcome.ok \in BOOLEAN
                       /\ outcome.ok => outcome.exc = "none" /\ outcome.val.t \in Tags
                       /\ ~outcome.ok => outcome.exc \in Exceptions

\* Two outcomes agree when both return ==-equal values, or both raise the
\* same exception class.
OutcomeEq(a, b) ==
  /\ a.ok = b.ok
  /\ a.ok => PyEq(a.val, b.val)
  /\ ~a.ok => a.exc = b.exc

\* The status text of the reply is "OK".
IsOKStatus(l) == l.kind \in {"status", "bulk"} /\ l.s = OK

(***************************************************************************)
(* SimpleStringCallback's raise policy: the call returns True exactly when *)
(* the server's status is OK; it raises exactly when the status is not OK *)
(* and the instance was built with raise_on_error, and then raises that   *)
(* class carrying the raw reply.                                          *)
(***************************************************************************)
StatusRaisePolicy ==
  stage = "done" /\ req.cb.family = "SimpleString" =>
    /\ outcome = Ret(PyBool(TRUE)) <=> IsOKStatus(req.logical)
    /\ ~outcome.ok <=> (~IsOKStatus(req.logical) /\ req.cb.raise_on_error # "none")
    /\ ~outcome.ok => outcome.exc = req.cb.raise_on_error /\ outcome.val = req.raw

(***************************************************************************)
(* Protocol-version transparency: the callback gives the same result (by  *)
(* Python ==) or raises the same exception class whether the server's     *)
(* reply came in RESP2 or in RESP3 shape.  No callback class overrides    *)
(* transform_3, so each transform must itself accept both shapes.         *)
(***************************************************************************)
VersionTransparency ==
  stage = "done" =>
    LET other == IF proto = 3 THEN 2 ELSE 3
    IN  OutcomeEq(outcome, Invoke(req.cb, Encode(req.logical, other), other, req.params))

(***************************************************************************)
(* The Status family produces a boolean (spec 4.1): a SimpleStringCallback *)
(* call that returns, returns True or False.                              *)
(***************************************************************************)
StatusResultIsBool ==
  stage = "done" /\ req.cb.family = "SimpleString" /\ outcome.ok =>
    outcome.val.t = "bool"

\* The non-optional conversion an Optional class applies to a present value.
CounterpartOf(family, r) ==
  CASE family = "OptionalFloat" -> FloatTransform(r)
    [] family = "OptionalInt"   -> IF r.t \in {"int", "bool"} THEN Ret(r) ELSE ToInt(r)
    [] family = "OptionalSet"   -> SetTransform(r)
    [] family = "OptionalTuple" -> TupleTransform(r)

(***************************************************************************)
(* The Optional family (spec 4.1): a nil reply gives None, and any other  *)
(* reply gives either the explicit absent value None (a falsy reply) or   *)
(* what the non-optional counterpart makes of it; OptionalFloatCallback,  *)
(* OptionalIntCallback, OptionalSetCallback and OptionalTupleCallback     *)
(* compute `response and <coercion>(response)`.                           *)
(***************************************************************************)
OptionalAbsentOrCoerced ==
  stage = "done"
    /\ req.cb.family \in {"OptionalFloat", "OptionalInt", "OptionalSet", "OptionalTuple"} =>
      IF req.logical.kind = "nil"
        THEN outcome = Ret(PyNone)
        ELSE \/ outcome = Ret(PyNone)
             \/ OutcomeEq(outcome, CounterpartOf(req.cb.family, req.raw))

(***************************************************************************)
(* DateTimeCallback's unit (spec 8): an integer timestamp in milliseconds *)
(* gives the calendar time of the same instant given in seconds, and any  *)
(* unit other than "milliseconds", none included, reads as seconds.      *)
(***************************************************************************)
DateTimeUnitAgreement ==
  LET n == req.logical.n
      AsSeconds(k) == Invoke(req.cb, Encode([kind |-> "int", n |-> k], proto), proto,
                             [unit |-> "seconds"])
  IN  stage = "done" /\ req.cb.family = "DateTime" /\ req.logical.kind = "int" =>
        IF req.params.unit = "milliseconds"
          THEN n % 1000 = 0 => OutcomeEq(outcome, AsSeconds(n \div 1000))
          ELSE OutcomeEq(outcome, AsSeconds(n))

=============================================================================
