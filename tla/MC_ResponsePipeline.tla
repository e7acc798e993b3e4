------------------------- MODULE MC_ResponsePipeline -------------------------
(***************************************************************************)
(* Small instances of ResponsePipeline for TLC.                           *)
(***************************************************************************)
EXTENDS ResponsePipeline, TLC

CONSTANT ResponseError   \* an exception class passed as raise_on_error

MCErrorClasses == {ResponseError}

\* Bulk strings over the octets "0", "1", "K", "O".
B0 == <<48>>
B1 == <<49>>
B10 == <<49, 48>>
BK == <<75>>

Bulk(s) == [kind |-> "bulk", s |-> s]

\* Replies covering every kind, with the edges that matter: nil, zero,
\* the empty bulk string and the empty aggregates, a status other than OK,
\* doubles of one to four digits of text (an inner zero, a millisecond
\* timestamp), decimal text in a bulk string, map keys of one and of two
\* octets.
MCReplySet ==
  {[kind |-> "nil"],
   [kind |-> "int", n |-> 0], [kind |-> "int", n |-> 1], [kind |-> "int", n |-> 1000],
   Bulk(<<>>), Bulk(B1), Bulk(B10), Bulk(BK), Bulk(OK),
   [kind |-> "status", s |-> OK], [kind |-> "status", s |-> BK],
   [kind |-> "double", f |-> 0], [kind |-> "double", f |-> 7],
   [kind |-> "double", f |-> 12], [kind |-> "double", f |-> 105],
   [kind |-> "double", f |-> 1000],
   [kind |-> "boolean", b |-> TRUE], [kind |-> "boolean", b |-> FALSE],
   [kind |-> "array", elems |-> <<>>],
   [kind |-> "array", elems |-> <<Bulk(B1), Bulk(BK)>>],
   [kind |-> "array", elems |-> <<[kind |-> "boolean", b |-> TRUE],
                              [kind |-> "boolean", b |-> FALSE]>>],
   [kind |-> "map", pairs |-> <<>>],
   [kind |-> "map", pairs |-> <<<<Bulk(B10), Bulk(B1)>>>>],
   [kind |-> "map", pairs |-> <<<<Bulk(BK), Bulk(B0)>>, <<Bulk(B1), Bulk(B10)>>>>],
   [kind |-> "set", members |-> <<>>],
   [kind |-> "set", members |-> <<Bulk(B1), Bulk(BK)>>],
   [kind |-> "set", members |-> <<[kind |-> "boolean", b |-> TRUE]>>]}

\* The replies above without the doubles: the replies of the
\* VersionTransparent theorem (none of them holds a double).
DoubleFreeReplySet == {l \in MCReplySet : l.kind # "double"}

\* An array whose element is a double, as RESP3 sends scores and
\* coordinates inside arrays.
MCNestedDoubleReplySet ==
  DoubleFreeReplySet \cup {[kind |-> "array", elems |-> <<[kind |-> "double", f |-> 12]>>]}

MCParamSet == {NoParams, [unit |-> "seconds"], [unit |-> "milliseconds"]}

Cfg(f) == [family |-> f, raise_on_error |-> "none"]

StatusInstances ==
  {Cfg("SimpleString"), [family |-> "SimpleString", raise_on_error |-> ResponseError]}

\* An instance of every class.
AllInstances == StatusInstances \cup {Cfg(f) : f \in Families \ {"SimpleString"}}

\* The classes of the VersionTransparent theorem: all but DictCallback and
\* OptionalSetCallback.
TransparentInstances ==
  {cb \in AllInstances : cb.family \notin {"Dict", "OptionalSet"}}

\* The classes that take a double and convert it with float().
FloatInstances == {Cfg("Float"), Cfg("OptionalFloat")}

DictInstances == {Cfg("Dict")}

BoolInstances == {Cfg("Bool")}

DateTimeInstances == {Cfg("DateTime")}

OptionalInstances ==
  {Cfg(f) : f \in {"OptionalFloat", "OptionalInt", "OptionalSet", "OptionalTuple"}}

=============================================================================
