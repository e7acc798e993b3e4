------------------------------- MODULE Replies ------------------------------
(***************************************************************************)
(* Logical server replies and the Python values the decoder makes of them *)
(* under each protocol version (spec section 3).  The decoder is outside  *)
(* this repository; this module states the shapes it hands over:          *)
(*   - RESP3 decodes maps to dicts, sets to sets, doubles to floats and   *)
(*     booleans to bools;                                                  *)
(*   - RESP2 has none of these: a map arrives as the flat array           *)
(*     k1, v1, k2, v2, ..., a set as an array, a double as its decimal    *)
(*     text in a bulk string and a boolean as the integer 1 or 0.         *)
(* A logical reply is a record of its kind and a payload field named for  *)
(* the kind: n (int), s (bulk, status), f (double), b (boolean), elems    *)
(* (array), pairs (map: key/value pairs, distinct keys, in the order the  *)
(* server sends them), members (set: distinct, in the server's order).    *)
(* The elements of an aggregate are scalars.                              *)
(***************************************************************************)
EXTENDS PyValues

Versions == {2, 3}

ScalarKinds == {"nil", "int", "bulk", "status", "double", "boolean"}
AggregateKinds == {"array", "map", "set"}

\* The logical replies: scalars with their payloads, and aggregates of
\* scalars.  A double carries a natural number (integral, see PyValues).
ScalarReplies ==
  {[kind |-> "nil"]} \cup [kind : {"int"}, n : Int]
    \cup [kind : {"bulk", "status"}, s : Seq(0 .. 255)]
    \cup [kind : {"double"}, f : Nat] \cup [kind : {"boolean"}, b : BOOLEAN]

LogicalReplies ==
  ScalarReplies \cup [kind : {"array"}, elems : Seq(ScalarReplies)]
    \cup [kind : {"set"}, members : Seq(ScalarReplies)]
    \cup [kind : {"map"}, pairs : Seq(ScalarReplies \X ScalarReplies)]

\* The value a scalar reply decodes to under protocol version ver.
EncodeScalar(l, ver) ==
  CASE l.kind = "nil"               -> PyNone
    [] l.kind = "int"               -> PyInt(l.n)
    [] l.kind \in {"bulk", "status"} -> PyBytes(l.s)
    [] l.kind = "double"            -> IF ver = 3 THEN PyFloat(l.f)
                                                  ELSE PyBytes(DecimalText[l.f])
    [] l.kind = "boolean"           -> IF ver = 3 THEN PyBool(l.b)
                                                  ELSE PyInt(IF l.b THEN 1 ELSE 0)

EncodeSeq(s, ver) == [i \in DOMAIN s |-> EncodeScalar(s[i], ver)]

\* The flat RESP2 array of a map: key1, value1, key2, value2, ...
Flatten(pairs) ==
  [i \in 1 .. 2 * Len(pairs) |->
     IF i % 2 = 1 THEN pairs[(i + 1) \div 2][1] ELSE pairs[i \div 2][2]]

\* The value a reply decodes to under protocol version ver.
Encode(l, ver) ==
  CASE l.kind = "array" -> PyList(EncodeSeq(l.elems, ver))
    [] l.kind = "map"   ->
         IF ver = 3
           THEN PyDict([k \in {EncodeScalar(l.pairs[i][1], 3) : i \in DOMAIN l.pairs} |->
                          EncodeScalar(l.pairs[CHOOSE i \in DOMAIN l.pairs :
                                         EncodeScalar(l.pairs[i][1], 3) = k][2], 3)])
           ELSE PyList(EncodeSeq(Flatten(l.pairs), 2))
    [] l.kind = "set"   ->
         IF ver = 3 THEN PySet(ElemSet(EncodeSeq(l.members, 3)))
                    ELSE PyList(EncodeSeq(l.members, 2))
    [] OTHER            -> EncodeScalar(l, ver)

=============================================================================
