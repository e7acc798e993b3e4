------------------------------ MODULE PyValues ------------------------------
(***************************************************************************)
(* The Python values a RESP2/RESP3 decoder hands to the coredis response   *)
(* callbacks, and the builtins the callbacks apply to them: truthiness,    *)
(* bool(), float(), int(), tuple(), list(), set(), dict(),                 *)
(* datetime.fromtimestamp() and ==.                                        *)
(*                                                                         *)
(* A value is a record of a type tag t and a payload field named for its  *)
(* type, so values of two types differ by their fields.  Bytes are        *)
(* sequences of octets; floats carry integral values only; a datetime     *)
(* carries microseconds since the epoch.  Containers hold scalars (bytes, *)
(* ints, bools, floats, None): the replies routed to these callbacks are  *)
(* flat.  A builtin returns an outcome: a value, or a raised exception.   *)
(***************************************************************************)
EXTENDS Integers, Sequences

PyNone == [t |-> "none"]
PyBool(b) == [t |-> "bool", b |-> b]
PyInt(n) == [t |-> "int", n |-> n]
PyFloat(n) == [t |-> "float", f |-> n]
PyBytes(s) == [t |-> "bytes", s |-> s]
PyList(s) == [t |-> "list", items |-> s]
PyTuple(s) == [t |-> "tuple", items |-> s]
PySet(S) == [t |-> "set", members |-> S]
PyDict(f) == [t |-> "dict", map |-> f]
PyDateTime(us) == [t |-> "datetime", us |-> us]

Tags == {"none", "bool", "int", "float", "bytes", "list", "tuple", "set",
         "dict", "datetime"}

\* The exceptions the builtins raise.
BuiltinErrors == {"TypeError", "ValueError"}

\* The outcome of a call: a returned value or a raised exception.  "val" of
\* a raise is the argument the exception carries.
Ret(x) == [ok |-> TRUE, val |-> x, exc |-> "none"]
Raise(e, x) == [ok |-> FALSE, val |-> x, exc |-> e]

-----------------------------------------------------------------------------
(* Numbers and truthiness (`if x`, `x and y`, bool(x)).                    *)

IsNumber(x) == x.t \in {"bool", "int", "float"}

NumVal(x) ==
  CASE x.t = "bool"  -> IF x.b THEN 1 ELSE 0
    [] x.t = "int"   -> x.n
    [] x.t = "float" -> x.f

IsSeqLike(x) == x.t \in {"bytes", "list", "tuple"}

\* The elements iter(x) yields: bytes yield their octets as ints.  Sets
\* and dicts iterate in hash order and are never routed to the callbacks
\* that iterate (Tuple, List, Bools), so their order is not modelled.
Iter(x) == IF x.t = "bytes" THEN [i \in DOMAIN x.s |-> PyInt(x.s[i])]
                            ELSE x.items

Truthy(x) ==
  CASE x.t = "none"     -> FALSE
    [] IsNumber(x)      -> NumVal(x) # 0
    [] IsSeqLike(x)     -> Iter(x) # <<>>
    [] x.t = "set"      -> x.members # {}
    [] x.t = "dict"     -> DOMAIN x.map # {}
    [] x.t = "datetime" -> TRUE

\* Python's `x and y`, y the outcome of a call made only when x is truthy.
PyAnd(x, y) == IF Truthy(x) THEN y ELSE Ret(x)

ElemSet(s) == {s[i] : i \in DOMAIN s}

-----------------------------------------------------------------------------
(* Numeric parsing of bytes: float(b"12") = 12.0, int(b"12") = 12.        *)

Digits == 48 .. 57

IsDecimal(s) == s # <<>> /\ \A i \in DOMAIN s : s[i] \in Digits

DecimalValue[s \in Seq(Int)] ==
  IF s = <<>> THEN 0
  ELSE 10 * DecimalValue[SubSeq(s, 1, Len(s) - 1)] + (s[Len(s)] - 48)

\* The decimal text of a natural number (str(n).encode()).
DecimalText[n \in Nat] ==
  IF n < 10 THEN <<48 + n>>
  ELSE Append(DecimalText[n \div 10], 48 + (n % 10))

\* float(x)
ToFloat(x) ==
  CASE x.t = "float"                  -> Ret(x)
    [] IsNumber(x)                    -> Ret(PyFloat(NumVal(x)))
    [] x.t = "bytes" /\ IsDecimal(x.s) -> Ret(PyFloat(DecimalValue[x.s]))
    [] x.t = "bytes"                  -> Raise("ValueError", x)
    [] OTHER                          -> Raise("TypeError", x)

\* int(x): floats are integral here, so truncation keeps the value.
ToInt(x) ==
  CASE x.t = "int"                    -> Ret(x)
    [] IsNumber(x)                    -> Ret(PyInt(NumVal(x)))
    [] x.t = "bytes" /\ IsDecimal(x.s) -> Ret(PyInt(DecimalValue[x.s]))
    [] x.t = "bytes"                  -> Raise("ValueError", x)
    [] OTHER                          -> Raise("TypeError", x)

-----------------------------------------------------------------------------
(* Conversions of containers.                                              *)

ToTuple(x) == IF IsSeqLike(x) THEN Ret(PyTuple(Iter(x))) ELSE Raise("TypeError", x)

ToList(x) == IF IsSeqLike(x) THEN Ret(PyList(Iter(x))) ELSE Raise("TypeError", x)

ToSet(x) ==
  CASE x.t = "set"   -> Ret(x)
    [] IsSeqLike(x)  -> Ret(PySet(ElemSet(Iter(x))))
    [] x.t = "dict"  -> Ret(PySet(DOMAIN x.map))
    [] OTHER         -> Raise("TypeError", x)

\* dict(seq): every element must itself iterate to exactly two items (a
\* two-byte bytes value does: dict([b"ab"]) = {97: 98}).  The first element
\* that does not raises TypeError when it is not iterable, ValueError when
\* its length is not 2.  A later pair overrides an earlier one's value.
IsPair(e) == IsSeqLike(e) /\ Len(Iter(e)) = 2

DictFromPairs(s) ==
  LET bad == {i \in DOMAIN s : ~IsPair(s[i])}
      first == CHOOSE i \in bad : \A j \in bad : i <= j
      key(i) == Iter(s[i])[1]
      last(k) == CHOOSE i \in DOMAIN s : /\ key(i) = k
                                         /\ \A j \in DOMAIN s : j > i => key(j) # k
  IN  IF bad # {}
        THEN Raise(IF IsSeqLike(s[first]) THEN "ValueError" ELSE "TypeError", s[first])
        ELSE Ret(PyDict([k \in {key(i) : i \in DOMAIN s} |-> Iter(s[last(k)])[2]]))

ToDict(x) ==
  CASE x.t = "dict" -> Ret(x)
    [] IsSeqLike(x) -> DictFromPairs(Iter(x))
    [] OTHER        -> Raise("TypeError", x)

\* datetime.fromtimestamp(ts / div) in microseconds since the epoch; the
\* local-time offset is a fixed bijection and is left out.
FromTimestamp(x, div) ==
  IF IsNumber(x) THEN Ret(PyDateTime((NumVal(x) * 1000000) \div div))
                 ELSE Raise("TypeError", x)

-----------------------------------------------------------------------------
(* Python ==: bool, int and float compare by numeric value (1 == True ==  *)
(* 1.0); a list never equals a tuple; containers compare elementwise.     *)

CanonScalar(x) == IF IsNumber(x) THEN [t |-> "number", n |-> NumVal(x)] ELSE x

\* Sets and dicts hash and compare their members and keys by value too:
\* {True} == {1} and {1: b"a"} == {True: b"a"}.
Canon(x) ==
  CASE x.t = "set"  -> [t |-> "set", members |-> {CanonScalar(m) : m \in x.members}]
    [] x.t = "dict" ->
         LET keys == {CanonScalar(k) : k \in DOMAIN x.map}
         IN  [t |-> "dict",
              map |-> [c \in keys |->
                         CanonScalar(x.map[CHOOSE k \in DOMAIN x.map : CanonScalar(k) = c])]]
    [] OTHER        -> CanonScalar(x)

PyEq(a, b) ==
  IF a.t \in {"list", "tuple"} /\ b.t = a.t
    THEN /\ Len(a.items) = Len(b.items)
         /\ \A i \in DOMAIN a.items : CanonScalar(a.items[i]) = CanonScalar(b.items[i])
    ELSE Canon(a) = Canon(b)

=============================================================================
