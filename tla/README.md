# Formal models of the coredis response callbacks and token registry

This directory holds TLA+ models of the two parts of coredis in `src/`:

- **the response-callback layer** (`coredis/response/callbacks/__init__.py`). It turns a
  reply that is already decoded into a typed result.
- **the token registry** (`coredis/tokens.py`). This is the set of protocol keywords that
  callers pass when they build commands.

The models come with TLC runs on small instances and TLAPS proofs. The proofs cover type
correctness, SimpleStringCallback's raise policy, DateTimeCallback's unit handling, and
that a callback's result does not depend on the protocol version for every class and
reply kind where that holds.

## The system

A command's reply arrives from the RESP2/RESP3 decoder, which is outside this repository.
It arrives as a Python value, and the command layer has bound a callback instance to the
command. The callback is called as `callback(reply, version=proto, **kwargs)`.
`SimpleCallback.__call__` and `ParametrizedCallback.__call__` send version 3 to
`transform_3` and every other version to `transform`. No class overrides `transform_3`,
so every `transform` must handle both protocols' shapes:

| Reply | RESP3 arrives as | RESP2 arrives as |
|---|---|---|
| map | `dict` | flat list `k1, v1, k2, v2, ...` |
| set | `set` | list |
| double | `float` | decimal bytes |
| boolean | `bool` | integer 0 or 1 |

The callback returns a value or raises. A raise is either a builtin error
(TypeError/ValueError from `float()`, `dict()`, ...) or, for `SimpleStringCallback`, the
class configured as `raise_on_error`. Callback instances are immutable after construction.

The token registry works in the other direction. `PureToken` and `PrefixToken` are enums
from member name to canonical bytes. They are compared case-insensitively and
encoding-insensitively: `CaseAndEncodingInsensitiveEnum` lives in `coredis._utils`, which
is not among the sources.

## Modules

| Module | Models | State and actions |
|---|---|---|
| `PyValues` | The Python values and builtins the callbacks use: truthiness, `x and y`, `float`, `int`, `tuple`, `list`, `set`, `dict`, `datetime.fromtimestamp`, `==` | Pure operators. Results are `Ret(v)` or `Raise(exc, arg)`. |
| `Callbacks` | One operator per class's `transform` (lines 58–170). `Transform` is method dispatch, `Transform3` is the default `transform_3`, `Invoke` is `__call__` (lines 30–55). | A callback instance is its configuration record (`family`, `raise_on_error`). |
| `Replies` | The shapes the decoder hands over under each version (spec §3). | `Encode(reply, version)` |
| `CommandBinding` | What the command layer fixes: the constants `Instances`, `ReplySet`, `ParamSet`, their assumptions, and which reply kinds (`Accepts`, spec §4.1's "Accepts" column) and keyword arguments (`ParamsFor`) each class is called with. `BoolCallback` takes any reply, `DateTimeCallback` an integer or a double, and an Optional class nil or what its counterpart takes. | — |
| `ResponsePipeline` | One reply on one connection. | Variables `proto`, `stage`, `req`, `outcome`. `Receive` hands over a reply that the bound callback accepts, decoded under `proto`. `InvokeCallback` is `callback(raw, version=proto, **kwargs)`. `Deliver` is the caller taking the result. |
| `Tokens` | The two enum tables member by member (lines 6–1404) as functions from name to value. | Data |
| `TokenLookup` | Comparing a caller's spelling with a token set (spec §4.2). | Variables `asked`, `arg`, `found`. `Lookup` is the only action. |
| `MC_ResponsePipeline` | Model values and the small sets for TLC. | — |
| `ResponsePipeline_proofs` | TLAPS proofs. | — |

### Abstractions

- **Bytes.** Bytes are sequences of octets, because `dict()` iterates them and `float()`
  parses them.
- **Floats.** Floats carry integral values only: a double reply carries a natural number,
  and its RESP2 text is that number's decimal digits. The replies in the model have no
  fractions.
- **Datetimes.** A datetime is microseconds since the epoch. The local-time offset is left
  out.
- **Equality.** `PyEq` is Python `==`. Numbers compare by value, and so do set members
  and dict keys: `{True} == {1}`.
- **Token values.** A token value is a TLA+ string. It is only ever compared, so there is
  no need to spell it out.
- **Letter case.** The case of a caller's spelling is abstracted to its upper-cased text
  plus a case tag. Every value in `tokens.py` is already upper case.

## Runs

Each of the `MC_*.cfg` files instantiates the model with one set of callback instances
and one set of replies. `MCReplySet` holds:

- nil;
- the integers 0, 1 and 1000;
- the empty bulk string, and the bulk strings "1", "10", "K" and "OK";
- the statuses OK and K;
- the doubles 0, 7, 12, 105 and 1000;
- the booleans true and false;
- the empty array, an array of bulks and an array of booleans;
- the empty map, a map with a two-octet key, and a two-pair map;
- the empty set, a two-member set and a set holding the boolean true.

`DoubleFreeReplySet` is the same without the doubles. `MCNestedDoubleReplySet` adds to it
an array holding the double 12. These bounds are enough because the classes branch only
on type, truthiness, emptiness, the length of a pair and the text OK, and every branch
is reached: zero and non-zero in each type, empty and non-empty aggregates, decimal
text of one to four digits. The model also fixes these settings:

| Setting | Values |
|---|---|
| Protocol versions | 2 and 3 |
| `raise_on_error` | None or the model value `ResponseError` |
| DateTime units | none, seconds, milliseconds |

| Run | Expect | Instances, replies | Checks | Shows |
|---|---|---|---|---|
| conforming | pass | all classes, `MCReplySet` | `StatusRaisePolicy`, `DateTimeUnitAgreement` | SimpleStringCallback returns True exactly on OK. It raises exactly on a non-OK status when configured to, and raises the configured class carrying the raw reply. `DateTimeCallback` reads the integer n in seconds and 1000·n in milliseconds as the same calendar time, and every unit other than `"milliseconds"`, including none, as seconds. |
| transparent | pass | all but Dict and OptionalSet, `DoubleFreeReplySet` | `VersionTransparency` | The instance of the `VersionTransparent` theorem. Each class, BoolCallback on every reply kind included, gives the same result or exception under RESP2 and RESP3. |
| float_doubles | pass | Float, OptionalFloat, `MCReplySet` | `VersionTransparency` | A double reaches `float()` as a RESP3 float or as RESP2 decimal text, and both give the same float. This is the case the theorem leaves out. |
| token_lookup | pass | — | `LookupDenotesMember` | Every token value denotes exactly its member, in both token sets, across all 209 members. |
| dict_versions | violation | Dict | `VersionTransparency` | `DictCallback` does not pair the RESP2 flat array (finding 1). |
| optional_empty | violation | the four Optional classes | `OptionalAbsentOrCoerced` | `OptionalFloatCallback` returns `b""` itself for the empty bulk string (finding 2). |
| status_bool | violation | SimpleString | `StatusResultIsBool` | `SimpleStringCallback` returns `None` for nil (finding 3). |
| nested_double | violation | as transparent, `MCNestedDoubleReplySet` | `VersionTransparency` | `TupleCallback` returns `(12.0,)` under RESP3 and `(b"12",)` under RESP2 (finding 4). |
| bool_double | violation | Bool | `VersionTransparency` | `BoolCallback` reads the double 0 as False under RESP3 and as True under RESP2 (finding 5). |
| datetime_double | violation | DateTime | `VersionTransparency` | `DateTimeCallback` on a double raises TypeError under RESP2 (finding 6). |

The specification stops only where the system does: `Deliver` and `Lookup` are always
enabled, so deadlock is checked in every run. There are no liveness properties. The
callback layer is one synchronous call with no pending state and no retry (spec §5,
§7), so "the call returns or raises" is not something a behaviour of this model could
fail to do.

Each property of a passing run has a mutant in `PROJECT.json` that TLC catches:

- raising whenever configured;
- ignoring the DateTime unit;
- passing a list through `SetCallback`;
- `OptionalFloatCallback` without its override, inheriting
  `OptionalPrimitiveCallback.transform`, which returns the reply as it is;
- giving the token SOFT the value HARD.

## Findings

1. **`DictCallback`, line 124.** `dict(response)` on a RESP2 map raises `ValueError` for
   an element that is not two long: `dict([b"10", b"1"])` pairs `b"10"` and then fails
   on the one-octet value `b"1"`. Worse, with two-octet keys and values it silently returns a dict of
   octet codes: `[b"f1", b"v1"]` becomes `{102: 49, 118: 49}`. Spec §8 expects the same
   mapping under both versions. Spec §9 leaves the pairing to the command layer, so this
   holds only where that layer passes a `transform_function`.
2. **The Optional classes, lines 151, 158, 165 and 170.** Each computes
   `response and <coercion>(response)`, so a falsy reply that is not nil is itself the
   result. `OptionalFloatCallback` returns `b""` for the empty bulk string. That is
   neither None nor `float(b"")`'s ValueError. `OptionalTupleCallback` and
   `OptionalSetCallback` return an empty array as `[]`; under RESP3 the empty set gives
   `set()`. Spec §4.1 says a nil or falsy reply yields the absent value and a present one
   the counterpart's coercion. Spec §7 says a coercion failure is never silently defaulted.
3. **`SimpleStringCallback`, line 63.** A falsy reply is returned as itself (`None`,
   `b""`) rather than as a boolean.
4. **`TupleCallback`, line 97, and the other classes that iterate aggregates.**
   - Elements keep their protocol-specific shape: a double inside an array arrives as a
     float under RESP3 and as bytes under RESP2, so `tuple(response)` differs between
     the versions.
   - This came up while trying to prove `VersionTransparency` for all constants.
   - Spec §3 makes version-awareness the callbacks' job. Spec §4.1 promises no
     per-element conversion for Tuple and List. So the gap lies between the two, and
     the command layer must keep such replies away from these classes.
5. **`BoolCallback`, line 84.** `bool(response)` of the double 0 is `bool(0.0)`, False,
   under RESP3, and `bool(b"0")`, True, under RESP2. Spec §4.1 lets Boolean take any
   reply, and spec §8 says 0 reads false.
6. **`DateTimeCallback`, line 112.** A double timestamp reaches
   `datetime.fromtimestamp` as a float under RESP3 and as decimal bytes under RESP2,
   where it raises TypeError. Spec §4.1 lets DateTime take an integer or float
   timestamp.

## Proofs

`ResponsePipeline_proofs` proves `THEOREM TypeCorrect == Spec => []TypeOK` for every
value of the constants. It relies on the assumptions `InstancesAssumption`,
`ReplySetAssumption`, `ParamSetAssumption` and `ErrorClassesAssumption`. `TypeOK` is
inductive as it stands. No run checks `TypeOK`: no plausible slip in a transform makes
an outcome anything but a Python value or a builtin or configured exception, so the
theorem is kept as the base the other proofs stand on. The argument runs bottom-up:

1. Lemmas show that each builtin returns a tagged value or raises a builtin error
   (`ToFloatOK`, `ToDictOK`, ...).
2. Lemmas show the same for each class's transform (`SimpleStringOK`, `PrimitivesOK`,
   `OptionalsOK`, ...). `SimpleStringOK` uses the fact that a configured `raise_on_error`
   is one of the `ErrorClasses`.
3. `InvokeOK` combines these over the version dispatch.
4. `EncodeOK` shows that the decoder always hands over a Python value.

The induction step then has one case per action.

`THEOREM StatusRaiseCorrect == Spec => []StatusRaisePolicy` is proved from the same
assumptions. `StatusRaisePolicy` is not inductive by itself, because it speaks about the
outcome and not about where that outcome came from. The proof therefore uses the
strengthening `IInv`, checked with TLC before it was proved:

- `TypeOK` holds;
- a reply in flight is `Encode(logical, proto)`;
- its kind is one the bound class `Accepts`;
- once invoked, `outcome = Invoke(cb, raw, proto, params)`.

The rest of the argument:

1. `IInvInductive` shows `IInv` is inductive.
2. `EncodeStatus` shows a status reply decodes to its bytes and nil to `None`, under
   both versions.
3. `StatusOutcome` follows `SimpleStringTransform` through four cases: nil, OK, another
   non-empty status and the empty status.

`ReplySetAssumption` says that `ReplySet` is a subset of `LogicalReplies`. That set is the
Reply Value union of spec §3 (`Replies.ScalarReplies`, and arrays, sets and maps of
scalars). In it, a bulk or status payload is a sequence of octets, an integer carries
an integer, a boolean a Boolean and a double a natural number. `ReplyShape` derives
from it the facts the theorems cite.

`THEOREM DateTimeUnitCorrect == Spec => []DateTimeUnitAgreement` rests on the same
`IInv`. It also needs `ReplyShape` to say that an integer reply carries an integer,
which the decoder guarantees. The argument:

1. The property is about integer timestamps, and an integer reply decodes to `int(n)`
   under both versions (`EncodeInt`).
2. The outcome is `fromtimestamp` of `n` or of `n / 1000` (`DateTimeOutcome`).
3. `MillisToSeconds` is the arithmetic: `n·10⁶ ÷ 1000 = (n ÷ 1000)·10⁶` when 1000
   divides n.
4. `OutcomeEqRefl` closes the proof.

`THEOREM BooleanReplyTransparent` is a statement about operators, not about behaviours.
For the Bool, SimpleStringOrInt and OptionalInt classes and every boolean reply, the
RESP3 `bool` and the RESP2 integer 1 or 0 give ==-equal results. It is proved class by
class from `EncodeBoolean`. This is the `isinstance(True, int)` hazard at line 89.

`THEOREM VersionTransparent` proves `Spec => []VersionTransparency` for every value of
the constants under two hypotheses:

- no instance is a `DictCallback` or an `OptionalSetCallback` (`TransparentFamilies`);
- no reply is a double or holds one (`DoubleFree`).

Neither hypothesis is there for convenience. The property fails on `DictCallback`
(run dict_versions, finding 1). It fails on `OptionalSetCallback` for the empty set,
which comes back as `set()` under RESP3 and as `[]` under RESP2 (finding 2). It fails
on a double inside an array (run nested_double, finding 4). It fails on a top-level
double in `BoolCallback` and `DateTimeCallback` (runs bool_double and datetime_double,
findings 5 and 6). The one exclusion made only for the provers is a top-level double
through `FloatCallback` and `OptionalFloatCallback`; run float_doubles checks it. The
transparent run checks the theorem's instance. The argument:

1. `IInv` gives `outcome = Invoke(cb, Encode(logical, proto), proto, params)`.
2. `Invoke` is the same transform under both versions, because no class overrides
   `transform_3`.
3. `TransformTransparent` compares the two transforms, one case per reply kind:
   - nil, integer, bulk and status decode identically under both versions;
   - a boolean reaches only `Bool` or `SimpleStringOrInt` (`ScalarTransparent`, via
     `CanonScalar`, Python's numeric `==`);
   - an array, a set or a map reaching `Bool` decodes to a list, a set or a dict that
     is non-empty exactly when the reply has elements (`AggregateTruthy`,
     `BoolAggregateTransparent`);
   - otherwise an array reaches `Tuple`, `List`, `Bools` or `OptionalTuple`, which
     compare element-wise (`SeqTransparent`, `ArrayTransparent`);
   - otherwise a set reaches `Set`. Under RESP3, `set()` of the set is the set itself.
     Under RESP2, it is the set of the array's elements. The two agree as canonical
     member sets (`SetResult`);
   - otherwise a map reaches only `Dict`, which is excluded.

What stays with TLC:

- **`VersionTransparency` for a top-level double reply.** A RESP2 double reaches
  `FloatCallback` as its decimal text. Proving that `float()` of that text gives the
  number back means showing `DecimalValue[DecimalText[f]] = f` for every `f`. That is
  induction over data and out of the provers' reach. Run float_doubles checks it for
  the doubles 0, 7, 12, 105 and 1000.
- `LookupDenotesMember` has no constants. The token tables are fixed, so TLC's run
  enumerates every member, form and case and is already complete.

## Not modelled

- **The decoder, connection handling and the integration tests in
  `tests/test_client.py`.** These are I/O against live servers. The spec places them out
  of scope.
- **`DictCallback`'s `transform_function` branch.** It runs arbitrary user code.
- **Object identity.** Lines 103, 124, 133 and 163 return the reply object itself, so the
  caller aliases the decoder's value. The model has values, not references.
- **An abstract caller contract.** The callback layer promises a caller only what
  each class's transform computes. A contract stated as "the answer is `Invoke` of
  the reply" would be implemented by any transform whatsoever. So the per-class
  promises of spec §4.1 are stated as invariants instead: `StatusRaisePolicy`,
  `DateTimeUnitAgreement`, `VersionTransparency`, `OptionalAbsentOrCoerced` and
  `StatusResultIsBool`.
- **Token spellings.** `TokenLookup` keeps a spelling's form (str, bytes, member) and
  case, but `Normalize` discards both, as spec §4.2's case-folding and encoding do. So
  `LookupDenotesMember` comes down to each token table having no repeated value. The
  comparison code itself is in `coredis._utils`, which is not among the sources.
- **Cross-set comparisons.** 11 values are shared between `PureToken` and `PrefixToken`.
  Spec §4.2 says the two sets are not interchangeable, but the enum equality that would
  decide this is in `coredis._utils`, which is not among the sources.

## Plan for later work

- Prove the decimal round trip `DecimalValue[DecimalText[f]] = f` by a least-counterexample
  argument, and drop the top-level part of `DoubleFree` from `VersionTransparent`.
- Model `transform_function` as a nondeterministic user function.
- Several requests in flight on one connection, pipelined, with replies matched in order.
