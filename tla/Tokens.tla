-------------------------------- MODULE Tokens ------------------------------
(***************************************************************************)
(* The token registry of coredis.tokens: the two enumerations PureToken   *)
(* (value tokens) and PrefixToken (tokens introducing a following value), *)
(* each a function from member name to canonical value.  The values are  *)
(* the byte strings of the source, written as TLA+ strings: they are      *)
(* only compared, never taken apart.  The tables follow the source's      *)
(* order and are split into parts of about 150 source lines each.         *)
(***************************************************************************)
EXTENDS TLC

\* PureToken members of tokens.py lines 6-156.
PureTokens1 ==
  ("RESET" :> "RESET" @@ "SCHEDULE" :> "SCHEDULE" @@ "BIT" :> "BIT" @@ "BYTE" :> "BYTE" @@
   "FAIL" :> "FAIL" @@ "SAT" :> "SAT" @@ "WRAP" :> "WRAP" @@ "AND" :> "AND" @@
   "NOT" :> "NOT" @@ "OR" :> "OR" @@ "XOR" :> "XOR" @@ "LEFT" :> "LEFT" @@
   "RIGHT" :> "RIGHT" @@ "MAX" :> "MAX" @@ "MIN" :> "MIN" @@ "NO" :> "NO" @@
   "YES" :> "YES" @@ "MASTER" :> "MASTER" @@ "NORMAL" :> "NORMAL" @@
   "PUBSUB" :> "PUBSUB" @@ "REPLICA" :> "REPLICA")

\* PureToken members of tokens.py lines 157-302.
PureTokens2 ==
  ("SLAVE" :> "SLAVE" @@ "OFF" :> "OFF" @@ "ON" :> "ON" @@ "ALL" :> "ALL" @@
   "WRITE" :> "WRITE" @@ "SKIP" :> "SKIP" @@ "BCAST" :> "BCAST" @@ "NOLOOP" :> "NOLOOP" @@
   "OPTIN" :> "OPTIN" @@ "OPTOUT" :> "OPTOUT" @@ "ERROR" :> "ERROR" @@
   "TIMEOUT" :> "TIMEOUT" @@ "FORCE" :> "FORCE" @@ "TAKEOVER" :> "TAKEOVER" @@
   "HARD" :> "HARD" @@ "SOFT" :> "SOFT" @@ "STABLE" :> "STABLE" @@
   "REPLACE" :> "REPLACE" @@ "GT" :> "GT" @@ "LT" :> "LT" @@ "NX" :> "NX" @@ "XX" :> "XX")

\* PureToken members of tokens.py lines 303-451.
PureTokens3 ==
  ("ABORT" :> "ABORT" @@ "ASYNC" :> "ASYNC" @@ "SYNC" :> "SYNC" @@
   "WITHCODE" :> "WITHCODE" @@ "APPEND" :> "APPEND" @@ "FLUSH" :> "FLUSH" @@
   "CHANGE" :> "CH" @@ "FT" :> "FT" @@ "KM" :> "KM" @@ "M" :> "M" @@ "MI" :> "MI" @@
   "ANY" :> "ANY" @@ "ASC" :> "ASC" @@ "DESC" :> "DESC" @@ "WITHCOORD" :> "WITHCOORD" @@
   "WITHDIST" :> "WITHDIST" @@ "WITHHASH" :> "WITHHASH")

\* PureToken members of tokens.py lines 452-589.
PureTokens4 ==
  ("STOREDIST" :> "STOREDIST" @@ "PERSIST" :> "PERSIST" @@
   "WITHVALUES" :> "WITHVALUES" @@ "IDX" :> "IDX" @@ "LEN" :> "LEN" @@
   "WITHMATCHLEN" :> "WITHMATCHLEN" @@ "AFTER" :> "AFTER" @@ "BEFORE" :> "BEFORE" @@
   "COPY" :> "COPY" @@ "EMPTY_STRING" :> "" @@ "ABSTTL" :> "ABSTTL" @@ "GET" :> "GET" @@
   "KEEPTTL" :> "KEEPTTL" @@ "NOSAVE" :> "NOSAVE" @@ "NOW" :> "NOW" @@ "SAVE" :> "SAVE" @@
   "SORTING" :> "ALPHA" @@ "APPROXIMATELY" :> "~" @@ "AUTO_ID" :> "*" @@ "EQUAL" :> "=" @@
   "MAXLEN" :> "MAXLEN" @@ "MINID" :> "MINID" @@ "NOMKSTREAM" :> "NOMKSTREAM" @@
   "JUSTID" :> "JUSTID" @@ "MKSTREAM" :> "MKSTREAM" @@ "NEW_ID" :> "$")

\* PureToken members of tokens.py lines 590-742.
PureTokens5 ==
  ("FULL" :> "FULL" @@ "NOACK" :> "NOACK" @@ "INCREMENT" :> "INCR" @@
   "WITHSCORES" :> "WITHSCORES" @@ "SUM" :> "SUM" @@ "BYLEX" :> "BYLEX" @@
   "BYSCORE" :> "BYSCORE" @@ "REV" :> "REV" @@ "WITHSCORE" :> "WITHSCORE" @@
   "NONSCALING" :> "NONSCALING" @@ "ITEMS" :> "ITEMS" @@ "NOCREATE" :> "NOCREATE" @@
   "CAPACITY" :> "CAPACITY" @@ "EXPANSION" :> "EXPANSION" @@ "FILTERS" :> "FILTERS" @@
   "SIZE" :> "SIZE" @@ "WEIGHTS" :> "WEIGHTS" @@ "WITHCOUNT" :> "WITHCOUNT" @@
   "COMPRESSION" :> "COMPRESSION" @@ "OVERRIDE" :> "OVERRIDE" @@ "BLOCK" :> "BLOCK" @@
   "COMPRESSED" :> "COMPRESSED" @@ "FIRST" :> "FIRST")

\* PureToken members of tokens.py lines 743-878.
PureTokens6 ==
  ("LAST" :> "LAST" @@ "UNCOMPRESSED" :> "UNCOMPRESSED" @@ "AVG" :> "AVG" @@
   "COUNT" :> "COUNT" @@ "RANGE" :> "RANGE" @@ "STD_P" :> "STD.P" @@ "STD_S" :> "STD.S" @@
   "TWA" :> "TWA" @@ "VAR_P" :> "VAR.P" @@ "VAR_S" :> "VAR.S" @@
   "BUCKETTIMESTAMP" :> "BUCKETTIMESTAMP" @@ "EMPTY" :> "EMPTY" @@
   "FILTER_BY_VALUE" :> "FILTER_BY_VALUE" @@ "GROUPBY" :> "GROUPBY" @@
   "SELECTED_LABELS" :> "SELECTED_LABELS" @@ "WITHLABELS" :> "WITHLABELS")

\* PrefixToken members of tokens.py lines 881-1014.
PrefixTokens1 ==
  ("GET" :> "GET" @@ "INCRBY" :> "INCRBY" @@ "OVERFLOW" :> "OVERFLOW" @@ "SET" :> "SET" @@
   "COUNT" :> "COUNT" @@ "ADDR" :> "ADDR" @@ "IDENTIFIER" :> "ID" @@ "LADDR" :> "LADDR" @@
   "SKIPME" :> "SKIPME" @@ "TYPE" :> "TYPE" @@ "USER" :> "USER" @@
   "LIB_NAME" :> "LIB-NAME" @@ "LIB_VER" :> "LIB-VER" @@ "PREFIX" :> "PREFIX" @@
   "REDIRECT" :> "REDIRECT" @@ "IMPORTING" :> "IMPORTING" @@
   "MIGRATING" :> "MIGRATING" @@ "NODE" :> "NODE" @@ "ACLCAT" :> "ACLCAT" @@
   "FILTERBY" :> "FILTERBY")

\* PrefixToken members of tokens.py lines 1015-1144.
PrefixTokens2 ==
  ("MODULE" :> "MODULE" @@ "PATTERN" :> "PATTERN" @@ "DB" :> "DB" @@
   "TIMEOUT" :> "TIMEOUT" @@ "TO" :> "TO" @@ "LIBRARYNAME" :> "LIBRARYNAME" @@
   "STORE" :> "STORE" @@ "STOREDIST" :> "STOREDIST" @@ "BYBOX" :> "BYBOX" @@
   "BYRADIUS" :> "BYRADIUS" @@ "FROMLONLAT" :> "FROMLONLAT" @@
   "FROMMEMBER" :> "FROMMEMBER" @@ "EX" :> "EX" @@ "EXAT" :> "EXAT" @@ "PX" :> "PX" @@
   "PXAT" :> "PXAT" @@ "AUTH" :> "AUTH" @@ "SETNAME" :> "SETNAME" @@ "MATCH" :> "MATCH" @@
   "MINMATCHLEN" :> "MINMATCHLEN" @@ "VERSION" :> "VERSION" @@ "MAXLEN" :> "MAXLEN" @@
   "RANK" :> "RANK")

\* PrefixToken members of tokens.py lines 1145-1278.
PrefixTokens3 ==
  ("SAMPLES" :> "SAMPLES" @@ "AUTH2" :> "AUTH2" @@ "KEYS" :> "KEYS" @@ "ARGS" :> "ARGS" @@
   "CONFIG" :> "CONFIG" @@ "FREQ" :> "FREQ" @@ "IDLETIME" :> "IDLETIME" @@
   "LIMIT" :> "LIMIT" @@ "BY" :> "BY" @@ "IDLE" :> "IDLE" @@ "LASTID" :> "LASTID" @@
   "RETRYCOUNT" :> "RETRYCOUNT" @@ "TIME" :> "TIME" @@
   "ENTRIESREAD" :> "ENTRIESREAD" @@ "BLOCK" :> "BLOCK" @@ "STREAMS" :> "STREAMS" @@
   "GROUP" :> "GROUP" @@ "ENTRIESADDED" :> "ENTRIESADDED" @@
   "MAXDELETEDID" :> "MAXDELETEDID" @@ "AGGREGATE" :> "AGGREGATE" @@
   "WEIGHTS" :> "WEIGHTS" @@ "INDENT" :> "INDENT")

\* PrefixToken members of tokens.py lines 1279-1404.
PrefixTokens4 ==
  ("NEWLINE" :> "NEWLINE" @@ "SPACE" :> "SPACE" @@ "EXPANSION" :> "EXPANSION" @@
   "CAPACITY" :> "CAPACITY" @@ "ERROR" :> "ERROR" @@ "BUCKETSIZE" :> "BUCKETSIZE" @@
   "MAXITERATIONS" :> "MAXITERATIONS" @@ "COMPRESSION" :> "COMPRESSION" @@
   "CHUNK_SIZE" :> "CHUNK_SIZE" @@ "DUPLICATE_POLICY" :> "DUPLICATE_POLICY" @@
   "ENCODING" :> "ENCODING" @@ "LABELS" :> "LABELS" @@ "RETENTION" :> "RETENTION" @@
   "ON_DUPLICATE" :> "ON_DUPLICATE" @@ "TIMESTAMP" :> "TIMESTAMP" @@
   "AGGREGATION" :> "AGGREGATION" @@ "ALIGN" :> "ALIGN" @@
   "FILTER_BY_TS" :> "FILTER_BY_TS" @@ "FILTER" :> "FILTER")

\* Mutant: SOFT given the value of its neighbour HARD (a copy-paste slip).
PureTokenSoftAsHard ==
  [PureTokens1 @@ PureTokens2 @@ PureTokens3 @@ PureTokens4 @@ PureTokens5 @@ PureTokens6
     EXCEPT !["SOFT"] = "HARD"]

PureToken == PureTokens1 @@ PureTokens2 @@ PureTokens3 @@ PureTokens4 @@ PureTokens5 @@ PureTokens6

PrefixToken == PrefixTokens1 @@ PrefixTokens2 @@ PrefixTokens3 @@ PrefixTokens4

\* The two token sets by the name of their class.
TokenSets == {"PureToken", "PrefixToken"}

Table(set) == IF set = "PureToken" THEN PureToken ELSE PrefixToken

=============================================================================
