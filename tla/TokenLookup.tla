----------------------------- MODULE TokenLookup -----------------------------
(***************************************************************************)
(* Case- and encoding-insensitive comparison of caller arguments with the  *)
(* members of the token sets (spec 4.2; the comparison machinery,         *)
(* CaseAndEncodingInsensitiveEnum, lives in coredis._utils, outside this  *)
(* repository's sources).                                                 *)
(*                                                                         *)
(* A caller spells a keyword as a str, as bytes or as an enum member, in  *)
(* upper, lower or mixed case.  The letters of a spelling are abstracted  *)
(* to its upper-cased text "word" and the case it was written in; every   *)
(* value of tokens.py is already upper case, so the upper-cased text of a *)
(* member's value is the value itself.                                    *)
(***************************************************************************)
EXTENDS Tokens

Forms == {"str", "bytes", "member"}
Cases == {"upper", "lower", "mixed"}

\* The caller's spelling of the keyword whose upper-cased text is w.
Spelling(w, form, case) == [word |-> w, form |-> form, case |-> case]

\* Case-fold and decode to a common representation.
Normalize(x) == x.word

\* member == x for a member whose value is v.
TokenEq(v, x) == Normalize(Spelling(v, "bytes", "upper")) = Normalize(x)

\* The members of a token set that compare equal to the argument.
Resolve(set, x) == {m \in DOMAIN Table(set) : TokenEq(Table(set)[m], x)}

NoArg == [word |-> "", form |-> "none", case |-> "none"]

VARIABLES
  asked,   \* the token set and member whose value the caller spelled
  arg,     \* the caller's spelling
  found    \* the members the comparison matches

vars == <<asked, arg, found>>

Init ==
  /\ asked = [set |-> "none", member |-> "none"]
  /\ arg = NoArg
  /\ found = {}

\* A caller passes some spelling of a member's value and the registry
\* looks it up among the members of the same token set.
Lookup ==
  \E set \in TokenSets :
    \E m \in DOMAIN Table(set), form \in Forms, case \in Cases :
      /\ asked' = [set |-> set, member |-> m]
      /\ arg' = Spelling(Table(set)[m], form, case)
      /\ found' = Resolve(set, arg')

Next == Lookup

Spec == Init /\ [][Next]_vars

-----------------------------------------------------------------------------

(***************************************************************************)
(* Spec 4.2: no two members of one token set normalise to the same wire   *)
(* bytes.  So any spelling of a member's value, in any case and any       *)
(* encoding, denotes exactly that member.  In tokens.py a value repeated  *)
(* within one enum would make the later member a silent alias of the     *)
(* earlier one (Python Enum semantics), and the lookup would be ambiguous.*)
(***************************************************************************)
LookupDenotesMember ==
  asked.set # "none" => found = {asked.member}

=============================================================================
