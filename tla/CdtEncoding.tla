----------------------------- MODULE CdtEncoding -----------------------------
(***************************************************************************)
(* The encoding of one CDT bin, abstracted to one token per MessagePack    *)
(* value, and the cursor operations of msgpack_in that the validator of    *)
(* src/src/backup.c drives.                                                *)
(*                                                                         *)
(* A bin is a record: its kind (list or map), its outer header (a list or  *)
(* map header that parses, "ok"; one cut short, "short"; or a first byte   *)
(* of another type, "other"), the element count that header declares (for a map: pairs; the   *)
(* ordered-extension element is counted), and the body: one token per      *)
(* value.  Offsets of a cursor are counted in tokens, so the bin's size    *)
(* `sz' is the length of the body; tokens after the last declared element  *)
(* are padding.                                                            *)
(*                                                                         *)
(* msgpack_in (aerospike-common) is not part of this repository: the       *)
(* cursor operators below are modelled from the contract spec.md 4.1 gives *)
(* them, and the assumptions are listed in README.md.                      *)
(***************************************************************************)
EXTENDS Integers, Sequences, FiniteSets

CONSTANTS
  Vals,     \* the scalar values (integers, strings)
  ValRank   \* their place in the store's order of scalars

ASSUME Vals # {} /\ ValRank \in [Vals -> Nat]

(* Storable values besides scalars: a nested list whose keys are valid,    *)
(* and a nested container holding an invalid map key.                      *)
Lst     == "Lst"
BadNest == "BadNest"
(* Non-storage sentinels: wildcard (compares EQUAL to anything) and        *)
(* infinity (compares greater than anything).                             *)
Wild    == "Wild"
Inf     == "Inf"
(* A value the buffer ends in the middle of.                               *)
Bad     == "Bad"
(* The ordered-collection extension header, and one cut short.             *)
Ext     == "Ext"
ExtBad  == "ExtBad"

Storable   == Vals \cup {Lst, BadNest}
NonStorage == {Wild, Inf}
Elem       == Storable \cup NonStorage \cup {Bad}
Token      == Elem \cup {Ext, ExtBad}

Kinds == {"list", "map"}
Headers == {"ok", "short", "other"}

(* Rank of a storable value in the store's canonical order: scalars        *)
(* first, by value, then containers.                                       *)
MaxVal == CHOOSE r \in {ValRank[v] : v \in Vals} : \A w \in Vals : ValRank[w] <= r
Rank(t) == CASE t \in Vals -> ValRank[t]
             [] t = Lst     -> MaxVal + 1
             [] t = BadNest -> MaxVal + 2

-----------------------------------------------------------------------------
(* A cursor: its offset in tokens and the sticky has_nonstorage flag.      *)
Cursor(off) == [off |-> off, ns |-> FALSE]

TokenAt(body, c) == body[c.off + 1]
AtEnd(body, c) == c.off >= Len(body)

(* msgpack_sz: skip one value.  Fails at the end of the buffer and on a    *)
(* value cut short; crossing a non-storage value sets the flag.            *)
Sz1(body, c) ==
  IF AtEnd(body, c) \/ TokenAt(body, c) \in {Bad, ExtBad}
  THEN [ok |-> FALSE, c |-> c]
  ELSE [ok |-> TRUE,
        c  |-> [off |-> c.off + 1, ns |-> c.ns \/ TokenAt(body, c) \in NonStorage]]

RECURSIVE Skip(_, _, _)
Skip(body, c, n) ==
  IF n = 0 THEN [ok |-> TRUE, c |-> c]
  ELSE LET s == Sz1(body, c) IN IF s.ok THEN Skip(body, s.c, n - 1) ELSE s

(* msgpack_sz_rep: the number of bytes skipped over n values, 0 on         *)
(* failure -- and 0 when n = 0, which callers cannot tell from a failure.  *)
SzRep(body, c, n) ==
  LET s == Skip(body, c, n)
  IN  [sz |-> IF s.ok THEN s.c.off - c.off ELSE 0, c |-> s.c]

(* Comparison of two tokens in the canonical order.                        *)
CmpTok(a, b) ==
  CASE a = Wild \/ b = Wild -> "EQUAL"
    [] a = Inf /\ b = Inf   -> "EQUAL"
    [] a = Inf              -> "GREATER"
    [] b = Inf              -> "LESS"
    [] Rank(a) < Rank(b)    -> "LESS"
    [] Rank(a) = Rank(b)    -> "EQUAL"
    [] OTHER                -> "GREATER"

(* msgpack_cmp: compares the next value at each cursor and moves both past *)
(* it.  A cursor at the end sorts first (both at the end: END); a value    *)
(* cut short yields ERROR; in both cases neither cursor moves.             *)
Cmp(body, a, b) ==
  CASE AtEnd(body, a) /\ AtEnd(body, b) -> [res |-> "END", a |-> a, b |-> b]
    [] AtEnd(body, a) -> [res |-> "LESS", a |-> a, b |-> b]
    [] AtEnd(body, b) -> [res |-> "GREATER", a |-> a, b |-> b]
    [] TokenAt(body, a) = Bad \/ TokenAt(body, b) = Bad ->
         [res |-> "ERROR", a |-> a, b |-> b]
    [] OTHER -> [res |-> CmpTok(TokenAt(body, a), TokenAt(body, b)),
                 a |-> Sz1(body, a).c, b |-> Sz1(body, b).c]

-----------------------------------------------------------------------------
(* map_is_key (backup.c): integers and strings are keys; a value of zero   *)
(* bytes (nothing parsed) is not.                                          *)
map_is_key(body, start, len) == len = 1 /\ body[start + 1] \in Vals

(* check_map_keys_internal applied to the single value [start, start+len): *)
(* succeeds unless the value is, or holds, an invalid map key.             *)
check_map_keys_internal(body, start, len) ==
  len = 1 /\ body[start + 1] \notin {BadNest, Bad}
=============================================================================
