------------------------------ MODULE CdtRecord ------------------------------
(***************************************************************************)
(* One record through cdt_check (src/src/backup.c): the loop over its bins *)
(* classifies each list or map bin with cdt_need_fix and, with cdt_fix on, *)
(* hands a list that needs a fix to cdt_fix_list.  The fix works on the    *)
(* as_record the scan returned: a padding fix truncates the bin in it and  *)
(* puts the whole record; an order fix sends clear plus append-items with  *)
(* aerospike_key_operate(..., &rec), which may write its result into rec.  *)
(* The record's bins are then classified again, as the next run would.     *)
(***************************************************************************)
EXTENDS CdtClassify
LOCAL INSTANCE SequencesExt

CONSTANTS
  Inputs,   \* the bins a scan can return, see MCCdtRecord
  NBins,    \* the bins of the record
  CdtFix    \* backup_config.cdt_fix

Bins == 1 .. NBins

VARIABLES
  input,   \* the record as the scan returned it, bin by bin
  rec,     \* the as_record cdt_check and cdt_fix_list work on
  store,   \* the record's bins as the store holds them
  ck,      \* backup_config.check_map_keys
  i,       \* the bin the loop of cdt_check is at
  phase,   \* "check", "fix" or "done"
  res,     \* what cdt_need_fix returned, per bin
  res2,    \* what cdt_need_fix returns on each fixed bin in the next run
  fixc,    \* the counter cdt_fix_list increments, per bin
  log      \* need_log of cdt_check

vars == <<input, rec, store, ck, i, phase, res, res2, fixc, log>>

None == [need |-> FALSE, cf |-> NoCf, incr |-> {}]

(* The tokens cf describes: cf.content_sz tokens from cf.contents.         *)
Contents(b, cf) == SubSeq(b.body, cf.contents + 1, cf.contents + cf.content_sz)

(* The store applying the operation cdt_fix_list packs for an order fix:   *)
(* list clear, then append-items of ele_count values with ADD_UNIQUE,      *)
(* NO_FAIL and PARTIAL into the (ordered) list: it keeps one of each value *)
(* and sorts.  The store rejects the operation unless the packed value     *)
(* list holds exactly ele_count storable values.                           *)
StoreAccepts(c, cf) == Len(c) = cf.ele_count /\ \A k \in 1..Len(c) : c[k] \in Storable
OrderedListOf(c) ==
  LET sorted == SetToSortSeq({c[k] : k \in 1..Len(c)}, LAMBDA x, y : Rank(x) < Rank(y))
  IN  [kind |-> "list", hdr |-> "ok", count |-> Len(sorted) + 1,
       body |-> <<Ext>> \o sorted]

(* Mutant: truncating one byte too few. *)
TruncatedOffByOne(b, n) == [b EXCEPT !.body = SubSeq(@, 1, Len(@) - n + 1)]

(* as_bytes_truncate(b, nf_padding): drop nf_padding bytes off the end.    *)
Truncated(b, n) == [b EXCEPT !.body = SubSeq(@, 1, Len(@) - n)]

(* The value append-items answers with (the list's new size), as the      *)
(* client would write it into the bin of rec: no longer a bytes value.     *)
OpResult == [kind |-> "int", hdr |-> "ok", count |-> 0, body |-> <<>>]

(* aerospike_key_operate(as, &error, NULL, &rec->key, &ops, &rec) with rec *)
(* already set: the client, which is not part of this repository, either   *)
(* leaves rec alone or reuses it for the result, setting the operated bin  *)
(* to the operation's answer.                                              *)
OperatedRec(r, b) == {r, [r EXCEPT ![b] = OpResult]}

-----------------------------------------------------------------------------
Init ==
  /\ input \in [Bins -> Inputs]
  /\ rec = input
  /\ store = input
  /\ ck \in BOOLEAN
  /\ i = 1
  /\ phase = "check"
  /\ res = [b \in Bins |-> None]
  /\ res2 = [b \in Bins |-> None]
  /\ fixc = [b \in Bins |-> "none"]
  /\ log = FALSE

(* The loop moves on to the next bin, or leaves after the last one. *)
NextBin ==
  /\ i' = i + 1
  /\ phase' = IF i = NBins THEN "done" ELSE "check"

(* One iteration of cdt_check: a bin that is not a list or map is skipped; *)
(* any other is classified, and need_log is raised if the bin asks to be   *)
(* logged or needs a fix; a list that needs a fix goes to cdt_fix_list     *)
(* when cdt_fix is on.                                                     *)
Check ==
  /\ phase = "check"
  /\ UNCHANGED <<input, rec, store, ck, fixc, res2>>
  /\ IF rec[i].kind \notin Kinds
     THEN NextBin /\ UNCHANGED <<res, log>>
     ELSE /\ res' = [res EXCEPT ![i] = cdt_need_fix(rec[i], ck)]
          /\ log' = (log \/ res'[i].cf.need_log \/ res'[i].need)
          /\ IF res'[i].need /\ CdtFix /\ rec[i].kind = "list"
             THEN phase' = "fix" /\ UNCHANGED i
             ELSE NextBin

(* cdt_fix_list, padding only: truncate the bin in rec, then put the whole *)
(* record; the put may fail, and the truncation stays in rec either way.   *)
FixPadding ==
  /\ ~res[i].cf.nf_list_order /\ res[i].cf.nf_padding # 0
  /\ rec' = [rec EXCEPT ![i] = Truncated(@, res[i].cf.nf_padding)]
  /\ \E ok \in BOOLEAN :
       /\ store' = IF ok THEN rec' ELSE store
       /\ fixc' = [fixc EXCEPT ![i] = IF ok THEN "fixed" ELSE "nf_failed"]

(* cdt_fix_list, order (and maybe padding): clear the bin and re-append    *)
(* its elements with aerospike_key_operate; packing the operation or the   *)
(* operate may fail, and then rec is left alone.                           *)
FixOrder ==
  /\ ~(~res[i].cf.nf_list_order /\ res[i].cf.nf_padding # 0)
  /\ LET c == Contents(rec[i], res[i].cf) IN
     \E ok \in BOOLEAN :
       IF ok /\ StoreAccepts(c, res[i].cf)
       THEN /\ store' = [store EXCEPT ![i] = OrderedListOf(c)]
            /\ rec' \in OperatedRec(rec, i)
            /\ fixc' = [fixc EXCEPT ![i] = "fixed"]
       ELSE /\ fixc' = [fixc EXCEPT ![i] = "nf_failed"]
            /\ UNCHANGED <<rec, store>>

(* The next validation run classifies the stored bins counted fixed. *)
Recheck(st, fc) ==
  [b \in Bins |-> IF fc[b] = "fixed" /\ st[b].kind \in Kinds
                  THEN cdt_need_fix(st[b], ck) ELSE None]

(* The call of cdt_fix_list from the loop of cdt_check, then the loop      *)
(* moves on.  Only a fix writes the store, so the next run's verdicts on   *)
(* the fixed bins are taken here.                                          *)
Fix ==
  /\ phase = "fix"
  /\ FixPadding \/ FixOrder
  /\ res2' = Recheck(store', fixc')
  /\ NextBin
  /\ UNCHANGED <<input, ck, res, log>>

Next == Check \/ Fix

Spec == Init /\ [][Next]_vars

-----------------------------------------------------------------------------
(* The bin as spec.md 4.4 describes it: the tokens its header declares,    *)
(* the elements among them (after the extension and, for a map, its       *)
(* value), and the keys of a map.                                          *)
Declared(b)  == IF b.kind = "list" THEN b.count ELSE 2 * b.count
Ordered(b)   == Len(b.body) >= 1 /\ b.body[1] \in {Ext, ExtBad}
FirstElem(b) == IF ~Ordered(b) THEN 1 ELSE IF b.kind = "list" THEN 2 ELSE 3
Elements(b)  == SubSeq(b.body, FirstElem(b), Declared(b))
Keys(b)      == [p \in 1 .. Len(Elements(b)) \div 2 |-> Elements(b)[2 * p - 1]]
PaddingOf(b) == Len(b.body) - Declared(b)

Descends(s)     == \E k \in 1 .. Len(s) - 1 : CmpTok(s[k], s[k + 1]) = "GREATER"
HasEqualPair(s) == \E k, j \in 1 .. Len(s) : k < j /\ CmpTok(s[k], s[j]) = "EQUAL"

(* Every declared value is present and storable. *)
WellFormed(b) ==
  /\ b.hdr = "ok"
  /\ Len(b.body) >= Declared(b)
  /\ Ordered(b) => b.body[1] = Ext
  /\ \A k \in FirstElem(b) - 1 .. Declared(b) :
       k >= 1 /\ b.body[k] \notin {Ext, ExtBad} => b.body[k] \in Storable

(* The header or the body stops before the declared values do. *)
CutShort(b) ==
  \/ b.hdr = "short"
  \/ b.hdr = "ok" /\ Len(b.body) < Declared(b)
  \/ b.hdr = "ok" /\ \E k \in 1 .. Len(b.body) :
                      k <= Declared(b) /\ b.body[k] \in {Bad, ExtBad}

(* The loop of cdt_check has classified bin b. *)
Checked(b) == b < i \/ (b = i /\ phase = "fix")

-----------------------------------------------------------------------------
(* Properties *)

TypeOK ==
  /\ \A b \in Bins, r \in {input, rec, store} :
       r[b].kind \in Kinds \cup {"int"} /\ r[b].hdr \in Headers
       /\ r[b].count \in Nat /\ r[b].body \in Seq(Token)
  /\ ck \in BOOLEAN /\ log \in BOOLEAN /\ i \in 1 .. NBins + 1
  /\ phase \in {"check", "fix", "done"}
  /\ fixc \in [Bins -> {"none", "fixed", "nf_failed"}]
  /\ \A r \in {res[b] : b \in Bins} \cup {res2[b] : b \in Bins} :
       /\ r.need \in BOOLEAN /\ r.incr \subseteq Counters
       /\ r.cf \in [contents : Nat, content_sz : Nat, ele_count : Nat,
                    nf_padding : Nat, nf_list_order : BOOLEAN,
                    nf_map_order : BOOLEAN, need_log : BOOLEAN]

(* A fix that cdt_fix_list counted as fixed sticks: once cdt_check is     *)
(* done with the record, the stored bin is still a list, and cdt_need_fix  *)
(* in the next run finds it neither in need of a fix nor unfixable.  This  *)
(* needs the content range and padding length cdt_list_need_fix computed   *)
(* to be the ones the rewrite keeps and drops (spec.md 8, idempotence),    *)
(* and no later put of the record to write back an older bin over a fixed  *)
(* one.                                                                    *)
FixesStick ==
  phase = "done" =>
    \A b \in Bins : fixc[b] = "fixed" =>
      /\ store[b].kind = "list"
      /\ ~res2[b].need /\ "cannot_fix" \notin res2[b].incr

(* Whatever a fix would rewrite holds only storable values: a non-storage  *)
(* value is never handed to the store as part of a fix, whichever of the   *)
(* walks (unordered, in order, out of order) met it.                       *)
FixContentStorable ==
  \A b \in Bins : Checked(b) /\ res[b].need =>
    \A k \in 1 .. res[b].cf.content_sz : Contents(input[b], res[b].cf)[k] \in Storable

(* For an ordered list whose values are all present and storable (and, with *)
(* check_map_keys, hold no invalid key), the verdict is the one spec.md 4.4 *)
(* defines: an order fix exactly when two neighbours descend, a fix exactly *)
(* when they do or bytes trail, and the padding is the trailing length.     *)
OrderedListVerdict ==
  \A b \in Bins :
    LET in == input[b] IN
    (Checked(b) /\ in.kind = "list" /\ Ordered(in) /\ WellFormed(in)
     /\ (ck => \A k \in 1 .. Len(Elements(in)) : Elements(in)[k] # BadNest))
    => /\ res[b].cf.nf_list_order = Descends(Elements(in))
       /\ res[b].need = (Descends(Elements(in)) \/ PaddingOf(in) > 0)
       /\ res[b].need => res[b].cf.nf_padding = PaddingOf(in)

(* A map found to need a fix has no two equal keys: a duplicate always     *)
(* wins over an order or padding fix (spec.md 4.4, tie-break policy).      *)
MapFixHasDistinctKeys ==
  \A b \in Bins : Checked(b) /\ input[b].kind = "map" /\ res[b].need =>
    ~HasEqualPair(Keys([input[b] EXCEPT !.body = Contents(input[b], res[b].cf),
                                        !.count = res[b].cf.content_sz \div 2]))

(* spec.md 7: every unfixable bin is logged, whichever walk of            *)
(* cdt_list_need_fix or cdt_map_need_fix found it unfixable, so that       *)
(* scan_callback writes the record to the backup.                          *)
UnfixableLogged ==
  \A b \in Bins : Checked(b) /\ "cannot_fix" \in res[b].incr => res[b].cf.need_log

(* spec.md 8: a map with two entries sharing a key is counted as a         *)
(* duplicate-key unfixable map, whether or not it declares itself ordered.  *)
ScalarMapWithDupKey(b) ==
  /\ b.kind = "map" /\ WellFormed(b)
  /\ \A k \in 1 .. Len(Elements(b)) : Elements(b)[k] \in Vals
  /\ HasEqualPair(Keys(b))

DupKeyAlwaysUnfixable ==
  \A b \in Bins : Checked(b) /\ ScalarMapWithDupKey(input[b]) => "cf_dupkey" \in res[b].incr

(* spec.md 7(a): structural corruption, a header or body that ends before  *)
(* the values it declares, is always unfixable.                            *)
CutShortNeverFixable ==
  \A b \in Bins : Checked(b) /\ CutShort(input[b]) => ~res[b].need
=============================================================================
