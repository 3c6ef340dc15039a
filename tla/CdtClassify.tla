----------------------------- MODULE CdtClassify -----------------------------
(***************************************************************************)
(* The CDT classifier of src/src/backup.c: cdt_need_fix, cdt_list_need_fix *)
(* and cdt_map_need_fix with their helpers, as operators over a bin of     *)
(* CdtEncoding.  Each returns what the C function returns (need_fix), the  *)
(* cdt_fix record it fills in, and the set of cdt_stats counters it        *)
(* increments (each by one).  Early returns become the branches of IF.     *)
(***************************************************************************)
EXTENDS CdtEncoding

Counters == {"count", "fixed", "need_fix", "nf_failed", "nf_order",
             "nf_padding", "cannot_fix", "cf_dupkey", "cf_nonstorage",
             "cf_corrupt", "cf_invalidkey"}

(* cdt_fix, zero-initialised as in cdt_check; contents is the token offset *)
(* where the elements start, content_sz their length in tokens.            *)
NoCf == [contents |-> 0, content_sz |-> 0, ele_count |-> 0, nf_padding |-> 0,
         nf_list_order |-> FALSE, nf_map_order |-> FALSE, need_log |-> FALSE]

Ret(need, cf, incr) == [need |-> need, cf |-> cf, incr |-> incr]

Logged(cf) == [cf EXCEPT !.need_log = TRUE]

(* Mutant: cdt_check_set_cannotfix forgetting cf->need_log. *)
SetCannotFixUnlogged(mp, cf) ==
  Ret(FALSE, cf, {"cannot_fix", IF mp.ns THEN "cf_nonstorage" ELSE "cf_corrupt"})

(* cdt_check_set_cannotfix *)
SetCannotFix(mp, cf) ==
  Ret(FALSE, Logged(cf),
      {"cannot_fix", IF mp.ns THEN "cf_nonstorage" ELSE "cf_corrupt"})

Corrupt(cf)    == Ret(FALSE, Logged(cf), {"cannot_fix", "cf_corrupt"})
InvalidKey(cf) == Ret(FALSE, Logged(cf), {"cf_invalidkey"})

(* Mutant: the padding length with the subtraction swapped. *)
CheckSzSwapped(mp, sz, cf) ==
  CASE mp.off < sz -> Ret(TRUE, [Logged(cf) EXCEPT !.nf_padding = mp.off - sz],
                          {"need_fix", "nf_padding"})
    [] mp.off > sz -> Ret(FALSE, cf, {"cannot_fix", "cf_corrupt"})
    [] OTHER       -> Ret(FALSE, cf, {})

(* cdt_check_sz: trailing tokens are padding. *)
CheckSz(mp, sz, cf) ==
  CASE mp.off < sz -> Ret(TRUE, [Logged(cf) EXCEPT !.nf_padding = sz - mp.off],
                          {"need_fix", "nf_padding"})
    [] mp.off > sz -> Ret(FALSE, cf, {"cannot_fix", "cf_corrupt"})
    [] OTHER       -> Ret(FALSE, cf, {})

WithContent(cf, mp) == [cf EXCEPT !.content_sz = mp.off - cf.contents]

(* Mutant: the out-of-order branch forgetting to record the padding. *)
OrderFixNoPadding(mp, sz, cf) ==
  IF mp.off # sz THEN Ret(TRUE, cf, {"need_fix", "nf_order", "nf_padding"})
  ELSE Ret(TRUE, cf, {"need_fix", "nf_order"})

(* The end of the out-of-order branch of both ordered walks: the elements  *)
(* up to mp are the contents, and the bin needs an order fix (and maybe a  *)
(* padding fix) if they lie within the bin.                                *)
OrderFix(mp, sz, cf) ==
  IF mp.off # sz
  THEN Ret(TRUE, [cf EXCEPT !.nf_padding = sz - mp.off],
           {"need_fix", "nf_order", "nf_padding"})
  ELSE Ret(TRUE, cf, {"need_fix", "nf_order"})

(* Mutant: the outer loop of cdt_map_dup_key_check stopping one key early. *)
DupKeyCheckShort(n, body, cf) ==
  LET keys == {cf.contents + 2 * p : p \in 0 .. (cf.content_sz \div 2) - 1}
  IN  /\ n > 1
      /\ \E k1, k2 \in keys :
           /\ k1 < k2
           /\ (k2 - cf.contents) \div 2 < n - 1
           /\ CmpTok(body[k1 + 1], body[k2 + 1]) = "EQUAL"

(* cdt_map_dup_key_check: an O(n^2) pairwise comparison of the first n     *)
(* keys of the contents; keys past the end of the contents compare unequal *)
cdt_map_dup_key_check(n, body, cf) ==
  LET keys == {cf.contents + 2 * p : p \in 0 .. (cf.content_sz \div 2) - 1}
  IN  /\ n > 1
      /\ \E k1, k2 \in keys :
           /\ k1 < k2
           /\ (k2 - cf.contents) \div 2 < n
           /\ CmpTok(body[k1 + 1], body[k2 + 1]) = "EQUAL"

-----------------------------------------------------------------------------
(***************************************************************************)
(* Lists                                                                   *)
(***************************************************************************)

(* The loop over the elements of an unordered list with check_map_keys.    *)
RECURSIVE ListKeysWalk(_, _, _, _)
ListKeysWalk(body, mp, i, cf) ==
  IF i = cf.ele_count THEN [done |-> TRUE, mp |-> mp]
  ELSE LET s == SzRep(body, mp, 1)
       IN  IF s.sz = 0 \/ s.c.ns THEN [done |-> FALSE, r |-> SetCannotFix(s.c, cf)]
           ELSE IF ~check_map_keys_internal(body, mp.off, s.sz)
                THEN [done |-> FALSE, r |-> InvalidKey(cf)]
                ELSE ListKeysWalk(body, s.c, i + 1, cf)

(* Mutant: the unordered list walk without check_map_keys ignoring the     *)
(* has_nonstorage flag msgpack_sz_rep leaves.                              *)
ListUnorderedNoNs(b, mp, ck) ==
  LET cf == [NoCf EXCEPT !.ele_count = b.count, !.contents = mp.off]
      w  == IF ck THEN ListKeysWalk(b.body, mp, 0, cf)
            ELSE LET s == SzRep(b.body, mp, b.count)
                 IN  IF s.sz = 0
                     THEN [done |-> FALSE, r |-> SetCannotFix(s.c, cf)]
                     ELSE [done |-> TRUE, mp |-> s.c]
  IN  IF w.done THEN CheckSz(w.mp, Len(b.body), WithContent(cf, w.mp)) ELSE w.r

ListUnordered(b, mp, ck) ==
  LET cf == [NoCf EXCEPT !.ele_count = b.count, !.contents = mp.off]
      w  == IF ck THEN ListKeysWalk(b.body, mp, 0, cf)
            ELSE LET s == SzRep(b.body, mp, b.count)
                 IN  IF s.sz = 0 \/ s.c.ns
                     THEN [done |-> FALSE, r |-> SetCannotFix(s.c, cf)]
                     ELSE [done |-> TRUE, mp |-> s.c]
  IN  IF w.done THEN CheckSz(w.mp, Len(b.body), WithContent(cf, w.mp)) ELSE w.r

(* The comparison loop of an ordered list, iteration i of                  *)
(* `for (i = 1; i < ele_count - 1; i++)'.                                  *)
RECURSIVE ListLoop(_, _, _, _, _, _)
ListLoop(b, ck, i, prev, mp, cf) ==
  LET sz == Len(b.body) IN
  IF i >= b.count - 1
  THEN IF mp.ns THEN Ret(FALSE, Logged(cf), {"cannot_fix", "cf_nonstorage"})
       ELSE CheckSz(mp, sz, WithContent(cf, mp))
  ELSE
    LET r   == Cmp(b.body, prev, mp)
        rem == b.count - i - 2
        s   == SzRep(b.body, r.b, rem)
        end == IF rem # 0 THEN s.c ELSE r.b
    IN  IF r.res \notin {"LESS", "EQUAL"}
        THEN IF r.b.ns \/ (rem # 0 /\ (s.sz = 0 \/ s.c.ns))
             THEN SetCannotFix(end, cf)
             ELSE LET cf2 == [WithContent(cf, end) EXCEPT !.nf_list_order = TRUE]
                  IN  IF end.off <= sz THEN OrderFix(end, sz, cf2)
                      ELSE Ret(FALSE, cf2, {"cannot_fix", "cf_corrupt"})
        ELSE IF ck /\ ~check_map_keys_internal(b.body, mp.off, r.b.off - mp.off)
             THEN InvalidKey(cf)
             ELSE ListLoop(b, ck, i + 1, r.a, r.b, cf)

ListOrdered(b, mp, ck) ==
  LET cf == [NoCf EXCEPT !.ele_count = b.count - 1, !.contents = mp.off]
      s  == SzRep(b.body, mp, 1)
  IN  IF cf.ele_count = 0 THEN CheckSz(mp, Len(b.body), cf)
      ELSE IF s.sz = 0 \/ s.c.ns THEN SetCannotFix(s.c, cf)
      ELSE IF ck /\ ~check_map_keys_internal(b.body, mp.off, s.sz)
           THEN InvalidKey(cf)
      ELSE ListLoop(b, ck, 1, mp, s.c, cf)

cdt_list_need_fix(b, ck) ==
  LET mp == Cursor(0) IN
  IF b.hdr = "short" THEN Corrupt(NoCf)
  ELSE IF b.count = 0 THEN CheckSz(mp, Len(b.body), NoCf)
  ELSE IF ~AtEnd(b.body, mp) /\ TokenAt(b.body, mp) \in {Ext, ExtBad}
       THEN IF TokenAt(b.body, mp) = ExtBad THEN Corrupt(NoCf)
            ELSE ListOrdered(b, Cursor(1), ck)
  ELSE ListUnordered(b, mp, ck)

-----------------------------------------------------------------------------
(***************************************************************************)
(* Maps                                                                    *)
(***************************************************************************)

(* The loop over the pairs of an unordered map with check_map_keys.        *)
RECURSIVE MapKeysWalk(_, _, _, _)
MapKeysWalk(body, mp, i, cf) ==
  IF i = cf.ele_count THEN [done |-> TRUE, mp |-> mp]
  ELSE LET k == SzRep(body, mp, 1)
           v == SzRep(body, k.c, 1)
       IN  CASE k.sz = 0 \/ k.c.ns ->
                  [done |-> FALSE, r |-> SetCannotFix(k.c, cf)]
             [] ~map_is_key(body, mp.off, k.sz) ->
                  [done |-> FALSE, r |-> InvalidKey(cf)]
             [] v.sz = 0 \/ v.c.ns ->
                  [done |-> FALSE, r |-> SetCannotFix(v.c, cf)]
             [] ~check_map_keys_internal(body, k.c.off, v.sz) ->
                  [done |-> FALSE, r |-> InvalidKey(cf)]
             [] OTHER -> MapKeysWalk(body, v.c, i + 1, cf)

MapUnordered(b, mp, ck) ==
  LET cf == [NoCf EXCEPT !.ele_count = b.count, !.contents = mp.off]
      w  == IF ck THEN MapKeysWalk(b.body, mp, 0, cf)
            ELSE LET s == SzRep(b.body, mp, 2 * b.count)
                 IN  IF s.sz = 0 \/ s.c.ns
                     THEN [done |-> FALSE, r |-> SetCannotFix(s.c, cf)]
                     ELSE [done |-> TRUE, mp |-> s.c]
      cf2 == IF w.done THEN WithContent(cf, w.mp) ELSE cf
  IN  CASE ~w.done -> w.r
        [] cdt_map_dup_key_check(b.count, b.body, cf2) ->
             Ret(FALSE, Logged(cf2), {"cannot_fix", "cf_dupkey"})
        [] OTHER -> CheckSz(w.mp, Len(b.body), cf2)

(* The comparison loop of an ordered map, iteration i: compare key i-1     *)
(* with key i, then skip both values.                                      *)
RECURSIVE MapLoop(_, _, _, _, _, _)
MapLoop(b, ck, i, prev, mp, cf) ==
  LET sz == Len(b.body) IN
  IF i >= b.count - 1 THEN CheckSz(mp, sz, WithContent(cf, mp))
  ELSE
    LET r    == Cmp(b.body, prev, mp)
        pv   == Sz1(b.body, r.a)
        mv   == Sz1(b.body, r.b)
        rem  == 2 * (b.count - i - 2)
        s    == SzRep(b.body, mv.c, rem)
        guardRem == b.count - i - 1
    IN  CASE ck /\ ~map_is_key(b.body, mp.off, r.b.off - mp.off) ->
               InvalidKey(cf)
          [] ~pv.ok -> SetCannotFix(r.b, cf)
          [] ~mv.ok \/ mv.c.ns -> SetCannotFix(mv.c, cf)
          [] r.res # "LESS" ->
               IF mv.c.ns \/ (guardRem # 0 /\ (s.sz = 0 \/ s.c.ns))
               THEN SetCannotFix(s.c, cf)
               ELSE LET end == IF guardRem # 0 THEN s.c ELSE mv.c
                        cf2 == [WithContent(cf, end) EXCEPT !.nf_map_order = TRUE]
                    IN  CASE end.off > sz -> Corrupt(cf2)
                          [] cdt_map_dup_key_check(b.count, b.body, cf2) ->
                               Ret(FALSE, Logged(cf2), {"cannot_fix", "cf_dupkey"})
                          [] OTHER -> OrderFix(end, sz, cf2)
          [] ck /\ ~check_map_keys_internal(b.body, r.b.off, mv.c.off - r.b.off) ->
               InvalidKey(cf)
          [] OTHER -> MapLoop(b, ck, i + 1, pv.c, mv.c, cf)

MapOrdered(b, mp, ck) ==
  LET cf == [NoCf EXCEPT !.ele_count = b.count - 1, !.contents = mp.off]
      k  == SzRep(b.body, mp, 1)
      v  == SzRep(b.body, k.c, 1)
  IN  CASE cf.ele_count = 0 -> CheckSz(mp, Len(b.body), cf)
        [] k.sz = 0 \/ k.c.ns -> SetCannotFix(k.c, cf)
        [] ck /\ ~map_is_key(b.body, mp.off, k.sz) -> InvalidKey(cf)
        [] v.sz = 0 \/ v.c.ns -> SetCannotFix(v.c, cf)
        [] ck /\ ~check_map_keys_internal(b.body, k.c.off, v.sz) -> InvalidKey(cf)
        [] OTHER -> MapLoop(b, ck, 1, mp, v.c, cf)

cdt_map_need_fix(b, ck) ==
  LET mp == Cursor(0) IN
  IF b.hdr = "short" THEN Corrupt(NoCf)
  ELSE IF b.count = 0 THEN CheckSz(mp, Len(b.body), NoCf)
  ELSE IF ~AtEnd(b.body, mp) /\ TokenAt(b.body, mp) \in {Ext, ExtBad}
       THEN IF TokenAt(b.body, mp) = ExtBad \/ SzRep(b.body, Cursor(1), 1).sz = 0
            THEN Corrupt(NoCf)
            ELSE MapOrdered(b, SzRep(b.body, Cursor(1), 1).c, ck)
  ELSE MapUnordered(b, mp, ck)

(* cdt_need_fix: dispatch on the MessagePack type of the first byte,       *)
(* counting the bin; bytes that start with neither a list nor a map header *)
(* are passed over.                                                        *)
cdt_need_fix(b, ck) ==
  LET r == IF b.kind = "list" THEN cdt_list_need_fix(b, ck)
           ELSE cdt_map_need_fix(b, ck)
  IN  IF b.hdr = "other" THEN Ret(FALSE, NoCf, {})
      ELSE [r EXCEPT !.incr = @ \cup {"count"}]
=============================================================================
