----------------------------- MODULE MCCdtRecord -----------------------------
(***************************************************************************)
(* The bins TLC classifies, in records of one bin: every list body of up to MaxListTokens tokens  *)
(* and every map body of up to 2 * MaxMapPairs tokens over small token     *)
(* sets, each under every declared count up to the bound and under each    *)
(* outer header.  A value cut short (Bad) can only be the last token: the  *)
(* buffer ends inside it.  The ordered extension can only come first.      *)
(***************************************************************************)
EXTENDS CdtRecord

MaxListTokens == 4
MaxMapPairs   == 4
MCVals        == {"a", "b"}
MCValRank     == [v \in MCVals |-> IF v = "a" THEN 1 ELSE 2]

ListMid == Storable \cup NonStorage
MapKeyTok == {"a", "b", Lst, Wild}
MapValTok == {"a", BadNest}

(* Bodies of length n built from the per-position token sets, without a    *)
(* cut-short value.                                                        *)
ListSeqs[n \in 0 .. MaxListTokens] ==
  IF n = 0 THEN {<<>>} ELSE {s \o <<t>> : s \in ListSeqs[n - 1], t \in ListMid}
MapTok(p) == IF p % 2 = 1 THEN MapKeyTok ELSE MapValTok
MapSeqs[n \in 0 .. 2 * MaxMapPairs] ==
  IF n = 0 THEN {<<>>} ELSE {s \o <<t>> : s \in MapSeqs[n - 1], t \in MapTok(n)}

(* The last token may be cut short, the first may be the extension.        *)
WithEnds(seqs, last(_)) ==
  LET plain == UNION {{s \o <<t>> : t \in last(Len(s) + 1) \cup {Bad}} : s \in seqs}
  IN  plain \cup {[b EXCEPT ![1] = Ext] : b \in plain}

ListBodies == {<<>>, <<ExtBad>>} \cup
  WithEnds(UNION {ListSeqs[n] : n \in 0 .. MaxListTokens - 1}, LAMBDA p : ListMid)
MapBodies == {<<>>, <<ExtBad>>} \cup
  WithEnds(UNION {MapSeqs[n] : n \in 0 .. 2 * MaxMapPairs - 1}, MapTok)

MCInputs ==
  {[kind |-> "list", hdr |-> "ok", count |-> n, body |-> b] :
      n \in 0 .. MaxListTokens, b \in ListBodies}
  \cup {[kind |-> "map", hdr |-> "ok", count |-> n, body |-> b] :
      n \in 0 .. MaxMapPairs, b \in MapBodies}
  \cup {[kind |-> k, hdr |-> h, count |-> 1, body |-> <<>>] :
      k \in Kinds, h \in {"short", "other"}}

(* Records of two bins, each an ordered list that is clean, that needs an  *)
(* order fix, or that needs a padding fix only.                            *)
ListBin(body) == [kind |-> "list", hdr |-> "ok", count |-> 3, body |-> body]
MCRecordBins ==
  {ListBin(<<Ext, "a", "b">>), ListBin(<<Ext, "b", "a">>), ListBin(<<Ext, "a", "b", "a">>)}
====
