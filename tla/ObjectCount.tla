---------------------------- MODULE ObjectCount ----------------------------
(***************************************************************************)
(* get_object_count of src/src/backup.c: main asks every node for its      *)
(* namespace statistics ("namespace/<ns>") and, when a set is given, for   *)
(* its set statistics ("sets"), adds up the object counts the callbacks    *)
(* parse, and divides the sum by the replication factor.  The result is    *)
(* rec_count_estimate, which feeds the progress report and the disk-space  *)
(* estimate of the backup files.                                           *)
(*                                                                         *)
(* get_info is not part of this repository: it sends the request, which   *)
(* may fail, splits the reply at ';' and hands each item to the callback,  *)
(* split at '=' into key and value for the namespace reply and whole for   *)
(* the sets reply, and fails as soon as the callback does.  A reply is a   *)
(* sequence of items; a key or value is a name from a small set, and a     *)
(* number is the string better_atoi reads.                                 *)
(***************************************************************************)
EXTENDS Integers, Sequences
LOCAL INSTANCE SequencesExt

CONSTANTS
  NNodes,      \* n_node_names
  Ns,          \* scan.ns
  SetName,     \* scan.set; "" when none was given
  NsReplies,   \* the namespace replies a node may send
  SetReplies   \* the sets replies a node may send

ASSUME NNodes >= 1

(* better_atoi on the numbers the replies hold; any other string fails. *)
AtoI == [v \in {"0", "1", "2", "101"} |-> CASE v = "0" -> 0 [] v = "1" -> 1
                                            [] v = "2" -> 2 [] v = "101" -> 101]
IsNum(v) == v \in DOMAIN AtoI

FactorKeys  == {"repl-factor", "effective_replication_factor"}
ObjectsKeys == {"objects", "n_objects"}
NsKeys      == {"ns", "ns_name"}
SetKeys     == {"set", "set_name"}

VARIABLES
  ci,        \* the node the loop of get_object_count is at
  nsctx,     \* ns_context: the count and factor ns_count_callback last parsed
  total,     \* *obj_count
  ocres,     \* "run", then "ok" or "fail": what get_object_count returns
  estimate,  \* rec_count_estimate
  got        \* the replies main got so far (history, not program state)

ocvars == <<ci, nsctx, total, ocres, estimate, got>>

NoCtx == [count |-> 0, factor |-> 0]

-----------------------------------------------------------------------------
(* ns_count_callback on one key-value pair: the result and the context. *)
ns_count_callback(ctx, key, value) ==
  CASE key = "objects" ->
         IF IsNum(value) THEN [ok |-> TRUE, ctx |-> [ctx EXCEPT !.count = AtoI[value]]]
         ELSE [ok |-> FALSE, ctx |-> ctx]
    [] key \in FactorKeys ->
         IF IsNum(value) /\ AtoI[value] \in 1 .. 100
         THEN [ok |-> TRUE, ctx |-> [ctx EXCEPT !.factor = AtoI[value]]]
         ELSE [ok |-> FALSE, ctx |-> ctx]
    [] OTHER -> [ok |-> TRUE, ctx |-> ctx]

(* get_info with ns_count_callback over the namespace reply r. *)
NsInfo(ctx, r) ==
  FoldLeft(LAMBDA acc, p : IF acc.ok THEN ns_count_callback(acc.ctx, p.k, p.v) ELSE acc,
           [ok |-> TRUE, ctx |-> ctx], r)

(* Mutant: an entry matching on its set name alone, whatever namespace.   *)
SetItemNoNs(acc, it) ==
  CASE ~acc.ok -> acc
    [] it.k = "noeq" -> [acc EXCEPT !.ok = FALSE]
    [] it.k \in SetKeys /\ it.v # SetName -> [acc EXCEPT !.match = FALSE]
    [] it.k \in ObjectsKeys ->
         IF IsNum(it.v) THEN [acc EXCEPT !.count = AtoI[it.v]] ELSE [acc EXCEPT !.ok = FALSE]
    [] OTHER -> acc

(* The items of one entry of the sets reply, split at ':'. An item without *)
(* '=' fails; ns or set naming another namespace or set clears match; the  *)
(* object count is parsed.                                                 *)
SetItem(acc, it) ==
  CASE ~acc.ok -> acc
    [] it.k = "noeq" -> [acc EXCEPT !.ok = FALSE]
    [] it.k \in NsKeys /\ it.v # Ns -> [acc EXCEPT !.match = FALSE]
    [] it.k \in SetKeys /\ it.v # SetName -> [acc EXCEPT !.match = FALSE]
    [] it.k \in ObjectsKeys ->
         IF IsNum(it.v) THEN [acc EXCEPT !.count = AtoI[it.v]] ELSE [acc EXCEPT !.ok = FALSE]
    [] OTHER -> acc

(* set_count_callback on one entry: the empty string after the trailing    *)
(* ';' is skipped; an entry that matches adds its count.                   *)
set_count_callback(cnt, e) ==
  IF e = <<>> THEN [ok |-> TRUE, count |-> cnt]
  ELSE LET w == FoldLeft(SetItem, [ok |-> TRUE, match |-> TRUE, count |-> 0], e)
       IN  [ok |-> w.ok, count |-> cnt + IF w.match THEN w.count ELSE 0]

(* get_info with set_count_callback over the sets reply sr. *)
SetInfo(sr) ==
  FoldLeft(LAMBDA acc, e : IF acc.ok THEN set_count_callback(acc.count, e) ELSE acc,
           [ok |-> TRUE, count |-> 0], sr)

-----------------------------------------------------------------------------
OCInit ==
  /\ ci = 1
  /\ nsctx = NoCtx
  /\ total = 0
  /\ ocres = "run"
  /\ estimate = 0
  /\ got = <<>>

(* get_object_count's locals go out of scope; the history is dropped too. *)
Returned(res) ==
  /\ ocres' = res
  /\ ci' = 1 /\ nsctx' = NoCtx /\ total' = 0 /\ got' = <<>>

(* One iteration of the loop over the nodes: the namespace request, the    *)
(* check for an unknown namespace, the sets request when a set is given,   *)
(* and the count added.  A failed request, a failed callback or a factor   *)
(* still 0 ends get_object_count with false.                               *)
CountNode ==
  /\ ocres = "run" /\ ci <= NNodes
  /\ \E r \in NsReplies, sr \in SetReplies, nsok, setok \in BOOLEAN :
       LET ns == NsInfo(nsctx, r)
           st == SetInfo(sr)
       IN  IF ~(nsok /\ ns.ok) \/ ns.ctx.factor = 0 \/ (SetName # "" /\ ~(setok /\ st.ok))
           THEN Returned("fail") /\ UNCHANGED estimate
           ELSE /\ nsctx' = ns.ctx
                /\ total' = total + IF SetName = "" THEN ns.ctx.count ELSE st.count
                /\ ci' = ci + 1
                /\ got' = Append(got, [ns |-> r, sets |-> sr])
                /\ UNCHANGED <<ocres, estimate>>

(* After the last node: the sum divided by the factor in ns_context. *)
Return ==
  /\ ocres = "run" /\ ci = NNodes + 1
  /\ estimate' = total \div nsctx.factor
  /\ Returned("ok")

-----------------------------------------------------------------------------
(* What the replies say: the value a reply gives to one of keys. *)
ValueOf(r, keys) == (CHOOSE p \in ToSet(r) : p.k \in keys).v

(* The objects of the namespace, or of the set in the namespace, on one    *)
(* node: the namespace's count, or the sum of the matching set entries.    *)
NodeObjects(rep) ==
  IF SetName = "" THEN AtoI[ValueOf(rep.ns, {"objects"})]
  ELSE FoldSeq(LAMBDA e, acc : acc + IF e # <<>> /\ ValueOf(e, NsKeys) = Ns
                                         /\ ValueOf(e, SetKeys) = SetName
                                      THEN AtoI[ValueOf(e, ObjectsKeys)] ELSE 0,
               0, rep.sets)

(* The records of the namespace (or set) in the cluster: every node's      *)
(* objects, master and replica, over the replication factor.               *)
Reference(g) ==
  FoldSeq(LAMBDA rep, acc : acc + NodeObjects(rep), 0, g) \div AtoI[ValueOf(g[1].ns, FactorKeys)]

KnowsNs(r) == \E j \in DOMAIN r : r[j].k \in FactorKeys

(* A successful count is the cluster's record count the replies add up to: *)
(* the callbacks pick out the right keys, entries of other namespaces and  *)
(* sets are left out, and the sum is divided once, after the loop.         *)
EstimateMatchesReplies ==
  [][ocres = "run" /\ ocres' = "ok" => estimate' = Reference(got)]_ocvars

(* The check after the namespace request ("Invalid namespace") makes the   *)
(* count fail when a node does not know the namespace: no successful      *)
(* count rests on a reply without a replication factor.                    *)
UnknownNamespaceFails ==
  [][ocres = "run" /\ ocres' = "ok" => \A n \in DOMAIN got : KnowsNs(got[n].ns)]_ocvars
=============================================================================
