----------------------------- MODULE MCReplies ------------------------------
(***************************************************************************)
(* The replies of the cluster nodes to get_object_count's requests.  The   *)
(* namespace replies: two that know the namespace, with its object count  *)
(* and a replication factor of 2 under either key, one whose object count *)
(* does not parse, and (UnknownNs) the reply of a node that does not know  *)
(* the namespace: no "objects", no factor.  The sets replies: an entry of  *)
(* the set, an entry of the same set in another namespace next to one of   *)
(* the set under the other key names, and an item without '='; each ends  *)
(* with the empty item of the trailing ';'.                                *)
(***************************************************************************)
EXTENDS Naturals

Item(k, v) == [k |-> k, v |-> v]

NsKnown ==
  { << Item("objects", "2"), Item("repl-factor", "2") >>,
    << Item("effective_replication_factor", "2"), Item("stop-writes", "false"),
       Item("objects", "1") >>,
    << Item("objects", "x"), Item("repl-factor", "2") >> }

UnknownNs == << Item("stop-writes", "false") >>

MCNsReplies     == NsKnown
MCNsRepliesMiss == NsKnown \cup {UnknownNs}

MCSetReplies ==
  { << << Item("ns", "test"), Item("set", "s"), Item("objects", "2") >>, <<>> >>,
    << << Item("ns", "bar"), Item("set", "s"), Item("objects", "2") >>,
       << Item("set_name", "s"), Item("ns_name", "test"), Item("n_objects", "2") >>, <<>> >>,
    << << Item("ns", "test"), Item("noeq", "") >>, <<>> >> }

=============================================================================
