--------------------------- MODULE MCObjectCount ----------------------------
(***************************************************************************)
(* get_object_count on its own, over three nodes, with the replies of      *)
(* MCReplies.                                                              *)
(***************************************************************************)
EXTENDS ObjectCount, MCReplies

(* main goes on with the result; the count is not repeated. *)
OCNext == CountNode \/ Return \/ (ocres # "run" /\ UNCHANGED ocvars)

OCSpec == OCInit /\ [][OCNext]_ocvars
=============================================================================
