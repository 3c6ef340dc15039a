--------------------------- MODULE MCScanPipeline ---------------------------
(***************************************************************************)
(* Three nodes and two workers, so that one worker scans two nodes and     *)
(* both can wait on the quota at once; two records per node, so that a     *)
(* worker writes, waits and writes again within a scan; a quota of one     *)
(* record a tick, so that every write reaches it.  The count before the    *)
(* scan asks the three nodes for the set "s" of namespace "test", with the *)
(* replies of MCReplies that know the namespace.                           *)
(***************************************************************************)
EXTENDS ScanPipeline, MCReplies
=============================================================================
