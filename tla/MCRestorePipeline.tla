------------------------- MODULE MCRestorePipeline -------------------------
(***************************************************************************)
(* Bounds for RestorePipeline, given in the .cfg files:                    *)
(*  - directory mode: three files of two records and two threads, so a     *)
(*    worker takes a second file while the other is still storing, with    *)
(*    signals, and no throttle;                                            *)
(*  - single-file mode: two threads sharing a file of three records, so    *)
(*    both read from it in turn, with the throttle at one record per tick  *)
(*    and ignore_rec_error set.                                            *)
(* Two tries reach both a retry and an exhausted retry loop.               *)
(***************************************************************************)
EXTENDS RestorePipeline
=============================================================================
