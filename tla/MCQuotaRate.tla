----------------------------- MODULE MCQuotaRate -----------------------------
(***************************************************************************)
(* Bounds for QuotaRate: a bandwidth of 1000 bytes per second, so that the *)
(* reference is exact; iterations of one second (the sleep alone), of 1.5 *)
(* and 2 seconds (slow progress output or a loaded machine); iterations a  *)
(* signal cuts short after 0 and 400 ms; twelve seconds of run time.       *)
(***************************************************************************)
EXTENDS QuotaRate

MCTickMs  == {1000, 1500, 2000}
MCShortMs == {0, 400}
====
