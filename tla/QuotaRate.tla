------------------------------ MODULE QuotaRate ------------------------------
(***************************************************************************)
(* The quota arithmetic of the counter threads: counter_thread_func in     *)
(* src/src/backup.c raises byte_count_limit, and the one in                *)
(* src/src/restore.c raises bytes_limit and records_limit, once per        *)
(* iteration by bandwidth * 1000 / ms, where ms is the time the iteration  *)
(* took (sleep(1) plus the progress output; 0 skips the raise).  main      *)
(* starts the quota at one second's worth.  The reference is the rate the  *)
(* option promises ("MiB/s"): bandwidth per second of elapsed time.        *)
(***************************************************************************)
EXTENDS Naturals

CONSTANTS
  Bandwidth,   \* backup_config.bandwidth (bytes per second)
  TickMs,      \* the lengths an iteration of the counter thread can take
  ShortMs,     \* the lengths of an iteration whose sleep(1) a signal cut short
  MaxElapsed   \* bound on the elapsed time, in ms

ASSUME Bandwidth \in Nat /\ TickMs \subseteq Nat /\ ShortMs \subseteq Nat /\ MaxElapsed \in Nat

VARIABLES
  elapsed,  \* ms since main set the quota
  limit,    \* byte_count_limit / bytes_limit
  due,      \* the reference quota: one second's worth plus the rate times the time
  ctr       \* "run" while the counter thread loops, "done" once it broke out

vars == <<elapsed, limit, due, ctr>>

(* The raise of one iteration, as the code computes it. *)
Raise(bw, ms) == IF ms > 0 THEN (bw * 1000) \div ms ELSE 0

(* What an iteration of ms milliseconds is owed at bw bytes per second.    *)
Due(bw, ms) == (bw * ms) \div 1000

Init ==
  /\ elapsed = 0
  /\ limit = Bandwidth
  /\ due = Bandwidth
  /\ ctr = "run"

(* One iteration of ms milliseconds: the raise, then the loop ends if stop *)
(* was set meanwhile by another thread.                                    *)
Advance(ms) ==
  /\ elapsed' = elapsed + ms
  /\ limit' = limit + Raise(Bandwidth, ms)
  /\ due' = due + Due(Bandwidth, ms)

Tick ==
  /\ ctr = "run" /\ elapsed < MaxElapsed
  /\ \E ms \in TickMs : Advance(ms)
  /\ ctr' \in {"run", "done"}

(* SIGINT or SIGTERM delivered to the counter thread cuts sleep(1) short;  *)
(* sig_hand has set stop, so the iteration still raises the quota, reads   *)
(* stop and breaks out.                                                    *)
Interrupted ==
  /\ ctr = "run" /\ elapsed < MaxElapsed
  /\ \E ms \in ShortMs : Advance(ms)
  /\ ctr' = "done"

(* The counter thread has left its loop, or its time is bounded here. *)
Done == (ctr = "done" \/ elapsed >= MaxElapsed) /\ UNCHANGED vars

Next == Tick \/ Interrupted \/ Done

Spec == Init /\ [][Next]_vars

(* The throttle lets the workers write at the bandwidth: the quota keeps   *)
(* up with the rate times the elapsed time, however long an iteration of   *)
(* the counter thread takes.                                               *)
QuotaNoSlower == limit >= due
====
