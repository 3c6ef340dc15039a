---------------------------- MODULE ScanPipeline ----------------------------
(***************************************************************************)
(* The validation pipeline of src/src/backup.c: main counts the cluster's  *)
(* records (ObjectCount), starts the counter thread, pushes one job per    *)
(* node onto the job queue and starts min(parallel, nodes) workers         *)
(* (backup_thread_func); each worker pops jobs and scans its node, the     *)
(* scan invoking scan_callback once per record; the counter thread         *)
(* (counter_thread_func) raises the bandwidth quota once a second and      *)
(* signals bandwidth_cond; main joins the workers with safe_join, sets     *)
(* stop and joins the counter thread.  The signal handler sets stop at any *)
(* time.                                                                   *)
(*                                                                         *)
(* Nothing a worker does depends on which node it scans, so the job queue *)
(* is the number of jobs left.  A record is one byte of output; what       *)
(* cdt_check decides for it is a nondeterministic choice here (CdtRecord   *)
(* models the decision itself).  rec_count_checked and rec_count_total     *)
(* only feed the progress report and are left out.                         *)
(* Every step is one critical section or one read or write of shared       *)
(* state.                                                                  *)
(***************************************************************************)
EXTENDS Naturals, FiniteSets, ObjectCount

CONSTANTS
  Parallel,    \* backup_config.parallel
  Recs,        \* records each node's scan returns
  Bandwidth,   \* backup_config.bandwidth; 0 is no throttling
  DirMode      \* TRUE: backing up to a directory; FALSE: to one shared file

ASSUME Parallel >= 1 /\ Recs \in Nat /\ Bandwidth \in Nat /\ DirMode \in BOOLEAN

NThreads == IF Parallel > NNodes THEN NNodes ELSE Parallel
Threads  == 1 .. NThreads

(* The quota only matters up to the bytes all scans can write: raising it  *)
(* past that bound changes no waiting decision, so it is capped there.     *)
LimitCap == Bandwidth + NNodes * Recs

SUCCESS == "EXIT_SUCCESS"
FAILURE == "EXIT_FAILURE"

VARIABLES
  queue,     \* the jobs left on job_queue
  pc,        \* each worker's place: "none" (not created), "loop", "pop", "scan", "check", "throttle", "wait", "close", "exit"
  idx,       \* the records of that node's scan delivered so far
  tres,      \* each worker's return value
  stop,      \* the global stop flag
  bytes,     \* byte_count_total
  limit,     \* byte_count_limit
  ctr,       \* the counter thread: "none" (not created), "run", "leaving" (out of its loop) or "done"
  printed,   \* the byte count of the summary the counter thread prints
  mpc,       \* main: "count", "join", "joinctr" or "done"
  mj,        \* the worker main joins next
  mres,      \* main's res, the exit status
  nok,       \* n_threads_ok: the workers main created
  failed     \* some node's scan did not complete

countvars == <<ci, nsctx, total, ocres, estimate, got, nok>>

vars == <<queue, pc, idx, tres, stop, bytes, limit,
          ctr, printed, mpc, mj, mres, failed, countvars>>

Init ==
  /\ queue = 0
  /\ pc = [t \in Threads |-> "none"]
  /\ idx = [t \in Threads |-> 0]
  /\ tres = [t \in Threads |-> FAILURE]
  /\ stop = FALSE
  /\ bytes = 0
  /\ limit = Bandwidth
  /\ ctr = "none" /\ printed = 0
  /\ mpc = "count" /\ mj = 1 /\ mres = FAILURE
  /\ failed = FALSE
  /\ OCInit /\ nok = 0

(* Leaving the loop of backup_thread_func: a result other than success     *)
(* tells the other threads to stop.                                        *)
Leave(t, r) ==
  /\ pc' = [pc EXCEPT ![t] = "exit"]
  /\ tres' = [tres EXCEPT ![t] = r]
  /\ stop' = (stop \/ r # SUCCESS)

-----------------------------------------------------------------------------
(* backup_thread_func *)

(* The head of the loop: a set stop flag ends the thread with failure.     *)
Loop(t) ==
  /\ pc[t] = "loop"
  /\ IF stop THEN Leave(t, FAILURE) /\ UNCHANGED <<queue, idx>>
     ELSE pc' = [pc EXCEPT ![t] = "pop"] /\ UNCHANGED <<queue, idx, tres, stop>>
  /\ UNCHANGED <<bytes, limit, failed>>

(* Mutant: popping without the empty-queue result. *)
PopUnchecked(t) ==
  /\ pc[t] = "pop"
  /\ IF queue < 0 THEN Leave(t, SUCCESS) /\ UNCHANGED <<queue, idx>>
     ELSE \E opened \in {TRUE, ~DirMode} :
            /\ queue' = queue - 1
            /\ idx' = [idx EXCEPT ![t] = 0]
            /\ IF opened THEN pc' = [pc EXCEPT ![t] = "scan"] /\ UNCHANGED <<tres, stop>>
               ELSE Leave(t, FAILURE)
  /\ UNCHANGED <<bytes, limit, failed>>

(* cf_queue_pop: an empty queue ends the thread with success; otherwise    *)
(* the first file of the node is opened (directory mode), which may fail.  *)
Pop(t) ==
  /\ pc[t] = "pop"
  /\ IF queue = 0 THEN Leave(t, SUCCESS) /\ UNCHANGED <<queue, idx>>
     ELSE \E opened \in {TRUE, ~DirMode} :
            /\ queue' = queue - 1
            /\ idx' = [idx EXCEPT ![t] = 0]
            /\ IF opened THEN pc' = [pc EXCEPT ![t] = "scan"] /\ UNCHANGED <<tres, stop>>
               ELSE Leave(t, FAILURE)
  /\ UNCHANGED <<bytes, limit, failed>>

(* The scan delivers the next record to scan_callback, or ends.  The       *)
(* callback returns false on stop, which aborts the scan; the worker goes  *)
(* to close_file.                                                          *)
Callback(t) ==
  /\ pc[t] = "scan"
  /\ \/ /\ idx[t] = Recs
        /\ pc' = [pc EXCEPT ![t] = "close"]
        /\ UNCHANGED failed
     \/ /\ idx[t] < Recs /\ stop
        /\ pc' = [pc EXCEPT ![t] = "close"]
        /\ failed' = TRUE
  /\ UNCHANGED <<idx, queue, tres, stop, bytes, limit>>

(* Past the stop check: the record is checked (cdt_check, which may talk   *)
(* to the server) and, if it is to be logged, stored in the backup file    *)
(* (the file switch and put_record), which may fail and abort the scan.    *)
(* stop is not read again.                                                 *)
(* Mutant: the record delivered without the stop check of scan_callback. *)
CheckRecordNoStop(t) ==
  /\ pc[t] = "scan"
  /\ idx[t] < Recs
  /\ idx' = [idx EXCEPT ![t] = @ + 1]
  /\ pc' = [pc EXCEPT ![t] = "check"]
  /\ UNCHANGED <<queue, tres, stop, bytes, limit, failed>>

CheckRecord(t) ==
  /\ pc[t] = "scan"
  /\ idx[t] < Recs /\ ~stop
  /\ idx' = [idx EXCEPT ![t] = @ + 1]
  /\ pc' = [pc EXCEPT ![t] = "check"]
  /\ UNCHANGED <<queue, tres, stop, bytes, limit, failed>>

StoreRecord(t) ==
  /\ pc[t] = "check"
  /\ \E logged, stored \in BOOLEAN :
       CASE ~logged ->
              /\ pc' = [pc EXCEPT ![t] = "scan"]
              /\ UNCHANGED <<bytes, failed>>
         [] logged /\ ~stored ->
              /\ pc' = [pc EXCEPT ![t] = "close"]
              /\ failed' = TRUE
              /\ UNCHANGED <<bytes>>
         [] OTHER ->
              /\ bytes' = bytes + 1
              /\ pc' = [pc EXCEPT ![t] = IF Bandwidth > 0 THEN "throttle" ELSE "scan"]
              /\ UNCHANGED failed
  /\ UNCHANGED <<queue, idx, tres, stop, limit>>

(* aerospike_scan_node fails for a reason of its own (node gone, timeout). *)
ScanError(t) ==
  /\ pc[t] = "scan" /\ mpc # "done"
  /\ pc' = [pc EXCEPT ![t] = "close"]
  /\ failed' = TRUE
  /\ UNCHANGED <<queue, idx, tres, stop, bytes, limit,
                 ctr, printed, mpc, mj, mres, countvars>>

(* Mutant: the bandwidth loop waiting only once the quota is exceeded. *)
ThrottleStrict(t) ==
  /\ pc[t] = "throttle"
  /\ pc' = [pc EXCEPT ![t] = IF bytes > limit /\ ~stop THEN "wait" ELSE "scan"]
  /\ UNCHANGED <<queue, idx, tres, stop, bytes, limit, failed>>

(* The bandwidth loop of scan_callback, under the lock: wait while the     *)
(* bytes written reach the quota and stop is not set.                      *)
Throttle(t) ==
  /\ pc[t] = "throttle"
  /\ pc' = [pc EXCEPT ![t] = IF bytes >= limit /\ ~stop THEN "wait" ELSE "scan"]
  /\ UNCHANGED <<queue, idx, tres, stop, bytes, limit, failed>>

(* close_file: closing the node's last file may fail (directory mode).     *)
Close(t) ==
  /\ pc[t] = "close"
  /\ \E closed \in {TRUE, ~DirMode} :
       IF closed THEN pc' = [pc EXCEPT ![t] = "loop"] /\ UNCHANGED <<tres, stop>>
       ELSE Leave(t, FAILURE)
  /\ UNCHANGED <<queue, idx, bytes, limit, failed>>

(* The workers run until the process exits. *)
Worker(t) ==
  /\ mpc # "done"
  /\ Loop(t) \/ Pop(t) \/ Callback(t) \/ CheckRecord(t) \/ StoreRecord(t)
     \/ Throttle(t) \/ Close(t)
  /\ UNCHANGED <<ctr, printed, mpc, mj, mres, countvars>>

-----------------------------------------------------------------------------
(* Mutant: the counter thread raising the quota without safe_signal. *)
TickNoSignal ==
  /\ ctr = "run"
  /\ limit' = IF Bandwidth > 0 /\ limit + Bandwidth <= LimitCap THEN limit + Bandwidth ELSE limit
  /\ ctr' = IF stop THEN "leaving" ELSE "run"
  /\ UNCHANGED <<queue, pc, idx, tres, stop, bytes, printed, mpc, mj, mres, failed>>

(* counter_thread_func, one iteration after its sleep, under the lock:     *)
(* raise the quota, signal bandwidth_cond (waking one waiter, if any), and *)
(* leave the loop if stop was set.                                         *)
Wake ==
  \/ /\ \A t \in Threads : pc[t] # "wait"
     /\ UNCHANGED pc
  \/ \E t \in Threads :
       /\ pc[t] = "wait"
       /\ pc' = [pc EXCEPT ![t] = "throttle"]

(* Mutant: the counter thread leaving its loop without looking at stop. *)
TickNoStopCheck ==
  /\ ctr = "run"
  /\ IF Bandwidth > 0
     THEN /\ limit' = IF limit + Bandwidth > LimitCap THEN LimitCap ELSE limit + Bandwidth
          /\ Wake
     ELSE UNCHANGED <<limit, pc>>
  /\ ctr' = "leaving"
  /\ UNCHANGED <<queue, idx, tres, stop, bytes, printed, mpc, mj, mres, failed>>

Tick ==
  /\ ctr = "run"
  /\ IF Bandwidth > 0
     THEN /\ limit' = IF limit + Bandwidth > LimitCap THEN LimitCap ELSE limit + Bandwidth
          /\ Wake
     ELSE UNCHANGED <<limit, pc>>
  /\ ctr' = IF stop THEN "leaving" ELSE "run"
  /\ UNCHANGED <<queue, idx, tres, stop, bytes, printed, mpc, mj, mres, failed>>

(* Out of the loop: the counter thread loads rec_count_total and           *)
(* byte_count_total, prints the summary and the CDT statistics, and        *)
(* returns.  Workers that passed the stop check of scan_callback may still *)
(* be writing.                                                             *)
Summary ==
  /\ ctr = "leaving"
  /\ printed' = bytes
  /\ ctr' = "done"
  /\ UNCHANGED <<queue, pc, idx, tres, stop, bytes, limit, mpc, mj, mres, failed>>

CounterThread == (Tick \/ Summary) /\ UNCHANGED countvars

(* sig_hand *)
Interrupt ==
  /\ ~stop /\ mpc # "done"
  /\ stop' = TRUE
  /\ UNCHANGED <<queue, pc, idx, tres, bytes, limit,
                 ctr, printed, mpc, mj, mres, failed, countvars>>

-----------------------------------------------------------------------------
(* main *)

(* get_object_count, one node or the return at a time. *)
Count ==
  /\ mpc = "count"
  /\ CountNode \/ Return
  /\ UNCHANGED <<queue, pc, idx, tres, stop, bytes, limit,
                 ctr, printed, mpc, mj, mres, failed, nok>>

(* main after the count, up to res = EXIT_SUCCESS: a failed count, a       *)
(* failed clean_directory or clean_output_file, or a counter thread that   *)
(* cannot be created ends main at cleanup5; once the counter thread runs,  *)
(* a failure to allocate the job queue, open the shared file or push a     *)
(* job leads to cleanup6 (set stop, join the counter thread).  Otherwise   *)
(* the workers are created, the first n of them if pthread_create fails    *)
(* for the next, and res is success only if all were.                      *)
Start ==
  /\ mpc = "count" /\ ocres # "run"
  /\ \E cleaned, ctrok, setup \in BOOLEAN, n \in 0 .. NThreads :
       IF ocres = "fail" \/ ~cleaned \/ ~ctrok
       THEN mpc' = "done" /\ UNCHANGED <<queue, pc, stop, ctr, mres, nok>>
       ELSE /\ ctr' = "run"
            /\ IF ~setup
               THEN stop' = TRUE /\ mpc' = "joinctr" /\ UNCHANGED <<queue, pc, mres, nok>>
               ELSE /\ queue' = NNodes
                    /\ nok' = n
                    /\ pc' = [t \in Threads |-> IF t <= n THEN "loop" ELSE "none"]
                    /\ mres' = IF n = NThreads THEN SUCCESS ELSE FAILURE
                    /\ mpc' = "join"
                    /\ UNCHANGED stop
  /\ UNCHANGED <<idx, tres, bytes, limit, printed, mj, failed,
                 ci, nsctx, total, ocres, estimate, got>>

(* From cleanup9 on. *)

(* Mutant: main not looking at the joined worker's result. *)
JoinWorkerIgnoresRes ==
  /\ mpc = "join" /\ mj \in 1 .. nok
  /\ pc[mj] = "exit"
  /\ mj' = mj + 1
  /\ UNCHANGED <<queue, pc, idx, tres, stop, bytes, limit, ctr, printed, mpc, mres, failed>>

(* safe_join of worker mj returns: a result other than success makes the   *)
(* exit status failure.                                                    *)
JoinWorker ==
  /\ mpc = "join" /\ mj \in 1 .. nok
  /\ pc[mj] = "exit"
  /\ mres' = IF tres[mj] # SUCCESS THEN FAILURE ELSE mres
  /\ mj' = mj + 1
  /\ UNCHANGED <<queue, pc, idx, tres, stop, bytes, limit,
                 ctr, printed, mpc, failed>>

(* safe_join gives up on a worker still running four 5 s timeouts after   *)
(* stop: a stuck thread, the exit status is failure and stop is set.  A    *)
(* worker that can run reaches the exit within that time; the one that     *)
(* cannot is waiting on bandwidth_cond after the counter thread, the only  *)
(* signaller, has left.                                                    *)
JoinTimeout ==
  /\ mpc = "join" /\ mj \in 1 .. nok
  /\ stop /\ pc[mj] = "wait" /\ ctr # "run"
  /\ mres' = FAILURE
  /\ mj' = mj + 1
  /\ UNCHANGED <<queue, pc, idx, tres, stop, bytes, limit,
                 ctr, printed, mpc, failed>>

(* cleanup6: all workers joined, set stop. *)
StopCounter ==
  /\ mpc = "join" /\ mj = nok + 1
  /\ stop' = TRUE
  /\ mpc' = "joinctr"
  /\ UNCHANGED <<queue, pc, idx, tres, bytes, limit,
                 ctr, printed, mj, mres, failed>>

JoinCounter ==
  /\ mpc = "joinctr" /\ ctr = "done"
  /\ mpc' = "done"
  /\ UNCHANGED <<queue, pc, idx, tres, stop, bytes, limit,
                 ctr, printed, mj, mres, failed>>

Main == (JoinWorker \/ JoinTimeout \/ StopCounter \/ JoinCounter) /\ UNCHANGED countvars

(* The process has exited. *)
Exited == mpc = "done" /\ UNCHANGED vars

Next ==
  \/ Count \/ Start
  \/ \E t \in Threads : Worker(t) \/ ScanError(t)
  \/ CounterThread \/ Interrupt \/ Main
  \/ Exited

Fairness ==
  /\ \A t \in Threads : WF_vars(Worker(t))
  /\ WF_vars(CounterThread)
  /\ WF_vars(Count \/ Start \/ Main)

Spec == Init /\ [][Next]_vars /\ Fairness

-----------------------------------------------------------------------------
(* Properties *)

TypeOK ==
  /\ queue \in 0 .. NNodes /\ failed \in BOOLEAN
  /\ pc \in [Threads -> {"none", "loop", "pop", "scan", "check", "throttle", "wait", "close", "exit"}]
  /\ idx \in [Threads -> 0 .. Recs]
  /\ tres \in [Threads -> {SUCCESS, FAILURE}] /\ mres \in {SUCCESS, FAILURE}
  /\ stop \in BOOLEAN
  /\ bytes \in Nat /\ limit \in Nat
  /\ ctr \in {"none", "run", "leaving", "done"} /\ printed \in Nat
  /\ mpc \in {"count", "join", "joinctr", "done"}
  /\ mj \in 1 .. NThreads + 1 /\ nok \in 0 .. NThreads
  /\ ci \in 1 .. NNodes + 1 /\ ocres \in {"run", "ok", "fail"} /\ estimate \in Nat

(* The bandwidth gate of scan_callback: the bytes written never reach the   *)
(* quota plus one record per worker.  A worker writes before it checks the *)
(* quota, so each may overshoot by one record, and no more.                *)
ThrottleBound ==
  Bandwidth > 0 => bytes < limit + NThreads

(* An exit status of success means every job was taken and every worker    *)
(* returned success: main's safe_join loop lets no stuck or failed worker   *)
(* through.                                                                *)
SuccessMeansAllJoined ==
  mpc = "done" /\ mres = SUCCESS =>
    queue = 0 /\ \A t \in Threads : pc[t] = "exit" /\ tres[t] = SUCCESS

(* The summary of a successful run is final: the counter thread leaves its *)
(* loop only once stop is set, and on a successful run that is main's set *)
(* after every worker was joined, so the byte count it prints is the one   *)
(* the run ends with.                                                      *)
SummaryExactOnSuccess ==
  mpc = "done" /\ mres = SUCCESS => printed = bytes

(* On a run cut short by a signal or a failed worker, the summary misses   *)
(* at most one record per worker: only a worker past the stop check of     *)
(* scan_callback writes after stop, and a scan started after stop, from a  *)
(* stale read at the head of backup_thread_func's loop, writes nothing.    *)
SummaryStaleBound ==
  ctr = "done" => bytes <= printed + NThreads

(* The run ends: main gets past every safe_join and joins the counter      *)
(* thread, whether workers finish, fail, wait on the quota or get stuck.   *)
Termination == <>(mpc = "done")

(* spec.md 6: the exit status is success only if every worker completed    *)
(* without error; a node whose scan was cut short by a failed write or a   *)
(* scan error is an error.                                                 *)
SuccessMeansAllScanned ==
  mpc = "done" /\ mres = SUCCESS => ~failed

(* spec.md 3: once stop is set, every worker observes it and terminates,   *)
(* including one waiting on bandwidth_cond (a worker main never created   *)
(* has nothing to end).                                                    *)
StopEndsWorkers ==
  stop ~> mpc # "count" /\ \A t \in Threads : pc[t] \in {"none", "exit"}
=============================================================================
