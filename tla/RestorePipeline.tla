--------------------------- MODULE RestorePipeline ---------------------------
(***************************************************************************)
(* The correction (restore) pipeline of src/src/restore.c.  main pushes    *)
(* one job per backup file (directory mode) or one identical job per       *)
(* thread sharing one open file (single-file mode), starts the workers     *)
(* (restore_thread_func) and the counter thread (counter_thread_func),     *)
(* joins the workers with a blocking pthread_join, closes the shared file, *)
(* sets stop and joins the counter thread.  A worker reads records with    *)
(* the decoder and stores each with a retry loop that classifies the       *)
(* result of aerospike_key_put.  The signal handler sets stop at any time. *)
(*                                                                         *)
(* A file is the number of records left in it; what the decoder makes of  *)
(* a record (expired, skipped by set or empty, to be stored) and what the  *)
(* store answers are nondeterministic choices.  The two transient error    *)
(* classes differ only in how long the thread sleeps, so they are one.     *)
(* The throttle is modelled on records_limit; bytes_limit grows and is     *)
(* tested the same way.                                                    *)
(***************************************************************************)
EXTENDS Naturals, FiniteSets
LOCAL INSTANCE Functions

CONSTANTS
  NFiles,      \* backup files found in the directory (directory mode)
  Threads0,    \* restore_config.threads as given
  FileRecs,    \* records in each backup file
  MaxTries,    \* MAX_TRIES
  Bandwidth,   \* the quota added per second; 0: bandwidth or tps is 0, no throttling
  SingleFile,  \* TRUE: restore_config.input_file is set
  IgnoreRecError, \* restore_config.ignore_rec_error
  Interrupts   \* whether SIGINT/SIGTERM may arrive

ASSUME /\ NFiles >= 1 /\ Threads0 >= 1 /\ FileRecs \in Nat /\ MaxTries >= 1
       /\ Bandwidth \in Nat
       /\ {SingleFile, IgnoreRecError, Interrupts} \subseteq BOOLEAN

(* main lowers the thread count to the number of files in directory mode   *)
(* only; in single-file mode it pushes one job per thread.                 *)
NThreads == IF ~SingleFile /\ NFiles < Threads0 THEN NFiles ELSE Threads0
Threads  == 1 .. NThreads
NJobs    == IF SingleFile THEN NThreads ELSE NFiles
AllRecs  == IF SingleFile THEN FileRecs ELSE NFiles * FileRecs

LimitCap == Bandwidth + AllRecs

SUCCESS == "EXIT_SUCCESS"
FAILURE == "EXIT_FAILURE"

(* The counters of restore_config the workers bump for a record. *)
Outcomes == {"expired", "skipped", "ignored", "inserted", "existed", "fresher"}

(* What aerospike_key_put returns, by the class the retry loop gives it.   *)
PutResults == {"fatal", "recerr", "gen", "exists", "ok", "transient"}

VARIABLES
  queue,   \* jobs left on job_queue
  pc,      \* "loop", "pop", "read", "put", "throttle", "wait", "close", "exit"
  file,    \* records left in the file each worker opened (directory mode)
  shared,  \* records left in the shared file (single-file mode)
  tries,   \* the retry loop's tries for the record being stored
  tres,    \* each worker's return value
  stop,    \* the global stop flag
  total,   \* total_records
  cnt,     \* expired_records, skipped_records, ... by name
  limit,   \* records_limit
  ctr,     \* the counter thread: "run" or "done"
  summary, \* total_records as the counter thread's SUMMARY line reports it
  mpc,     \* main: "join", "cleanup", "joinctr" or "done"
  mj,      \* the worker main joins next
  mres     \* main's res, the exit status

vars == <<queue, pc, file, shared, tries, tres, stop, total, cnt, limit,
          ctr, summary, mpc, mj, mres>>

Init ==
  /\ queue = NJobs
  /\ pc = [t \in Threads |-> "loop"]
  /\ file = [t \in Threads |-> 0]
  /\ shared = IF SingleFile THEN FileRecs ELSE 0
  /\ tries = [t \in Threads |-> 0]
  /\ tres = [t \in Threads |-> FAILURE]
  /\ stop = FALSE
  /\ total = 0
  /\ cnt = [o \in Outcomes |-> 0]
  /\ limit = Bandwidth
  /\ ctr = "run" /\ summary = 0
  /\ mpc = "join" /\ mj = 1 /\ mres = SUCCESS

Goto(t, l) == pc' = [pc EXCEPT ![t] = l]

(* Leaving the outer loop: res is success only on an empty queue; any      *)
(* other result tells the other threads to stop.                           *)
Leave(t, r) ==
  /\ Goto(t, "exit")
  /\ tres' = [tres EXCEPT ![t] = r]
  /\ stop' = (stop \/ r # SUCCESS)

(* The record is finished: total_records is bumped, then the throttle.     *)
Finish(t) ==
  /\ total' = total + 1
  /\ Goto(t, IF Bandwidth > 0 THEN "throttle" ELSE "read")

Bump(o) == cnt' = [cnt EXCEPT ![o] = @ + 1]

Left(t) == IF SingleFile THEN shared ELSE file[t]
Consume(t) ==
  IF SingleFile THEN shared' = shared - 1 /\ UNCHANGED file
  ELSE file' = [file EXCEPT ![t] = @ - 1] /\ UNCHANGED shared

-----------------------------------------------------------------------------
(* restore_thread_func *)

(* The head of the outer loop: a set stop flag ends the thread.            *)
Loop(t) ==
  /\ pc[t] = "loop"
  /\ IF stop THEN Leave(t, FAILURE) ELSE Goto(t, "pop") /\ UNCHANGED <<tres, stop>>
  /\ UNCHANGED <<queue, file, shared, tries, total, cnt, limit>>

(* Mutant: a file that fails to open skipped, as if the job were done. *)
PopOpenFailSkipped(t) ==
  /\ pc[t] = "pop"
  /\ IF queue = 0 THEN Leave(t, SUCCESS) /\ UNCHANGED <<queue, file>>
     ELSE /\ queue' = queue - 1
          /\ file' = [file EXCEPT ![t] = IF SingleFile THEN 0 ELSE FileRecs]
          /\ \E opened \in {TRUE, SingleFile} :
               Goto(t, IF opened THEN "read" ELSE "loop") /\ UNCHANGED <<tres, stop>>
  /\ UNCHANGED <<shared, tries, total, cnt, limit>>

(* cf_queue_pop: an empty queue ends the thread with success.  In          *)
(* directory mode the job's file is opened, which may fail; in single-file *)
(* mode the worker takes the shared descriptor.                            *)
Pop(t) ==
  /\ pc[t] = "pop"
  /\ IF queue = 0 THEN Leave(t, SUCCESS) /\ UNCHANGED <<queue, file>>
     ELSE /\ queue' = queue - 1
          /\ file' = [file EXCEPT ![t] = IF SingleFile THEN 0 ELSE FileRecs]
          /\ \E opened \in {TRUE, SingleFile} :
               IF opened THEN Goto(t, "read") /\ UNCHANGED <<tres, stop>>
               ELSE Leave(t, FAILURE)
  /\ UNCHANGED <<shared, tries, total, cnt, limit>>

(* Mutant: the decoder reading past the end of the file. *)
ReadPastEnd(t) ==
  /\ pc[t] = "read"
  /\ \/ /\ stop \/ Left(t) = 0
        /\ Goto(t, "close")
        /\ UNCHANGED <<file, shared, stop, tries, total, cnt>>
     \/ /\ ~stop /\ Left(t) > 0
        /\ stop' = TRUE
        /\ Consume(t)
        /\ Goto(t, "close")
        /\ UNCHANGED <<tries, total, cnt>>
     \/ /\ ~stop /\ Left(t) >= 0
        /\ Consume(t)
        /\ \/ \E o \in {"expired", "skipped"} : Bump(o) /\ Finish(t)
                                                /\ UNCHANGED tries
           \/ Goto(t, "put") /\ tries' = [tries EXCEPT ![t] = 0]
                             /\ UNCHANGED <<total, cnt>>
        /\ UNCHANGED stop
  /\ UNCHANGED <<queue, tres, limit>>

(* Mutant: the read loop not looking at stop before the next record. *)
ReadNoStop(t) ==
  /\ pc[t] = "read"
  /\ \/ /\ Left(t) = 0
        /\ Goto(t, "close")
        /\ UNCHANGED <<file, shared, stop, tries, total, cnt>>
     \/ /\ ~stop /\ Left(t) > 0
        /\ stop' = TRUE
        /\ Consume(t)
        /\ Goto(t, "close")
        /\ UNCHANGED <<tries, total, cnt>>
     \/ /\ Left(t) > 0
        /\ Consume(t)
        /\ \/ \E o \in {"expired", "skipped"} : Bump(o) /\ Finish(t)
                                                /\ UNCHANGED tries
           \/ Goto(t, "put") /\ tries' = [tries EXCEPT ![t] = 0]
                             /\ UNCHANGED <<total, cnt>>
        /\ UNCHANGED stop
  /\ UNCHANGED <<queue, tres, limit>>

(* One iteration of the read loop, under safe_lock in single-file mode:    *)
(* stop ends the loop; otherwise the decoder reports end of file, an error *)
(* (which sets stop inside the critical section), or a record.  An expired *)
(* record and one with no bins or of an unselected set are counted and     *)
(* finished; any other goes to the retry loop.                             *)
Read(t) ==
  /\ pc[t] = "read"
  /\ \/ /\ stop \/ Left(t) = 0
        /\ Goto(t, "close")
        /\ UNCHANGED <<file, shared, stop, tries, total, cnt>>
     \/ /\ ~stop /\ Left(t) > 0
        /\ stop' = TRUE
        /\ Consume(t)
        /\ Goto(t, "close")
        /\ UNCHANGED <<tries, total, cnt>>
     \/ /\ ~stop /\ Left(t) > 0
        /\ Consume(t)
        /\ \/ \E o \in {"expired", "skipped"} : Bump(o) /\ Finish(t)
                                                /\ UNCHANGED tries
           \/ Goto(t, "put") /\ tries' = [tries EXCEPT ![t] = 0]
                             /\ UNCHANGED <<total, cnt>>
        /\ UNCHANGED stop
  /\ UNCHANGED <<queue, tres, limit>>

(* Mutant: an exhausted retry loop abandoning the record without stop. *)
PutOutcomeNoStop(t, r) ==
  CASE r = "fatal"  -> stop' = TRUE /\ UNCHANGED cnt /\ Finish(t)
    [] r = "recerr" -> stop' = (stop \/ ~IgnoreRecError) /\ Bump("ignored") /\ Finish(t)
    [] r = "gen"    -> Bump("fresher") /\ Finish(t) /\ UNCHANGED stop
    [] r = "exists" -> Bump("existed") /\ Finish(t) /\ UNCHANGED stop
    [] r = "ok"     -> Bump("inserted") /\ Finish(t) /\ UNCHANGED stop
    [] r = "transient" /\ tries[t] = MaxTries - 1 ->
                       UNCHANGED <<stop, cnt>> /\ Finish(t)
    [] OTHER        -> UNCHANGED <<stop, cnt, total, pc>>

(* The effect of one aerospike_key_put result on the retry loop.           *)
PutOutcome(t, r) ==
  CASE r = "fatal"  -> stop' = TRUE /\ UNCHANGED cnt /\ Finish(t)
    [] r = "recerr" -> stop' = (stop \/ ~IgnoreRecError) /\ Bump("ignored") /\ Finish(t)
    [] r = "gen"    -> Bump("fresher") /\ Finish(t) /\ UNCHANGED stop
    [] r = "exists" -> Bump("existed") /\ Finish(t) /\ UNCHANGED stop
    [] r = "ok"     -> Bump("inserted") /\ Finish(t) /\ UNCHANGED stop
    [] r = "transient" /\ tries[t] = MaxTries - 1 ->
                       stop' = TRUE /\ UNCHANGED cnt /\ Finish(t)
    [] OTHER        -> UNCHANGED <<stop, cnt, total, pc>>

(* The retry loop: for (tries = 0; tries < MAX_TRIES && !stop; ++tries).   *)
(* A set stop flag ends it before the put; otherwise the put's result is   *)
(* classified and a transient error is retried after a sleep.              *)
Put(t) ==
  /\ pc[t] = "put"
  /\ \/ /\ stop \/ tries[t] >= MaxTries
        /\ Finish(t)
        /\ UNCHANGED <<stop, cnt, tries>>
     \/ /\ ~stop /\ tries[t] < MaxTries
        /\ \E r \in PutResults : PutOutcome(t, r)
        /\ tries' = [tries EXCEPT ![t] = @ + 1]
  /\ UNCHANGED <<queue, file, shared, tres, limit>>

(* Mutant: waiting only once the quota is exceeded. *)
ThrottleStrict(t) ==
  /\ pc[t] = "throttle"
  /\ Goto(t, IF total > limit /\ ~stop THEN "wait" ELSE "read")
  /\ UNCHANGED <<queue, file, shared, tries, tres, stop, total, cnt, limit>>

(* The throttle after each record, under safe_lock: wait on limit_cond     *)
(* while the records reach the quota and stop is not set.                  *)
Throttle(t) ==
  /\ pc[t] = "throttle"
  /\ Goto(t, IF total >= limit /\ ~stop THEN "wait" ELSE "read")
  /\ UNCHANGED <<queue, file, shared, tries, tres, stop, total, cnt, limit>>

(* After the read loop: the file is closed in directory mode, which may    *)
(* fail and end the thread; the shared descriptor is left open.            *)
Close(t) ==
  /\ pc[t] = "close"
  /\ \E closed \in {TRUE, SingleFile} :
       IF closed THEN Goto(t, "loop") /\ UNCHANGED <<tres, stop>>
       ELSE Leave(t, FAILURE)
  /\ UNCHANGED <<queue, file, shared, tries, total, cnt, limit>>

Worker(t) ==
  /\ mpc # "done"
  /\ Loop(t) \/ Pop(t) \/ Read(t) \/ Put(t) \/ Throttle(t) \/ Close(t)
  /\ UNCHANGED <<ctr, summary, mpc, mj, mres>>

-----------------------------------------------------------------------------
(* counter_thread_func, one iteration after its sleep: last_iter is stop   *)
(* as read then; under the lock the quota is raised and limit_cond         *)
(* signalled (waking one waiter, if any); last_iter ends the loop after    *)
(* the counters read in this iteration are written as the SUMMARY line.    *)
Wake ==
  \/ /\ \A t \in Threads : pc[t] # "wait"
     /\ UNCHANGED pc
  \/ \E t \in Threads : pc[t] = "wait" /\ Goto(t, "throttle")

Tick ==
  /\ ctr = "run"
  /\ IF Bandwidth > 0
     THEN /\ limit' = IF limit + Bandwidth > LimitCap THEN LimitCap ELSE limit + Bandwidth
          /\ Wake
     ELSE UNCHANGED <<limit, pc>>
  /\ ctr' = IF stop THEN "done" ELSE "run"
  /\ summary' = IF stop THEN total ELSE summary
  /\ UNCHANGED <<queue, file, shared, tries, tres, stop, total, cnt, mpc, mj, mres>>

(* sig_hand *)
Interrupt ==
  /\ Interrupts /\ ~stop /\ mpc # "done"
  /\ stop' = TRUE
  /\ UNCHANGED <<queue, pc, file, shared, tries, tres, total, cnt, limit,
                 ctr, summary, mpc, mj, mres>>

-----------------------------------------------------------------------------
(* main, from cleanup10 on *)

(* pthread_join of worker mj returns once it has exited; a result other    *)
(* than success makes the exit status failure.                             *)
JoinWorker ==
  /\ mpc = "join" /\ mj \in Threads
  /\ pc[mj] = "exit"
  /\ mres' = IF tres[mj] # SUCCESS THEN FAILURE ELSE mres
  /\ mj' = mj + 1
  /\ UNCHANGED <<queue, pc, file, shared, tries, tres, stop, total, cnt, limit,
                 ctr, summary, mpc>>

(* Mutant: main joining the counter thread without setting stop. *)
CleanupNoStop ==
  /\ mpc = "join" /\ mj = NThreads + 1
  /\ \E closed \in {TRUE, ~SingleFile} :
       mres' = IF closed THEN mres ELSE FAILURE
  /\ mpc' = "joinctr"
  /\ UNCHANGED <<queue, pc, file, shared, tries, tres, stop, total, cnt, limit,
                 ctr, summary, mj>>

(* cleanup8 to cleanup5: close the shared file (single-file mode), which   *)
(* may fail, then set stop for the counter thread.                         *)
Cleanup ==
  /\ mpc = "join" /\ mj = NThreads + 1
  /\ \E closed \in {TRUE, ~SingleFile} :
       mres' = IF closed THEN mres ELSE FAILURE
  /\ stop' = TRUE
  /\ mpc' = "joinctr"
  /\ UNCHANGED <<queue, pc, file, shared, tries, tres, total, cnt, limit,
                 ctr, summary, mj>>

JoinCounter ==
  /\ mpc = "joinctr" /\ ctr = "done"
  /\ mpc' = "done"
  /\ UNCHANGED <<queue, pc, file, shared, tries, tres, stop, total, cnt, limit,
                 ctr, summary, mj, mres>>

Main == JoinWorker \/ Cleanup \/ JoinCounter

(* The process has exited. *)
Exited == mpc = "done" /\ UNCHANGED vars

Next ==
  \/ \E t \in Threads : Worker(t)
  \/ Tick \/ Interrupt \/ Main \/ Exited

Fairness ==
  /\ \A t \in Threads : WF_vars(Worker(t))
  /\ WF_vars(Tick)
  /\ WF_vars(Main)

Spec == Init /\ [][Next]_vars /\ Fairness

-----------------------------------------------------------------------------
(* Properties *)

TypeOK ==
  /\ queue \in 0 .. NJobs
  /\ pc \in [Threads -> {"loop", "pop", "read", "put", "throttle", "wait", "close", "exit"}]
  /\ file \in [Threads -> 0 .. FileRecs] /\ shared \in 0 .. FileRecs
  /\ tries \in [Threads -> 0 .. MaxTries]
  /\ tres \in [Threads -> {SUCCESS, FAILURE}] /\ mres \in {SUCCESS, FAILURE}
  /\ stop \in BOOLEAN
  /\ total \in Nat /\ cnt \in [Outcomes -> Nat] /\ limit \in Nat
  /\ ctr \in {"run", "done"} /\ summary \in Nat /\ mpc \in {"join", "joinctr", "done"}
  /\ mj \in 1 .. NThreads + 1

(* The records_limit gate: total_records never reaches the quota plus one   *)
(* record per worker, since a worker bumps the count before it checks it.  *)
ThrottleBound ==
  Bandwidth > 0 => total < limit + NThreads

(* The run ends: main joins every worker and the counter thread, whatever  *)
(* the workers meet (errors, retries, stop).  With the throttle on, the    *)
(* one safe_signal of the counter thread's last tick can leave a worker    *)
(* waiting on limit_cond, and main's pthread_join waits for it forever.    *)
Termination == <>(mpc = "done")

(* The SUMMARY line written in the counter thread's last iteration misses *)
(* at most one record per worker: the record loop of restore_thread_func  *)
(* looks at stop before each record, so after the counter thread saw stop  *)
(* a worker finishes at most the record it is already past that check in. *)
SummaryStaleBound ==
  ctr = "done" => total <= summary + NThreads

-----------------------------------------------------------------------------
(* The pipeline implements RestoreRecords.  The records still to be read   *)
(* are those of the jobs left on the queue and of the files open in a      *)
(* worker (directory mode), or those left in the shared file; a worker in  *)
(* the retry loop is storing one; whatever is neither unread, nor being    *)
(* stored, nor finished was given up.                                      *)
OpenFile(t) == pc[t] \in {"read", "put", "throttle", "wait"}
Unread  == IF SingleFile THEN shared
           ELSE queue * FileRecs + SumFunctionOnSet(file, {t \in Threads : OpenFile(t)})
Storing == Cardinality({t \in Threads : pc[t] = "put"})

Rec == INSTANCE RestoreRecords
         WITH N <- AllRecs, unread <- Unread, storing <- Storing,
              dropped <- AllRecs - Unread - Storing - total,
              status <- IF mpc = "done" THEN mres ELSE "running"

(* Every step of the workers and of main is a step of RestoreRecords: no   *)
(* record is read twice or counted twice, a counter moves only with a      *)
(* finished record, and an exit with success leaves no record unread,      *)
(* given up or finished without an outcome (spec.md 7: the summary is the  *)
(* single source of truth).                                                *)
RestoreRefines == Rec!Spec
====
