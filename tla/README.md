# TLA+ models of the CDT validator and its pipelines

This directory holds TLA+ models of `src/src/backup.c` (the CDT
validation/repair tool) and `src/src/restore.c`, the TLC configurations that
check them, and `PROJECT.json`, which lists each model definition against the
source lines it translates, each run, mutant, finding and hazard.

## The system

The tool scans every node of an Aerospike cluster. Its parts:

| Part | Code | Role |
|---|---|---|
| CDT classifier | `cdt_need_fix`, `cdt_list_need_fix`, `cdt_map_need_fix`, `cdt_check_sz`, `cdt_check_set_cannotfix`, `cdt_map_dup_key_check`, `map_is_key`, `check_map_keys_internal` | Walks one list or map bin with a `msgpack_in` cursor. Decides if the bin is clean, needs an order fix and/or a padding fix, or is unfixable (non-storage, corrupt, duplicate key, invalid key). Fills a `cdt_fix` record and bumps `cdt_stats` counters. |
| CDT repair | `cdt_check`, `cdt_fix_list` | Classifies every bin of a record. For a list that needs a fix, either truncates the padding and puts the record, or clears the bin and re-appends its elements with ADD_UNIQUE into an ordered list. |
| Cluster object count | `get_object_count`, `ns_count_callback`, `set_count_callback` | Before the scan, main asks each node for its namespace statistics and, when a set is given, its set statistics. It adds up the object counts the callbacks parse and divides the sum by the replication factor. The result, `rec_count_estimate`, feeds the progress report and the disk-space estimate. A failed count ends main before any thread starts. |
| Scan pipeline | `main`, `backup_thread_func`, `scan_callback`, `counter_thread_func`, `safe_join`, `sig_hand` | Main starts the counter thread, pushes one job per node and starts `min(parallel, nodes)` workers. A worker pops jobs and runs a node scan. The scan calls `scan_callback` per record, which classifies and repairs, writes logged records to the backup file and waits on `bandwidth_cond` while the quota is used up. The counter thread raises the quota each second and signals. `stop` is the single cancellation flag. |
| Restore pipeline | `restore_thread_func`, `counter_thread_func`, `sig_hand`, `main` in `restore.c` | Main pushes one job per backup file (directory mode) or one identical job per thread sharing one open file (single-file mode). A worker reads records with the decoder (under `safe_lock` in single-file mode) and stores each with a retry loop that classifies the put result: fatal, record error, generation conflict, already exists, success, transient. It bumps the outcome counters and `total_records`, then waits on `limit_cond` while the records reach the quota. The counter thread raises the quota each second and signals. Main joins the workers with a blocking `pthread_join`. |
| Quota arithmetic | the `bandwidth * 1000 / ms` raise in both `counter_thread_func`s | Each iteration of the counter thread raises the quota by an amount computed from the iteration's length `ms`. |
| Not modelled | option parsing, TLS, file and directory handling, the record encoder/decoder, progress output and the summary's format, `get_info` (outside this repository) | Sequential I/O and formatting. Where their success matters to the pipeline it is a nondeterministic choice. |

The parts interact as follows:
- The object count decides whether main starts the scan at all.
- The classifier's verdict decides what `cdt_check` returns.
- That result decides whether `scan_callback` writes the record.
- Write failures and `stop` decide how the workers end.
- The workers' ends decide main's exit status.

## Modules

| Module | Models | State and actions |
|---|---|---|
| `CdtEncoding` | the bin encoding and the `msgpack_in` cursor (`msgpack_sz`, `msgpack_sz_rep`, `msgpack_cmp`), plus `map_is_key` and `check_map_keys_internal` | Pure operators. A bin is `[kind, hdr, count, body]`, with one token per MessagePack value. |
| `CdtClassify` | the classifier | One operator per C function or loop. Recursive operators replace the C loops (`ListLoop`, `MapLoop`, `ListKeysWalk`, `MapKeysWalk`). Every early return is a branch. Each operator returns `[need, cf, incr]`: the C return value, the `cdt_fix` it fills, and the set of counters it increments. |
| `CdtRecord` | `cdt_check`'s loop over the `NBins` bins of one record, `cdt_fix_list` on each list needing a fix, then the next run's check of every bin counted fixed | Variables: `input` (the scanned bins), `rec` (the local `as_record`), `store` (the server's copy), `ck` (`check_map_keys`), `i` (the loop index), `phase`, `res`, `res2` (the next run's verdicts), `fixc`, `log` (`need_log`). Actions: `Check` (one loop iteration) and `Fix` (the call of `cdt_fix_list`). `Fix` takes one of two paths: `FixPadding` truncates the local bin and puts the whole local record; `FixOrder` clears and re-appends the bin by operate, which may write its result into `rec`. Only a fix writes the store, so `Fix` also takes the next run's verdicts on the fixed bins (`Recheck`). `NextBin` advances the loop. `CdtFix` is `bc->cdt_fix`. |
| `MCCdtRecord` | the input bins | Every list body up to 4 tokens over all token kinds, and every map body up to 4 pairs over restricted key/value sets. A cut-short value appears only last and the extension only first. Every count up to the bound, and every header state. |
| `ScanPipeline` | the validation pipeline, from the object count on; extends `ObjectCount` | Variables: per-worker `pc`, `idx`, `tres`; shared `queue`, `stop`, `bytes`, `limit`, `failed`; the counter thread `ctr` and the byte count of its summary, `printed`; main's `mpc`, `mj`, `mres`, `nok` (`n_threads_ok`). Actions: `Loop`, `Pop`, `Callback` (the callback's `stop` check and end of scan), `CheckRecord` (`cdt_check`), `StoreRecord` (`put_record` of a logged record), `ScanError`, `Throttle`, `Close` per worker; `Tick` and `Summary` (counter); `Interrupt` (`sig_hand`); `Count` (`get_object_count`), `Start`, `JoinWorker`, `JoinTimeout`, `StopCounter`, `JoinCounter` (main). `Start` is main from the count's result to `res = EXIT_SUCCESS`. A failed count, clean-up or counter-thread creation ends main at `cleanup5`. A failed job-queue allocation, shared-file open or push leads to `cleanup6`, which sets stop and joins the counter thread. Otherwise main creates the first `n` workers, and `res` is success only if all were created. |
| `ObjectCount` | `get_object_count` and its two callbacks | Variables: `ci` (the loop index), `nsctx` (`ns_context`), `total` (`*obj_count`), `ocres` (the return value), `estimate` (`rec_count_estimate`), and `got`, a history of the replies that is not program state. `ns_count_callback` and `set_count_callback` are pure operators. `NsInfo` and `SetInfo` fold them over a reply as `get_info` does, stopping at the first failure. Actions: `CountNode` (one iteration of the loop over the nodes, with every failure path) and `Return`. `Reference` is the record count the replies add up to, computed independently. |
| `MCReplies` | the replies | A reply is a sequence of `[k, v]` items. Numbers are strings, parsed by `AtoI` (`better_atoi`), so that a count that does not parse can be sent. |
| `MCObjectCount` | bounds | `get_object_count` alone, over three nodes. |
| `MCScanPipeline` | bounds | See the run table. |
| `RestorePipeline` | the restore pipeline | Variables: per-worker `pc`, `file` (records left in its file), `tries`, `tres`; shared `queue`, `shared` (records left in the shared file), `stop`, `total`, `cnt` (the six outcome counters), `limit`; the counter thread `ctr` and the `total_records` of its SUMMARY line, `summary`; main's `mpc`, `mj`, `mres`. Actions: `Loop`, `Pop`, `Read`, `Put`, `Throttle`, `Close` per worker; `Tick`; `Interrupt`; `JoinWorker`, `Cleanup`, `JoinCounter`. `PutOutcome` is the switch on the put result. `Rec` instantiates `RestoreRecords` through a refinement mapping (below). |
| `RestoreRecords` | what a restore promises about its input's records (abstract) | Variables: `unread`, `storing`, `total`, `cnt`, `dropped`, `status`. Actions: `Take` (a record read and handed to the store), `Finish(o, fromStoring)` (a record finished with outcome `o`, or `"none"` if abandoned), `Drop(k)` (`k` records given up unread), `Exit(r)` (success only with nothing unread, dropped or finished without an outcome). |
| `QuotaRate` | the quota raise of both counter threads | Variables: `elapsed`, `limit`, `due` (the rate the option promises), `ctr`. Actions: `Tick` (an iteration of `ms` in `TickMs`, after which stop may end the loop), `Interrupted` (a signal cuts `sleep(1)` short; `sig_hand` has set stop, so the raise is still made and the loop ends), `Done`. `Raise` is the code's formula. |
| `MCQuotaRate` | bounds | Bandwidth 1000 B/s; iterations of 1, 1.5 and 2 s; cut short after 0 or 400 ms; 12 s. |
| `MCRestorePipeline` | bounds | See the run table. |

### How the token encoding stands for bytes

- A token is one MessagePack value:
  - a scalar `Vals` (with a rank in the store's order);
  - `Lst`, a nested container with valid keys;
  - `BadNest`, a nested container holding an invalid map key;
  - the non-storage sentinels `Wild` and `Inf`;
  - `Bad`, a value the buffer ends inside;
  - `Ext` and `ExtBad`, the ordered-collection extension and one cut short.
- Offsets and sizes count tokens. Bytes after the last declared element are padding.
- The header is `ok`, `short` (the count does not parse), or `other` (the first byte is not a list or map header).

### Assumptions about code outside this repository

`msgpack_in` comes from aerospike-common and is modelled from spec.md 4.1. These definitions are marked `spec_modelled` in `PROJECT.json`:
- `msgpack_sz` fails at the end of the buffer and on a cut-short value. It sets `has_nonstorage` when it crosses `Wild` or `Inf`.
- `msgpack_sz_rep(mp, n)` returns the bytes skipped, or 0 on failure. It also returns 0 when `n = 0`.
- `msgpack_cmp`:
  - A cursor at the end sorts first. The result is LESS if the left cursor is at the end, GREATER if the right one is, and END if both are. Neither cursor moves.
  - A cut-short value gives ERROR, and neither cursor moves.
  - `Wild` compares EQUAL to anything.
  - `Inf` is greater than anything but `Inf`.
  - Otherwise it compares by rank and moves both cursors.
- The server's list append-items with ADD_UNIQUE into an ordered list sorts and drops duplicates. It rejects the operation unless the packed list holds exactly `ele_count` storable values (`StoreAccepts`, `OrderedListOf`).
- `as_bytes_truncate(b, n)` drops `n` bytes from the end.
- `aerospike_key_operate(as, &err, NULL, &key, &ops, &rec)` may write the result bins of the operation into the local record `rec`, or leave it as it was (`OperatedRec`). A result bin is a non-CDT value (`OpResult`), so the loop skips it. `aerospike_key_put` writes every bin of the local record over the server's copy.

## Runs

| Run | Config | Expect | What it shows |
|---|---|---|---|
| cdt_bin | `MCCdtRecord.cfg` | pass | One-bin records over ~160k input bins × `check_map_keys` (310k states), see the list below. |
| cdt_ordered_map_dupkey | `MCCdtRecord_DupKeyAlwaysUnfixable.cfg` | violation | An ordered map with the extension pair and then `{b:a, b:a}`: its last pair repeats the previous key, the walk finds it at the last index, where the guard sends it to `msgpack_sz_rep(&mp, 0)`, and it is counted `cf_corrupt`, not `cf_dupkey` (backup.c:694). |
| cdt_truncated_ordered_list | `MCCdtRecord_CutShortNeverFixable.cfg` | violation | An ordered list declaring two elements with only one present is counted `need_fix/nf_order` (backup.c:842). |
| cdt_record_fix_undone | `MCCdtRecord_FixesStick.cfg` | violation | A record of two ordered lists (with the order extension): bin 1 `[b, a]` needs only an order fix, bin 2 `[a, b] + padding` needs only a padding fix. Bin 1 is fixed by operate, then bin 2's fix puts the whole local record, which still holds bin 1's unsorted bytes. Both are counted fixed, but the next run finds bin 1 out of order again (backup.c:920). |
| scan_pipeline | `MCScanPipeline.cfg` | pass | See the list below. |
| scan_failed_node_exit | `MCScanPipeline_SuccessMeansAllScanned.cfg` | violation | A node whose scan failed on a write or a scan error still lets main exit with success (backup.c:1228). |
| scan_lost_wakeup | `MCScanPipeline_StopEndsWorkers.cfg` | violation | When two workers wait on the quota and stop is set, the counter thread's last signal wakes one. The other waits until main's safe_join gives up on it (backup.c:1340). |
| restore_dir | `MCRestorePipeline_Dir.cfg` | pass | Directory mode, with signals and no throttle and one try per put: see the list below. |
| restore_single | `MCRestorePipeline_Single.cfg` | pass | Single-file mode with the throttle and `ignore_rec_error`, without signals: see the list below. |
| object_count_unknown_ns | `MCObjectCount_UnknownNamespaceFails.cfg` | violation | Node 1 knows the namespace; nodes 2 and 3 do not, and their replies carry neither `objects` nor a factor. `ns_context` is declared once before the loop, so the `factor == 0` check sees node 1's factor, and node 1's count is added twice more. The count succeeds with 3 records where the cluster has 1, instead of failing with "Invalid namespace" (backup.c:1854, 1867, 1875). |
| quota_rate_slow_ticks | `MCQuotaRate_QuotaNoSlower.cfg` | violation | An iteration of 1.5 s raises the quota by `bandwidth*1000/1500`, two thirds of the bandwidth, where 1.5 times it is due. The units are inverted, so a slow counter thread throttles the workers below the promised rate (backup.c:1337, restore.c:851). |
| restore_hang_on_stop | `MCRestorePipeline_Termination.cfg` | violation | Single-file mode with three workers, the throttle on and no signals. One worker's decoder error or failed put sets stop while the other two wait on `limit_cond`. The counter thread's last tick wakes one of them and exits. The other waits forever, and main's blocking `pthread_join` never returns (restore.c:855, 1802). No signal is needed, only a third worker. |

The cdt_bin run checks that:
- no fix is handed a non-storage value;
- ordered, well-formed lists get exactly the reference verdict (an order fix iff two neighbours descend, padding equal to the trailing length);
- a map is never order-fixed when it holds equal keys;
- every unfixable verdict is logged;
- a list counted fixed classifies clean on the next run (`FixesStick`); with one bin per record, nothing else writes it back.

The scan_pipeline run checks that:
- a successful object count is what the replies add up to (`EstimateMatchesReplies`). The replies vary the key names, put the set in another namespace next to ours, and include counts that do not parse and items without `=`;
- the bytes written stay below the quota plus one record per worker;
- a success exit means every job was taken and every worker was created and returned success;
- on success, the counter thread's summary prints the final byte count (`SummaryExactOnSuccess`);
- on a run cut short by a signal or a failure, the summary misses at most one record per worker (`SummaryStaleBound`), and the bound is tight. It also holds for the worker that read `stop` just before it was set and starts one more scan (backup.c:1165): that scan writes nothing;
- the run always terminates, whichever of main's setup steps fails.

The restore runs check that:
- the pipeline implements `RestoreRecords` (`RestoreRefines`, in restore_single and restore_dir). The refinement mapping:
  - `unread` is the records of the jobs left on the queue plus those left in the files open in a worker (directory mode), or those left in the shared file (single-file mode);
  - `storing` is the workers in the retry loop;
  - `dropped` is every record of the input that is neither unread, nor being stored, nor finished;
  - `status` is main's result once it is done.

  So every step of the code is a step of the abstract spec: an expired or skipped record is a `Finish` straight from `unread`; a decoder error, a file closed early on stop, and a failed open are a `Drop`; a put result is a `Finish` from `storing`. Exiting with success then needs every record read and `total_records` equal to the sum of the six outcome counters. A record abandoned by the retry loop (fatal error, retries exhausted, stop) therefore fails the run;
- with the throttle on, the records stay below the quota plus one per worker;
- the SUMMARY line, written in the iteration whose `last_iter` saw stop before main joined the workers, misses at most one record per worker (`SummaryStaleBound`, restore_dir). spec.md 7 calls the summary the single source of truth, so it can be short by up to one record per worker; the bound is tight;
- without the throttle the run always terminates (`Termination`, restore_dir, where `Bandwidth = 0`). With the throttle on it does not: restore_hang_on_stop. restore_single does not check `Termination`. With its two workers, the worker that sets stop is never itself waiting, so two waiters and a lost wakeup cannot happen there, and a pass would only reflect the bound.

Each property of a passing run has a mutant in `PROJECT.json`: an operator placed before the definition it replaces, modelling a plausible bug. TLC finds each one violated.

### Bounds

- **CdtRecord.** In the pass run a record has one bin (`NBins = 1`), so every input bin is checked and fixed on its own. Lists of up to 4 tokens reach an ordered list with an extension and three elements: a descent in the middle, then a tail to validate, and padding after it. Maps of up to 4 pairs reach an ordered map with an extension pair and three real pairs, the shortest one where the map walk gets past its first comparison. Two scalar values suffice for descents and equal keys. `Lst` and `BadNest` exercise the container rank and the key checks. The fix_undone run takes two bins over three short lists with an extension (sorted, unsorted, sorted with padding). That is the fewest needed for one bin to need only an order fix and a later one only a padding fix. Larger `NBins` over the full input set multiplies the ~160k inputs and is out of reach.
- **ScanPipeline.**
  - Three nodes and two workers, so a worker takes a second job and two workers can wait on the quota at once.
  - Two records per node, so a worker writes, waits, and writes again within a scan.
  - A quota of one record per tick, so every write reaches it.
  - The quota is capped at `LimitCap` (bandwidth plus all records). Raising it further changes no waiting decision.
  - The count before the scan uses the replies of `MCReplies` that know the namespace, and the set `s`. The two entries of `s` in namespace `test` both hold 2 objects, so every successful count gives the same estimate and the scan's state space is not multiplied. A callback that counts `s` in the other namespace, or a count without the division, still changes the result.
- **ObjectCount.** Three nodes. One node cannot show the stale `ns_context`; two can, and the third adds the stale count once more. The namespace replies hold the factor under both key names, a count that does not parse, and an unknown namespace.
  - A record is one byte. Which node a worker scans is left out: nothing depends on it, so the queue is a count.
- **RestorePipeline.**
  - Directory mode: three files of two records and two threads, so a worker takes a second file while the other is still storing. Open, close and decoder failures and every put result are possible.
  - Single-file mode: two threads share a file of three records, so both read from it in turn. The quota is one record per tick, so two workers can wait at once.
  - `MAX_TRIES` is 2 in single-file mode, which reaches both a retry and an exhausted retry loop. It is 1 in directory mode: there a transient error exhausts the loop at once. This keeps the run with the refinement and `Termination` under two minutes.
  - The hang run has three workers sharing a file of three records, one try per put and no signals. Three workers are the fewest in which two wait on the quota while the third fails and sets stop.
  - The quota is capped at the bandwidth plus all records.
- **QuotaRate.** 1000 B/s makes the reference exact in bytes. An iteration lasts at least the `sleep(1)`. Only a signal, caught by `sig_hand` in the counter thread, cuts it short, and then stop is set. Slower iterations of 1.5 and 2 s stand for a loaded machine or slow progress output. Twelve seconds allow several slow iterations in a row.

### Fairness

The scan pipeline assumes weak fairness:
- for each worker, because the OS schedules every runnable thread;
- for the counter thread's `Tick`, because it loops on `sleep(1)`;
- for main: its steps are the count, the start and the joins.

The restore pipeline assumes the same fairness, for the same reasons: for each worker, for `Tick` and for main. Main's `pthread_join` has no timeout, so there is no `JoinTimeout` action.

There is no fairness for:
- `Interrupt`: a signal need never come;
- `ScanError`: a node need never fail.

`JoinTimeout` is enabled only for a worker that can no longer run: one waiting on `bandwidth_cond` after the counter thread, the only signaller, has left. Any other worker reaches its exit well within safe_join's four 5-second timeouts.

## Plan

Order of work:
1. `CdtEncoding`, `CdtClassify`, `CdtBin` (done; `CdtBin` later became `CdtRecord`).
2. `ScanPipeline` (done).
3. `RestorePipeline` (done).
4. `QuotaRate`, the staleness of restore's SUMMARY line, and `RestoreRecords` with its refinement (done).
5. An abstract specification of one bin's verdict (clean / fixable / unfixable with cause), with `CdtClassify` shown to implement it by a refinement mapping.
6. `CdtRecord`: several bins of one record in `cdt_check`, including the record put after a padding fix and the operate result replacing the record (done).
7. `ObjectCount` composed into main's start-up, and the counter thread's summary in `ScanPipeline` (done).

## What is not modelled, and why

- Time in the pipelines. There, each tick raises the quota by the bandwidth, which is the code's value for an iteration of exactly one second. `QuotaRate` checks the formula over iterations of other lengths on its own.
- The record written to the backup file and its encoding. In `ScanPipeline`, the file switch and `put_record` are one success-or-failure choice. `CdtRecord` keeps the local record `rec` that `scan_callback` then writes. The truncated bin that stays in `rec` after a failed put drops only bytes past the declared elements, so no property separates it from the scanned bin. `aerospike_key_operate` comes from outside this repository: whether it writes its result bins into `rec` is a nondeterministic choice (`OperatedRec`), with the result as a non-CDT bin.
- The quota's upper bound in `QuotaRate`. The formula's inverted units are what `quota_rate_slow_ticks` shows; that the quota never runs ahead of its due follows from the same arithmetic, so it has no run of its own.
- `rec_count_checked` and `rec_count_total`: they only feed progress output.
- A count whose nodes report different replication factors. The code divides the sum by the last node's factor. The right answer during a factor change is not defined, so the replies share one factor.
- The scan of a node after stop. A worker that read `stop` just before it was set still pops a job and starts one scan (backup.c:1165). The model allows this interleaving. The scan ends at its first callback, so `SummaryStaleBound` covers it; no property forbids the request itself.
- A list or map bin whose first byte is not a list or map header. `cdt_need_fix` leaves it unclassified and uncounted (backup.c:901), where spec.md 4.4 step 1 says corrupt. `MCCdtRecord` inputs include such headers, but a single unit test reaches this, so no run checks it.
- The overrun branches of `cdt_check_sz` (backup.c:500) and of the list out-of-order branch (864). They count `cannot_fix` without setting `need_log`, but under the bounds-checked `msgpack_in` cursor of spec.md 4.1 the offset never passes the buffer's size, so they cannot be reached. The model keeps them, but no hazard or property is about them.
- A failing `pthread_join`: it fails only for an invalid or self-joined thread, which main never passes.
- In restore: `bytes_limit` (it grows and is tested like `records_limit`), the backoff sleeps and `backoff_count`, `cdt_print` mode, and the progress output. The SUMMARY line is reduced to the `total_records` it reports.
- Progress and summary printing, option parsing, TLS, file and directory management, and the encoder/decoder.
