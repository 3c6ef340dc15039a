---------------------------- MODULE RestoreRecords ----------------------------
(***************************************************************************)
(* What a restore run promises about the records of its input, whatever    *)
(* the threads, files and retries: every record is read at most once; a   *)
(* record read is either finished, and then counted in total_records and  *)
(* in at most one outcome counter, or still being stored; a record never   *)
(* read is either still to be read or given up (its file closed early, or *)
(* the decoder failing on it).  The run exits with success only when no    *)
(* record is left, given up or finished without an outcome.                *)
(***************************************************************************)
EXTENDS Naturals
LOCAL INSTANCE Functions

CONSTANTS
  N,          \* the records of the input
  Outcomes,   \* the outcome counters
  SUCCESS, FAILURE

VARIABLES
  unread,     \* records not read yet that may still be read
  storing,    \* records read and not finished
  total,      \* records finished
  cnt,        \* records finished, by outcome
  dropped,    \* records given up without being read
  status      \* "running", SUCCESS or FAILURE

avars == <<unread, storing, total, cnt, dropped, status>>

(* The records counted in some outcome. *)
Counted == SumFunction(cnt)

Init ==
  /\ unread = N /\ storing = 0 /\ total = 0 /\ dropped = 0
  /\ cnt = [o \in Outcomes |-> 0]
  /\ status = "running"

(* A record is read and handed to the store. *)
Take ==
  /\ status = "running" /\ unread > 0
  /\ unread' = unread - 1 /\ storing' = storing + 1
  /\ UNCHANGED <<total, cnt, dropped, status>>

(* A record is finished with outcome o, or with none (abandoned), straight *)
(* after it was read or after it was stored.                               *)
Finish(o, fromStoring) ==
  /\ status = "running"
  /\ IF fromStoring THEN storing > 0 /\ storing' = storing - 1 /\ UNCHANGED unread
     ELSE unread > 0 /\ unread' = unread - 1 /\ UNCHANGED storing
  /\ total' = total + 1
  /\ cnt' = IF o \in Outcomes THEN [cnt EXCEPT ![o] = @ + 1] ELSE cnt
  /\ UNCHANGED <<dropped, status>>

(* k records are given up without being read. *)
Drop(k) ==
  /\ status = "running" /\ 0 < k /\ k <= unread
  /\ unread' = unread - k /\ dropped' = dropped + k
  /\ UNCHANGED <<storing, total, cnt, status>>

(* The run exits once nothing is being stored; success only with every     *)
(* record read and counted in an outcome.                                  *)
Exit(r) ==
  /\ status = "running" /\ storing = 0
  /\ r = SUCCESS => unread = 0 /\ dropped = 0 /\ Counted = total
  /\ status' = r
  /\ UNCHANGED <<unread, storing, total, cnt, dropped>>

Next ==
  \/ Take
  \/ \E o \in Outcomes \cup {"none"}, fromStoring \in BOOLEAN : Finish(o, fromStoring)
  \/ \E k \in 1 .. N : Drop(k)
  \/ \E r \in {SUCCESS, FAILURE} : Exit(r)

Spec == Init /\ [][Next]_avars
=============================================================================
