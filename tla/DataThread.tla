----------------------------- MODULE DataThread -----------------------------
(***************************************************************************)
(* The data threads of src/server/data_thread.c: each thread pops all the *)
(* records of its queue at once (fc_queue_pop_all), then walks the list,  *)
(* passing each record to deal_update_record or deal_query_record.  All   *)
(* threads share the data-version counter DATA_CURRENT_VERSION: a         *)
(* successful update without a version takes the next one               *)
(* (__sync_add_and_fetch); a record that arrives with a version (binlog   *)
(* replay, replication) raises the counter to it by one load and one      *)
(* compare-and-swap, which are two steps other threads interleave with.   *)
(*                                                                         *)
(* What the tree operation does is DentryTree's; here its outcome is a    *)
(* choice among success, the operation's ignorable errno (EEXIST,         *)
(* ENOENT, ENODATA) and any other error.  Records are submitted by the    *)
(* service and replication handlers (outside this repository): a service  *)
(* update carries no version, a replicated one the next binlog version.   *)
(***************************************************************************)
EXTENDS Integers, Sequences, FiniteSets

CONSTANTS
  Threads,         \* the data threads
  Sources,         \* {"service"} on a master, {"replica"} on a follower
  SubmitKinds,     \* the kinds of records submitted: updates, queries
  Loose,          \* g_data_thread_vars.error_mode = FDIR_DATA_ERROR_MODE_LOOSE
  StorageEnabled,  \* STORAGE_ENABLED
  MaxRecords       \* bound on the records submitted

ASSUME Sources \subseteq {"service", "replica"} /\ Sources # {}
ASSUME SubmitKinds \subseteq {"update", "query"} /\ SubmitKinds # {}

VARIABLES
  queue,        \* thread_ctx->queue: record ids, oldest first
  batch,        \* the list the thread popped and is walking
  pc,           \* "loop", or "cas" between the load and the CAS
  old,          \* old_version, loaded before the CAS
  cur,          \* the record between the load and the CAS
  current,      \* DATA_CURRENT_VERSION
  lastVersion,  \* thread_ctx->DATA_THREAD_LAST_VERSION
  recs,         \* the records submitted so far, by id
  nextReplica,  \* the binlog version of the next replicated record
  crashed       \* the process died (SIGSEGV)

vars == <<queue, batch, pc, old, cur, current, lastVersion, recs, nextReplica, crashed>>

Kinds == {"update", "query"}
Results == {"none", "ok", "ignored", "failed"}

\* FDIRBinlogRecord, as far as the thread loop and versioning read it
Record == [kind : Kinds, home : Threads, dv : Nat,
           handled : {"none", "update", "query"}, result : Results,
           isError : BOOLEAN, done : BOOLEAN]

TypeOK ==
  /\ queue \in [Threads -> Seq(1..MaxRecords)]
  /\ batch \in [Threads -> Seq(1..MaxRecords)]
  /\ pc \in [Threads -> {"loop", "cas"}]
  /\ old \in [Threads -> Nat]
  /\ cur \in [Threads -> 0..MaxRecords]
  /\ current \in Nat
  /\ lastVersion \in [Threads -> Nat]
  /\ recs \in Seq(Record) /\ Len(recs) <= MaxRecords
  /\ nextReplica \in Nat
  /\ crashed \in BOOLEAN

Init ==
  /\ queue = [t \in Threads |-> <<>>]
  /\ batch = [t \in Threads |-> <<>>]
  /\ pc = [t \in Threads |-> "loop"]
  /\ old = [t \in Threads |-> 0]
  /\ cur = [t \in Threads |-> 0]
  /\ current = 0
  /\ lastVersion = [t \in Threads |-> 0]
  /\ recs = <<>>
  /\ nextReplica = 1
  /\ crashed = FALSE

\* notify.func is called for the record, after the thread's last version
\* followed a successful update (rd: the records with r's outcome set)
Finish(t, r, rd) ==
  /\ recs' = [rd EXCEPT ![r].done = TRUE]
  /\ lastVersion' = IF rd[r].result = "ok" /\ StorageEnabled /\ rd[r].dv > lastVersion[t]
                    THEN [lastVersion EXCEPT ![t] = rd[r].dv] ELSE lastVersion

\* deal_update_record, from the tree operation's outcome res up to the
\* load of DATA_CURRENT_VERSION; a record whose version is above the
\* loaded one stops before the CAS.  A query record has no case of its
\* own: the default branch sets result 0.
DealUpdate(t, r, res) ==
  LET fresh == res = "ok" /\ recs[r].dv = 0
      err == res # "ok" /\ ~(res = "ignored" /\ Loose)
      raise == recs[r].dv > 0 /\ ~err /\ recs[r].dv > current
      rd == [recs EXCEPT ![r].handled = "update", ![r].result = res, ![r].isError = err,
                         ![r].dv = IF fresh THEN current + 1 ELSE @]
  IN
  /\ current' = IF fresh THEN current + 1 ELSE current
  /\ IF raise
     THEN /\ pc' = [pc EXCEPT ![t] = "cas"]
          /\ old' = [old EXCEPT ![t] = current]
          /\ cur' = [cur EXCEPT ![t] = r]
          /\ recs' = rd
          /\ UNCHANGED lastVersion
     ELSE /\ Finish(t, r, rd)
          /\ UNCHANGED <<pc, old, cur>>

\* deal_query_record: a query finds its dentry or not; an update record
\* is no query operation and fails with EPROTONOSUPPORT
DealQuery(t, r, res) ==
  /\ recs[r].kind = "update" => res = "failed"
  /\ Finish(t, r, [recs EXCEPT ![r].handled = "query", ![r].result = res,
                               ![r].isError = (res # "ok")])
  /\ UNCHANGED <<current, pc, old, cur>>

-----------------------------------------------------------------------------

\* a service or replication handler submits a record to the thread of its
\* hash code; only a replicated update carries a version
Submit(t, k, src) ==
  /\ ~crashed
  /\ Len(recs) < MaxRecords
  /\ recs' = Append(recs, [kind |-> k, home |-> t, handled |-> "none", result |-> "none",
                           isError |-> FALSE, done |-> FALSE,
                           dv |-> IF k = "update" /\ src = "replica" THEN nextReplica ELSE 0])
  /\ nextReplica' = IF k = "update" /\ src = "replica" THEN nextReplica + 1 ELSE nextReplica
  /\ queue' = [queue EXCEPT ![t] = Append(@, Len(recs) + 1)]
  /\ UNCHANGED <<batch, pc, old, cur, current, lastVersion, crashed>>

\* fc_queue_pop_all: the thread takes the whole queue
PopAll(t) ==
  /\ ~crashed
  /\ batch[t] = <<>> /\ queue[t] # <<>>
  /\ batch' = [batch EXCEPT ![t] = queue[t]]
  /\ queue' = [queue EXCEPT ![t] = <<>>]
  /\ UNCHANGED <<pc, old, cur, current, lastVersion, recs, nextReplica, crashed>>

\* one turn of the do-while of data_thread_func: record = record->next is
\* read before the dispatch, so a record is dispatched by the kind of the
\* NEXT record, and at the last record is_update is read through NULL
Step(t) ==
  LET r == Head(batch[t]) IN
  /\ ~crashed
  /\ pc[t] = "loop" /\ batch[t] # <<>>
  /\ IF Len(batch[t]) = 1
     THEN /\ crashed' = TRUE
          /\ UNCHANGED <<batch, pc, old, cur, current, lastVersion, recs>>
     ELSE /\ batch' = [batch EXCEPT ![t] = Tail(@)]
          /\ UNCHANGED crashed
          /\ IF recs[batch[t][2]].kind = "update"
             THEN IF recs[r].kind = "query"
                  THEN DealUpdate(t, r, "ok")
                  ELSE \E res \in {"ok", "ignored", "failed"} : DealUpdate(t, r, res)
             ELSE \E res \in {"ok", "failed"} : DealQuery(t, r, res)
  /\ UNCHANGED <<queue, nextReplica>>

\* __sync_bool_compare_and_swap(&DATA_CURRENT_VERSION, old_version,
\* record->data_version), then the rest of deal_update_record
Cas(t) ==
  /\ ~crashed
  /\ pc[t] = "cas"
  /\ current' = IF current = old[t] THEN recs[cur[t]].dv ELSE current
  /\ pc' = [pc EXCEPT ![t] = "loop"]
  /\ Finish(t, cur[t], recs)
  /\ UNCHANGED <<queue, batch, old, cur, nextReplica, crashed>>

Next ==
  \/ \E t \in Threads, k \in SubmitKinds, src \in Sources : Submit(t, k, src)
  \/ \E t \in Threads : PopAll(t) \/ Step(t) \/ Cas(t)

\* each thread runs its loop
Spec == Init /\ [][Next]_vars /\ \A t \in Threads : WF_vars(PopAll(t) \/ Step(t) \/ Cas(t))

-----------------------------------------------------------------------------
(* Properties *)

\* Once no thread is between its load and its CAS, DATA_CURRENT_VERSION
\* is at least the version of every record applied without error (spec
\* 4.1: the counter is raised to a supplied version), so the next version
\* the master assigns is new.
CounterCoversApplied ==
  (\A t \in Threads : pc[t] = "loop") =>
    \A i \in DOMAIN recs :
      recs[i].done /\ ~recs[i].isError => current >= recs[i].dv

\* Every submitted record is eventually passed to the routine of its own
\* kind, deal_update_record for an update and deal_query_record for a
\* query, and its notify.func called (spec 4.1 step 2: each record is
\* dispatched by its own is_update, and its callback invoked exactly once).
RecordsEventuallyHandled ==
  \A i \in 1..MaxRecords :
    i \in DOMAIN recs ~> (i \in DOMAIN recs /\ recs[i].done /\ recs[i].handled = recs[i].kind)
=============================================================================
