-------------------------- MODULE BinlogWriteThread --------------------------
(***************************************************************************)
(* The binlog write thread of src/server/storage/binlog_write_thread.c.   *)
(*                                                                         *)
(* Producers persist a set of field updates as one session: they set      *)
(* their synchronize counter to the number of fields, push each with      *)
(* binlog_write_thread_push, and wait for the counter to reach zero.  An  *)
(* unmodified field is notified at once; a modified one becomes a record  *)
(* on the thread's queue.  The thread pops the whole queue, writes every  *)
(* record to field.redo and its space chain to space.redo (each a .tmp    *)
(* file renamed on close), pushes the records to the inode binlog writer  *)
(* and the trunk space log, waits until both have written them, and       *)
(* notifies each record's synchronize context, one notification per run   *)
(* of records with the same context.                                      *)
(*                                                                         *)
(* The process can crash at any step (and sf_terminate_myself ends it on  *)
(* a write error).  The redo files and the two logs survive; the queue,   *)
(* the writers' queues and the counters do not.  At start the thread      *)
(* replays space.redo into the space log.                                 *)
(***************************************************************************)
EXTENDS Integers, Sequences, FiniteSets, SequencesExt

CONSTANTS
  Producers,   \* the threads persisting field updates, one context each
  MaxFields,   \* bound on the fields of one session
  MaxRecords,  \* bound on the records pushed
  MaxCrashes,  \* bound on the crashes
  Nil

VARIABLES
  recs,        \* the records pushed so far: [prod, space]
  queue,       \* BINLOG_WRITE_THREAD_CTX.queue
  batch,       \* the popped chain (qinfo)
  wpc,         \* the thread: "pop", "redo", "push", "wait", "notify", "down"
  redoField,   \* the records in field.redo
  redoSpace,   \* the records whose space chain is in space.redo
  fieldQ,      \* records pushed to the inode binlog writer, not yet written
  spaceQ,      \* space chains pushed to the trunk space log, not yet written
  fieldLog,    \* records in the inode binlog
  spaceLog,    \* space chains in the trunk space log
  counter,     \* each producer's synchronize counter
  left,        \* the fields its session has still to push
  ppc,         \* "idle", "push" or "wait"
  session,     \* the records of each producer's current session
  notified,    \* the records whose context was notified
  woken,       \* records of sessions whose wait returned
  redone,      \* records whose redo logs were closed
  crashes

vars == <<recs, queue, batch, wpc, redoField, redoSpace, fieldQ, spaceQ, fieldLog,
          spaceLog, counter, left, ppc, session, notified, woken, redone, crashes>>

Ids == 1..MaxRecords

TypeOK ==
  /\ recs \in Seq([prod : Producers, space : BOOLEAN]) /\ Len(recs) <= MaxRecords
  /\ queue \in Seq(Ids) /\ batch \in Seq(Ids)
  /\ wpc \in {"pop", "redo", "push", "wait", "notify", "down"}
  /\ \A S \in {redoField, redoSpace, fieldQ, spaceQ, fieldLog, spaceLog, notified,
                woken, redone} :
       S \subseteq Ids
  /\ counter \in [Producers -> Nat]
  /\ left \in [Producers -> 0..MaxFields]
  /\ ppc \in [Producers -> {"idle", "push", "wait"}]
  /\ session \in [Producers -> SUBSET Ids]
  /\ crashes \in 0..MaxCrashes

Init ==
  /\ recs = <<>> /\ queue = <<>> /\ batch = <<>>
  /\ wpc = "pop"
  /\ redoField = {} /\ redoSpace = {}
  /\ fieldQ = {} /\ spaceQ = {} /\ fieldLog = {} /\ spaceLog = {}
  /\ counter = [p \in Producers |-> 0]
  /\ left = [p \in Producers |-> 0]
  /\ ppc = [p \in Producers |-> "idle"]
  /\ session = [p \in Producers |-> {}]
  /\ notified = {} /\ woken = {} /\ redone = {}
  /\ crashes = 0

BatchIds == Range(batch)
WithSpace(S) == {i \in S : recs[i].space}

-----------------------------------------------------------------------------
(* Producers (the data-sync side, spec 4.7) *)

\* sf_synchronize_counter: a session of n fields
BeginSession(p, n) ==
  /\ wpc # "down" /\ ppc[p] = "idle"
  /\ counter' = [counter EXCEPT ![p] = n]
  /\ left' = [left EXCEPT ![p] = n]
  /\ ppc' = [ppc EXCEPT ![p] = "push"]
  /\ session' = [session EXCEPT ![p] = {}]
  /\ UNCHANGED <<recs, queue, batch, wpc, redoField, redoSpace, fieldQ, spaceQ, fieldLog,
                 spaceLog, notified, woken, redone, crashes>>

\* binlog_write_thread_push: inode_segment_index_update; an unmodified
\* field (r.version == 0) is notified at once, a modified one is queued
\* with its space chain
BinlogWriteThreadPush(p) ==
  /\ wpc # "down" /\ ppc[p] = "push"
  /\ left' = [left EXCEPT ![p] = @ - 1]
  /\ ppc' = [ppc EXCEPT ![p] = IF left[p] = 1 THEN "wait" ELSE "push"]
  /\ \/ /\ counter' = [counter EXCEPT ![p] = @ - 1]
        /\ UNCHANGED <<recs, queue, session>>
     \/ /\ Len(recs) < MaxRecords
        /\ \E sp \in BOOLEAN : recs' = Append(recs, [prod |-> p, space |-> sp])
        /\ queue' = Append(queue, Len(recs) + 1)
        /\ session' = [session EXCEPT ![p] = @ \cup {Len(recs) + 1}]
        /\ UNCHANGED counter
  /\ UNCHANGED <<batch, wpc, redoField, redoSpace, fieldQ, spaceQ, fieldLog, spaceLog,
                 notified, woken, redone, crashes>>

\* sf_synchronize_counter_wait returns when the counter is zero
SessionDone(p) ==
  /\ wpc # "down" /\ ppc[p] = "wait" /\ counter[p] = 0
  /\ ppc' = [ppc EXCEPT ![p] = "idle"]
  /\ woken' = woken \cup session[p]
  /\ UNCHANGED <<recs, queue, batch, wpc, redoField, redoSpace, fieldQ, spaceQ, fieldLog,
                 spaceLog, counter, left, session, notified, redone, crashes>>

-----------------------------------------------------------------------------
(* The binlog write thread: binlog_write_thread_func and deal_records     *)

\* fc_queue_try_pop_to_queue: the whole queue; an empty pop loops again
PopQueue ==
  /\ wpc = "pop" /\ queue # <<>>
  /\ batch' = queue
  /\ queue' = <<>>
  /\ wpc' = "redo"
  /\ UNCHANGED <<recs, redoField, redoSpace, fieldQ, spaceQ, fieldLog, spaceLog, counter,
                 left, ppc, session, notified, woken, redone, crashes>>

\* write_redo_logs: open both .tmp files, write every record's field and
\* space chain, close them (flush, rename over field.redo and space.redo)
WriteRedoLogs ==
  /\ wpc = "redo"
  /\ redoField' = BatchIds
  /\ redoSpace' = WithSpace(BatchIds)
  /\ redone' = redone \cup BatchIds
  /\ wpc' = "push"
  /\ UNCHANGED <<recs, queue, batch, fieldQ, spaceQ, fieldLog, spaceLog, counter, left,
                 ppc, session, notified, woken, crashes>>

\* the waiting counts of both writers go up by the record counts, then
\* push_to_log_queues hands every record to them
PushToLogQueues ==
  /\ wpc = "push"
  /\ fieldQ' = fieldQ \cup BatchIds
  /\ spaceQ' = spaceQ \cup WithSpace(BatchIds)
  /\ wpc' = "wait"
  /\ UNCHANGED <<recs, queue, batch, redoField, redoSpace, fieldLog, spaceLog, counter,
                 left, ppc, session, notified, woken, redone, crashes>>

\* mutant: the thread goes on without waiting for the writers
WaitForWritersSkipped ==
  /\ wpc = "wait"
  /\ wpc' = "notify"
  /\ UNCHANGED <<recs, queue, batch, redoField, redoSpace, fieldQ, spaceQ, fieldLog,
                 spaceLog, counter, left, ppc, session, notified, woken, redone, crashes>>

\* da_binlog_writer_wait and da_trunk_space_log_wait: until both writers
\* have written everything pushed
WaitForWriters ==
  /\ wpc = "wait" /\ fieldQ = {} /\ spaceQ = {}
  /\ wpc' = "notify"
  /\ UNCHANGED <<recs, queue, batch, redoField, redoSpace, fieldQ, spaceQ, fieldLog,
                 spaceLog, counter, left, ppc, session, notified, woken, redone, crashes>>

\* mutant: a new context's count continues from the previous one's
NotifyStepNoReset(st, i) ==
  IF st.sctx # recs[i].prod
  THEN [sctx |-> recs[i].prod, count |-> st.count + 1,
        notes |-> IF st.sctx # Nil THEN Append(st.notes, <<st.sctx, st.count>>) ELSE st.notes]
  ELSE [st EXCEPT !.count = @ + 1]

\* one step of the loop of notify_all over st = [sctx, count, notes]
NotifyStep(st, i) ==
  IF st.sctx # recs[i].prod
  THEN [sctx |-> recs[i].prod, count |-> 1,
        notes |-> IF st.sctx # Nil THEN Append(st.notes, <<st.sctx, st.count>>) ELSE st.notes]
  ELSE [st EXCEPT !.count = @ + 1]

\* mutant: the last run is not notified after the loop
NotificationsNoFinalFlush(ids) ==
  FoldLeft(NotifyStep, [sctx |-> Nil, count |-> 0, notes |-> <<>>], ids).notes

\* notify_all: the sf_synchronize_counter_notify calls, as <<sctx, count>>
Notifications(ids) ==
  LET st == FoldLeft(NotifyStep, [sctx |-> Nil, count |-> 0, notes |-> <<>>], ids)
  IN IF st.sctx # Nil THEN Append(st.notes, <<st.sctx, st.count>>) ELSE st.notes

\* notify_all, then fc_queue_free_chain
NotifyAll ==
  LET notes == Notifications(batch)
      Total(p) == FoldLeft(LAMBDA a, n : a + (IF n[1] = p THEN n[2] ELSE 0), 0, notes)
  IN
  /\ wpc = "notify"
  /\ counter' = [p \in Producers |-> counter[p] - Total(p)]
  /\ notified' = notified \cup BatchIds
  /\ batch' = <<>>
  /\ wpc' = "pop"
  /\ UNCHANGED <<recs, queue, redoField, redoSpace, fieldQ, spaceQ, fieldLog, spaceLog,
                 left, ppc, session, woken, redone, crashes>>

\* the inode binlog writer and the trunk space log write what was pushed
FieldWriterWrite(i) ==
  /\ i \in fieldQ
  /\ fieldQ' = fieldQ \ {i} /\ fieldLog' = fieldLog \cup {i}
  /\ UNCHANGED <<recs, queue, batch, wpc, redoField, redoSpace, spaceQ, spaceLog, counter,
                 left, ppc, session, notified, woken, redone, crashes>>

SpaceLogWrite(i) ==
  /\ i \in spaceQ
  /\ spaceQ' = spaceQ \ {i} /\ spaceLog' = spaceLog \cup {i}
  /\ UNCHANGED <<recs, queue, batch, wpc, redoField, redoSpace, fieldQ, fieldLog, counter,
                 left, ppc, session, notified, woken, redone, crashes>>

-----------------------------------------------------------------------------
(* Crash and restart *)

\* the process dies (or sf_terminate_myself after a write error): only
\* the files survive
Crash ==
  /\ wpc # "down" /\ crashes < MaxCrashes
  /\ crashes' = crashes + 1
  /\ wpc' = "down"
  /\ queue' = <<>> /\ batch' = <<>> /\ fieldQ' = {} /\ spaceQ' = {}
  /\ counter' = [p \in Producers |-> 0]
  /\ left' = [p \in Producers |-> 0]
  /\ ppc' = [p \in Producers |-> "idle"]
  /\ session' = [p \in Producers |-> {}]
  /\ UNCHANGED <<recs, redoField, redoSpace, fieldLog, spaceLog, notified, woken, redone>>

\* mutant: the start does not replay space.redo
RestartNoReplay ==
  /\ wpc = "down"
  /\ wpc' = "pop"
  /\ UNCHANGED <<recs, queue, batch, redoField, redoSpace, fieldQ, spaceQ, fieldLog,
                 spaceLog, counter, left, ppc, session, notified, woken, redone, crashes>>

\* binlog_write_thread_start: if space.redo exists, da_trunk_space_log_redo
\* replays it before the thread starts
Restart ==
  /\ wpc = "down"
  /\ spaceLog' = spaceLog \cup redoSpace
  /\ wpc' = "pop"
  /\ UNCHANGED <<recs, queue, batch, redoField, redoSpace, fieldQ, spaceQ, fieldLog,
                 counter, left, ppc, session, notified, woken, redone, crashes>>

ThreadStep == PopQueue \/ WriteRedoLogs \/ PushToLogQueues \/ WaitForWriters \/ NotifyAll

Next ==
  \/ \E p \in Producers :
       \/ \E n \in 1..MaxFields : BeginSession(p, n)
       \/ BinlogWriteThreadPush(p)
       \/ SessionDone(p)
  \/ ThreadStep
  \/ \E i \in Ids : FieldWriterWrite(i) \/ SpaceLogWrite(i)
  \/ Crash
  \/ Restart

\* the write thread, both writers and a waiting producer all keep running
Spec ==
  /\ Init /\ [][Next]_vars
  /\ WF_vars(ThreadStep) /\ WF_vars(Restart)
  /\ \A i \in Ids : WF_vars(FieldWriterWrite(i)) /\ WF_vars(SpaceLogWrite(i))
  /\ \A p \in Producers : WF_vars(BinlogWriteThreadPush(p)) /\ WF_vars(SessionDone(p))

-----------------------------------------------------------------------------
(* Properties *)

\* A producer's wait returns only when every modified field of its session
\* is in the inode binlog and every space chain in the space log, so a
\* later crash loses nothing it was told is written (deal_records waits for
\* both writers before notify_all).
DurableBeforeWake ==
  \A i \in woken : i \in fieldLog /\ (recs[i].space => i \in spaceLog)

\* Each synchronize counter is the number of its session's fields not yet
\* notified: unmodified ones are counted down at push, and notify_all's
\* runs count each queued record of the context exactly once, however
\* the producers' records interleave in a batch.
SyncCountsExact ==
  \A p \in Producers : counter[p] = left[p] + Cardinality(session[p] \ notified)

\* Every space chain whose redo was closed is in the space log or still in
\* space.redo, across crashes: the next batch overwrites space.redo only
\* after the trunk space log wrote this one, and a start replays it.
SpaceRecoverable ==
  \A i \in WithSpace(redone) : i \in spaceLog \/ i \in redoSpace

\* A producer waiting for its session is eventually woken (or the process
\* restarts).
SessionsComplete == \A p \in Producers : ppc[p] = "wait" ~> ppc[p] = "idle"
=============================================================================
