--------------------------- MODULE PushResultRing ---------------------------
(***************************************************************************)
(* The push-result tracker of one follower connection as implemented in    *)
(* src/server/binlog/push_result_ring.c: a ring of ring.size slots, slot   *)
(* data_version % size, used while versions arrive contiguously, and a     *)
(* linked queue sorted by data version for the others.  A slot whose       *)
(* data_version is 0 is empty; the window [start, end) holds the ring's    *)
(* entries, possibly with emptied slots in it.                             *)
(*                                                                         *)
(* All calls for one connection are made by its network thread, so each   *)
(* call is one atomic step.  The environment (task registration, the       *)
(* follower's acknowledgements, the clock, task reuse) is the one of       *)
(* PushResultTracker, which this module refines.                           *)
(***************************************************************************)
EXTENDS Integers, FiniteSets, Sequences, SequencesExt

CONSTANTS
  Size,            \* ctx->ring.size
  Versions,
  Tasks,
  Nil,             \* NULL waiting_task
  Timeout,
  MaxTime,
  MaxTaskVersion

ASSUME Size \in Nat \ {0}
ASSUME Nil \notin Tasks

VARIABLES
  ring,         \* ctx->ring.entries
  start,        \* ctx->ring.start - ctx->ring.entries
  end,          \* ctx->ring.end - ctx->ring.entries
  queue,        \* ctx->queue, head first
  checked,      \* ctx->last_check_timeout_time = g_current_time
  waiting, taskState, taskVersion, now, sent, acked, lastAck

env == <<waiting, taskState, taskVersion, now, sent, acked, lastAck>>
vars == <<ring, start, end, queue, checked, env>>

Slots == 0..(Size - 1)

\* FDIRBinlogPushResultEntry; the ring starts zeroed (memset in check_init)
Entry == [dv : Versions \cup {0}, task : Tasks \cup {Nil},
          tver : 0..MaxTaskVersion, expires : 0..MaxTime]
Zero == [dv |-> 0, task |-> Nil, tver |-> 0, expires |-> 0]

\* an entry emptied in place: data_version = 0, waiting_task = NULL; its
\* expires stays (clear_timeouts still reads it), its task_version is
\* never read again and is abstracted to 0
Emptied(e) == [e EXCEPT !.dv = 0, !.task = Nil, !.tver = 0]

TypeOK ==
  /\ ring \in [Slots -> Entry]
  /\ start \in Slots /\ end \in Slots
  /\ queue \in Seq(Entry)
  /\ checked \in BOOLEAN
  /\ waiting \in [Tasks -> Nat]
  /\ taskState \in [Tasks -> {"idle", "waiting"}]
  /\ taskVersion \in [Tasks -> 0..MaxTaskVersion]
  /\ now \in 0..MaxTime
  /\ sent \subseteq Versions /\ acked \subseteq sent
  /\ lastAck \in {"none", "OK", "ENOENT"}

Init ==
  /\ ring = [i \in Slots |-> Zero]
  /\ start = 0 /\ end = 0
  /\ queue = <<>>
  /\ checked = FALSE
  /\ waiting = [t \in Tasks |-> 0]
  /\ taskState = [t \in Tasks |-> "idle"]
  /\ taskVersion = [t \in Tasks |-> 0]
  /\ now = 0
  /\ sent = {} /\ acked = {}
  /\ lastAck = "none"

\* the slots of the window [start, end), in ring order
WindowLen == (end - start + Size) % Size
Window == [i \in 1..WindowLen |-> (start + i - 1) % Size]
InWindow == Range(Window)

\* the entries the tracker holds
RingEntries == {ring[i] : i \in {j \in InWindow : ring[j].dv # 0}}
Pending == RingEntries \cup Range(queue)

-----------------------------------------------------------------------------

\* mutant: the task_version check is dropped
DescAllAnyVersion(E) ==
  LET dec(t) == Cardinality({e \in E : e.task = t}) IN
  /\ waiting' = [t \in Tasks |-> waiting[t] - dec(t)]
  /\ taskState' = [t \in Tasks |->
                     IF dec(t) > 0 /\ waiting[t] = dec(t) THEN "idle" ELSE taskState[t]]

\* desc_task_waiting_rpc_count applied to each entry of E in turn: a
\* current entry decrements its task, sf_nio_notify resumes it at zero;
\* an entry of a reused task (older task_version) is ignored
DescAll(E) ==
  LET dec(t) == Cardinality({e \in E : e.task = t /\ e.tver = taskVersion[t]}) IN
  /\ waiting' = [t \in Tasks |-> waiting[t] - dec(t)]
  /\ taskState' = [t \in Tasks |->
                     IF dec(t) > 0 /\ waiting[t] = dec(t) THEN "idle" ELSE taskState[t]]

\* add_to_queue: after the last entry whose version is below dv, but
\* before the head when dv is below the head's
QueueInsert(q, e) ==
  IF q = <<>> \/ e.dv < q[1].dv THEN <<e>> \o q
  ELSE LET later == {i \in 2..Len(q) : e.dv <= q[i].dv}
       IN InsertAt(q, IF later = {} THEN Len(q) + 1 ELSE Min(later), e)

\* mutant: the full-ring test nxt != start is dropped
RingAddNoFullCheck(e) ==
  LET idx == e.dv % Size
      prv == (idx + Size - 1) % Size
      empty == start = end
      append == ~empty /\ idx = end /\ e.dv = ring[prv].dv + 1
  IN
  IF empty \/ append
  THEN /\ ring' = [ring EXCEPT ![idx] = e]
       /\ start' = IF empty THEN idx ELSE start
       /\ end' = (idx + 1) % Size
       /\ UNCHANGED queue
  ELSE /\ queue' = QueueInsert(queue, e)
       /\ UNCHANGED <<ring, start, end>>

\* push_result_ring_add: the ring takes dv when it is empty, or when dv
\* continues the entry before end and the ring is not full
RingAdd(e) ==
  LET idx == e.dv % Size
      nxt == (idx + 1) % Size
      prv == (idx + Size - 1) % Size
      empty == start = end
      append == ~empty /\ idx = end /\ nxt # start /\ e.dv = ring[prv].dv + 1
  IN
  IF empty \/ append
  THEN /\ ring' = [ring EXCEPT ![idx] = e]
       /\ start' = IF empty THEN idx ELSE start
       /\ end' = nxt
       /\ UNCHANGED queue
  ELSE /\ queue' = QueueInsert(queue, e)
       /\ UNCHANGED <<ring, start, end>>

\* mutant: only the head of the queue is looked at
QueueRemoveHeadOnly(dv) ==
  IF queue # <<>> /\ queue[1].dv = dv
  THEN /\ queue' = Tail(queue)
       /\ DescAll({queue[1]})
       /\ lastAck' = "OK"
  ELSE /\ lastAck' = "ENOENT"
       /\ UNCHANGED <<queue, waiting, taskState>>

\* remove_from_queue: the walk from the head stops at the first entry
\* whose version is not below dv
QueueRemove(dv) ==
  LET later == {i \in 2..Len(queue) : dv <= queue[i].dv}
      k == IF queue # <<>> /\ queue[1].dv = dv THEN 1
           ELSE IF later = {} THEN 0
           ELSE IF queue[Min(later)].dv = dv THEN Min(later) ELSE 0
  IN
  IF k = 0
  THEN /\ lastAck' = "ENOENT"
       /\ UNCHANGED <<queue, waiting, taskState>>
  ELSE /\ queue' = RemoveAt(queue, k)
       /\ DescAll({queue[k]})
       /\ lastAck' = "OK"

\* the slot a start at idx moves to when idx is emptied: the next slot
\* that is end or holds an entry
NextStart(idx) ==
  LET steps == {k \in 1..Size : LET j == (idx + k) % Size IN j = end \/ ring[j].dv # 0}
  IN (idx + Min(steps)) % Size

\* push_result_ring_remove
RingRemove(dv) ==
  LET idx == dv % Size IN
  IF start # end /\ ring[idx].dv = dv
  THEN /\ start' = IF start = idx THEN NextStart(idx) ELSE start
       /\ ring' = [ring EXCEPT ![idx] = Emptied(@)]
       /\ DescAll({ring[idx]})
       /\ lastAck' = "OK"
       /\ UNCHANGED <<end, queue>>
  ELSE /\ QueueRemove(dv)
       /\ UNCHANGED <<ring, start, end>>

\* the number of leading entries of s (a sequence of entries) expired
ExpiredPrefix(s) ==
  Cardinality({k \in 1..Len(s) : \A i \in 1..k : s[i].expires < now})

\* mutant: the queue is not checked for timeouts
ClearTimeoutsRingOnly ==
  LET w == [i \in 1..WindowLen |-> ring[Window[i]]]
      k == ExpiredPrefix(w)
      cleared == {Window[i] : i \in 1..k}
  IN
  /\ ~checked
  /\ checked' = TRUE
  /\ ring' = [i \in Slots |-> IF i \in cleared THEN Emptied(ring[i]) ELSE ring[i]]
  /\ start' = (start + k) % Size
  /\ DescAll({ring[i] : i \in cleared})
  /\ UNCHANGED <<end, queue, taskVersion, now, sent, acked, lastAck>>

\* push_result_ring_clear_timeouts: at most once per second, clear the
\* expired entries at the ring's start, then at the queue's head
ClearTimeouts ==
  LET w == [i \in 1..WindowLen |-> ring[Window[i]]]
      k == ExpiredPrefix(w)
      q == ExpiredPrefix(queue)
      cleared == {Window[i] : i \in 1..k}
  IN
  /\ ~checked
  /\ checked' = TRUE
  /\ ring' = [i \in Slots |-> IF i \in cleared THEN Emptied(ring[i]) ELSE ring[i]]
  /\ start' = (start + k) % Size
  /\ queue' = SubSeq(queue, q + 1, Len(queue))
  /\ DescAll({ring[i] : i \in cleared} \cup {queue[i] : i \in 1..q})
  /\ UNCHANGED <<end, taskVersion, now, sent, acked, lastAck>>

\* mutant: the queue's entries are dropped without decrementing their tasks
ClearAllRingOnly ==
  /\ ring' = [i \in Slots |-> IF i \in InWindow THEN Emptied(ring[i]) ELSE ring[i]]
  /\ start' = end
  /\ queue' = <<>>
  /\ DescAll({ring[i] : i \in InWindow})
  /\ UNCHANGED <<end, checked, taskVersion, now, sent, acked, lastAck>>

\* push_result_ring_clear_all: on teardown of the connection
ClearAll ==
  /\ ring' = [i \in Slots |-> IF i \in InWindow THEN Emptied(ring[i]) ELSE ring[i]]
  /\ start' = end
  /\ queue' = <<>>
  /\ DescAll({ring[i] : i \in InWindow} \cup Range(queue))
  /\ UNCHANGED <<end, checked, taskVersion, now, sent, acked, lastAck>>

-----------------------------------------------------------------------------
(* The environment of the tracker                                          *)

\* the service registers task t as waiting for the push of version v
Add(v, t) ==
  /\ v \notin sent /\ taskState[t] = "idle" /\ now + Timeout < MaxTime
  /\ sent' = sent \cup {v}
  /\ waiting' = [waiting EXCEPT ![t] = 1]
  /\ taskState' = [taskState EXCEPT ![t] = "waiting"]
  /\ RingAdd([dv |-> v, task |-> t, tver |-> taskVersion[t], expires |-> now + Timeout])
  /\ UNCHANGED <<checked, taskVersion, now, acked, lastAck>>

\* the follower's acknowledgement of v arrives, in any order, perhaps late
Ack(v) ==
  /\ v \in sent \ acked
  /\ acked' = acked \cup {v}
  /\ RingRemove(v)
  /\ UNCHANGED <<checked, taskVersion, now, sent>>

Tick ==
  /\ now < MaxTime
  /\ now' = now + 1
  /\ checked' = FALSE
  /\ UNCHANGED <<ring, start, end, queue, waiting, taskState,
                 taskVersion, sent, acked, lastAck>>

\* a waiting task is cleaned up and reused: its task_version moves on
TaskCleanup(t) ==
  /\ taskState[t] = "waiting" /\ taskVersion[t] < MaxTaskVersion
  /\ taskVersion' = [taskVersion EXCEPT ![t] = @ + 1]
  /\ waiting' = [waiting EXCEPT ![t] = 0]
  /\ taskState' = [taskState EXCEPT ![t] = "idle"]
  /\ UNCHANGED <<ring, start, end, queue, checked, now, sent, acked, lastAck>>

Next ==
  \/ \E v \in Versions, t \in Tasks : Add(v, t)
  \/ \E v \in Versions : Ack(v)
  \/ ClearTimeouts
  \/ ClearAll
  \/ Tick
  \/ \E t \in Tasks : TaskCleanup(t)

\* the clock advances and the network thread checks timeouts every second
Spec == Init /\ [][Next]_vars /\ WF_vars(Tick) /\ WF_vars(ClearTimeouts)

-----------------------------------------------------------------------------
(* Properties *)

\* Slots outside the window are empty, an entry sits in the slot of its
\* version, the window's versions ascend from start, the queue ascends,
\* and no version is in both: what push_result_ring_remove relies on to
\* find a version by its slot alone.
RingWellFormed ==
  /\ \A i \in Slots \ InWindow : ring[i].dv = 0
  /\ \A i \in InWindow : ring[i].dv # 0 => ring[i].dv % Size = i
  /\ \A a, b \in 1..WindowLen :
       a < b /\ ring[Window[a]].dv # 0 /\ ring[Window[b]].dv # 0 =>
         ring[Window[b]].dv - ring[Window[a]].dv = b - a
  /\ IsSorted(queue, LAMBDA x, y : x.dv < y.dv)
  /\ \A e \in Range(queue) : e.dv \notin {r.dv : r \in RingEntries}

\* A task's waiting count is the number of its current entries still
\* held, and it is idle exactly when that number is zero: each entry
\* decrements its task once, by an acknowledgement, a timeout or a
\* teardown, never twice and never after the task was reused.
CountsBalance ==
  \A t \in Tasks :
    /\ waiting[t] = Cardinality({e \in Pending : e.task = t /\ e.tver = taskVersion[t]})
    /\ (taskState[t] = "idle") = (waiting[t] = 0)

\* Every waiting task is eventually resumed (spec P10): its entry is
\* acknowledged or, at the latest, cleared by the timeout check.
WaitingTaskResumes ==
  \A t \in Tasks : taskState[t] = "waiting" ~> taskState[t] = "idle"

\* The ring and queue implement the tracker: the entries they hold are
\* its outstanding set, and an acknowledgement finds its entry exactly
\* when the tracker holds it.
Tracker == INSTANCE PushResultTracker WITH pending <- Pending

TrackerRefinement == Tracker!Spec
=============================================================================
