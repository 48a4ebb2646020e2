------------------------- MODULE PushResultTracker -------------------------
(***************************************************************************)
(* What the push-result tracker of one follower connection promises       *)
(* (spec 4.8): a set of outstanding entries, one per data version pushed   *)
(* to the follower, each naming the task that waits for the follower's     *)
(* acknowledgement.  An entry leaves the set exactly once: by the          *)
(* acknowledgement of its version, by a timeout once it has expired, or    *)
(* when the connection is torn down.  Each entry that leaves decrements    *)
(* the waiting count of its task, unless the task has since been reused    *)
(* (its task version moved on); the task resumes when the count is zero.   *)
(*                                                                         *)
(* The environment around the tracker is part of the model: the service   *)
(* handler that registers a waiting task with one outstanding push, the    *)
(* follower's acknowledgements (each version at most once, possibly after  *)
(* it timed out), the clock g_current_time and the reuse of a task whose   *)
(* connection was closed.                                                  *)
(***************************************************************************)
EXTENDS Integers, FiniteSets

CONSTANTS
  Versions,        \* data versions pushed to the follower
  Tasks,           \* service tasks that wait for acknowledgements
  Timeout,         \* SF_G_NETWORK_TIMEOUT, in seconds
  MaxTime,         \* last value of the clock
  MaxTaskVersion   \* bound on the reuses of a task

ASSUME Versions \subseteq Nat \ {0}
ASSUME Timeout \in Nat \ {0} /\ MaxTime \in Nat /\ MaxTaskVersion \in Nat

VARIABLES
  pending,      \* the outstanding entries
  waiting,      \* task_arg->context.service.waiting_rpc_count
  taskState,    \* "waiting" for acknowledgements or "idle"
  taskVersion,  \* task_arg->task_version
  now,          \* g_current_time
  sent,         \* versions pushed so far
  acked,        \* versions the follower acknowledged so far
  lastAck       \* result of the last acknowledgement: "OK" or "ENOENT"

avars == <<pending, waiting, taskState, taskVersion, now, sent, acked, lastAck>>

Entry == [dv : Versions, task : Tasks, tver : 0..MaxTaskVersion, expires : 0..MaxTime]

Init ==
  /\ pending = {}
  /\ waiting = [t \in Tasks |-> 0]
  /\ taskState = [t \in Tasks |-> "idle"]
  /\ taskVersion = [t \in Tasks |-> 0]
  /\ now = 0
  /\ sent = {}
  /\ acked = {}
  /\ lastAck = "none"

\* the entries E leave the tracker: each current one decrements its task,
\* and a task whose count reaches zero resumes
Release(E) ==
  LET dec(t) == Cardinality({e \in E : e.task = t /\ e.tver = taskVersion[t]}) IN
  /\ waiting' = [t \in Tasks |-> waiting[t] - dec(t)]
  /\ taskState' = [t \in Tasks |->
                     IF dec(t) > 0 /\ waiting[t] = dec(t) THEN "idle" ELSE taskState[t]]

Add(v, t) ==
  /\ v \notin sent /\ taskState[t] = "idle" /\ now + Timeout < MaxTime
  /\ sent' = sent \cup {v}
  /\ waiting' = [waiting EXCEPT ![t] = 1]
  /\ taskState' = [taskState EXCEPT ![t] = "waiting"]
  /\ pending' = pending \cup
       {[dv |-> v, task |-> t, tver |-> taskVersion[t], expires |-> now + Timeout]}
  /\ UNCHANGED <<taskVersion, now, acked, lastAck>>

Ack(v) ==
  LET E == {e \in pending : e.dv = v} IN
  /\ v \in sent \ acked
  /\ acked' = acked \cup {v}
  /\ pending' = pending \ E
  /\ Release(E)
  /\ lastAck' = IF E = {} THEN "ENOENT" ELSE "OK"
  /\ UNCHANGED <<taskVersion, now, sent>>

\* some of the expired entries time out
Expire ==
  \E E \in SUBSET {e \in pending : e.expires < now} :
    /\ pending' = pending \ E
    /\ Release(E)
    /\ UNCHANGED <<taskVersion, now, sent, acked, lastAck>>

Disconnect ==
  /\ pending' = {}
  /\ Release(pending)
  /\ UNCHANGED <<taskVersion, now, sent, acked, lastAck>>

Tick ==
  /\ now < MaxTime
  /\ now' = now + 1
  /\ UNCHANGED <<pending, waiting, taskState, taskVersion, sent, acked, lastAck>>

TaskCleanup(t) ==
  /\ taskState[t] = "waiting" /\ taskVersion[t] < MaxTaskVersion
  /\ taskVersion' = [taskVersion EXCEPT ![t] = @ + 1]
  /\ waiting' = [waiting EXCEPT ![t] = 0]
  /\ taskState' = [taskState EXCEPT ![t] = "idle"]
  /\ UNCHANGED <<pending, now, sent, acked, lastAck>>

Next ==
  \/ \E v \in Versions, t \in Tasks : Add(v, t)
  \/ \E v \in Versions : Ack(v)
  \/ Expire
  \/ Disconnect
  \/ Tick
  \/ \E t \in Tasks : TaskCleanup(t)

Spec == Init /\ [][Next]_avars
=============================================================================
