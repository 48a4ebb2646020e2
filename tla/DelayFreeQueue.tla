--------------------------- MODULE DelayFreeQueue ---------------------------
(***************************************************************************)
(* The free context of one data thread (src/server/data_thread.c 66-238)  *)
(* and the dentry reference count it serves (dentry.c 118-193).           *)
(*                                                                         *)
(* A dentry slot of the shard's allocator is created with reffer_count 1. *)
(* Each change-notify message built for it takes one more reference       *)
(* (dentry_hold in pack_messages).  Removing the dentry from the tree     *)
(* queues that first reference on the DELAY queue, whose node expires     *)
(* FDIR_DELAY_FREE_SECONDS later (dentry_free_func).  The persistence     *)
(* thread gives message references back through the IMMEDIATE queue      *)
(* (dentry_release_ex).  Only the data thread frees: after each batch it  *)
(* drains the expired prefix of the delay queue, at most once per second, *)
(* then the immediate queue if waiting_count is not zero.  dentry_do_free *)
(* subtracts and returns the slot to the allocator at zero.               *)
(*                                                                         *)
(* Readers outside the shard (RPC responders, push threads) keep a bare   *)
(* pointer for at most MaxHold seconds of g_current_time.                  *)
(*                                                                         *)
(* A file removed from directory p while other links keep it alive keeps  *)
(* p in its parent pointer (dentry.c 728-745, 793).  When its last link   *)
(* goes, its remove messages name that pointer again, and pack_messages   *)
(* holds the slot p names, whatever became of p in the meantime.          *)
(***************************************************************************)
EXTENDS Integers, Sequences, SequencesExt

CONSTANTS
  Dentries,     \* the slots of the dentry allocator
  Readers,      \* threads outside the shard holding a bare pointer
  Delay,        \* FDIR_DELAY_FREE_SECONDS
  MaxHold,      \* the longest a reader keeps a pointer, in seconds
  MaxHolds,     \* bound on the messages of one event about one dentry
  MaxTime,      \* bound on g_current_time
  MaxGen,       \* bound on the reallocations of one slot
  MaxRecords,   \* bound on the records the data thread handles
  OomDelay,     \* whether fast_mblock_alloc_object may fail in server_add_*
  MaxLost,      \* bound on the references lost to those failures, per slot
  MaxStale,     \* bound on the files naming one slot as a stale parent
  Nil

ASSUME Delay \in Nat \ {0} /\ MaxHold \in Nat /\ MaxTime \in Nat

VARIABLES
  now,        \* g_current_time
  phase,      \* the data thread: "batch" (waiting for records) or "tail"
  delayQ,     \* delay_context->queue: [ptr, expires], oldest first
  lastCheck,  \* delay_context->last_check_time
  immQ,       \* free_context.immediate.queue: [ptr, dec]
  waiting,    \* free_context.immediate.waiting_count
  refs,       \* reffer_count of each slot
  slot,       \* "free", "live" (in the tree) or "unlinked"
  gen,        \* how often the slot was allocated
  events,     \* change-notify events not yet persisted: [ptr, dec] held
  pushing,    \* the node between waiting_count++ and fc_queue_push
  rd,         \* each reader's [ptr, gen, since], or Nil
  lost,       \* references whose free node could not be allocated
  records,    \* the records handled so far
  corrupt,    \* dentry_do_free ran on a slot already returned
  staleRefs   \* files still alive whose parent pointer names the slot after
              \* they were removed from it

vars == <<now, phase, delayQ, lastCheck, immQ, waiting, refs, slot, gen, events,
          pushing, rd, lost, records, corrupt, staleRefs>>

DelayNode == [ptr : Dentries, expires : Nat]
ImmNode == [ptr : Dentries, dec : 1..MaxHolds]

TypeOK ==
  /\ now \in 0..MaxTime
  /\ phase \in {"batch", "tail"}
  /\ delayQ \in Seq(DelayNode)
  /\ lastCheck \in 0..MaxTime
  /\ immQ \in Seq(ImmNode)
  /\ waiting \in Nat
  /\ refs \in [Dentries -> Nat]
  /\ slot \in [Dentries -> {"free", "live", "unlinked"}]
  /\ gen \in [Dentries -> 0..MaxGen]
  /\ events \in Seq(ImmNode)
  /\ pushing \in ImmNode \cup {Nil}
  /\ rd \in [Readers -> [ptr : Dentries, gen : 0..MaxGen, since : 0..MaxTime] \cup {Nil}]
  /\ lost \in [Dentries -> 0..MaxLost]
  /\ records \in 0..MaxRecords
  /\ corrupt \in BOOLEAN
  /\ staleRefs \in [Dentries -> 0..MaxStale]

Init ==
  /\ now = 0
  /\ phase = "batch"
  /\ delayQ = <<>>
  /\ lastCheck = 0
  /\ immQ = <<>>
  /\ waiting = 0
  /\ refs = [d \in Dentries |-> 0]
  /\ slot = [d \in Dentries |-> "free"]
  /\ gen = [d \in Dentries |-> 0]
  /\ events = <<>>
  /\ pushing = Nil
  /\ rd = [r \in Readers |-> Nil]
  /\ lost = [d \in Dentries |-> 0]
  /\ records = 0
  /\ corrupt = FALSE
  /\ staleRefs = [d \in Dentries |-> 0]

-----------------------------------------------------------------------------
(* The free functions, on st = [refs, slot, corrupt] *)

Heap == [refs |-> refs, slot |-> slot, corrupt |-> corrupt]

\* dentry_do_free(ptr, dec_count), reached through dentry_free (dec 1) and
\* dentry_free_ex (dec = ctx)
DoFree(st, ptr, dec) ==
  [st EXCEPT !.refs[ptr] = @ - dec,
             !.slot[ptr] = IF st.refs[ptr] - dec = 0 THEN "free" ELSE @,
             !.corrupt = @ \/ st.slot[ptr] = "free"]

\* the free function of every node of a chain, in chain order
FreeNodes(st, nodes) == FoldLeft(LAMBDA s, n : DoFree(s, n.ptr, n.dec), st, nodes)

\* mutant: a node expires when now reaches expires
ExpiredAtExpiry(n) == n.expires <= now

\* the loop test of deal_delay_free_queue
Expired(n) == n.expires < now

\* deal_delay_free_queue returns at once when it ran this second already
\* or the queue is empty; otherwise it frees the expired prefix
DelayFreed ==
  IF lastCheck = now \/ delayQ = <<>> THEN 0
  ELSE LET ks == {k \in 0..Len(delayQ) : \A i \in 1..k : Expired(delayQ[i])}
       IN CHOOSE k \in ks : \A j \in ks : j <= k

DealDelayFreeQueue(st) ==
  FreeNodes(st, [i \in 1..DelayFreed |-> [ptr |-> delayQ[i].ptr, dec |-> 1]])

\* data_thread_func reads waiting_count; fc_queue_try_pop_to_queue takes
\* every node pushed so far
ImmFreed == IF waiting = 0 THEN <<>> ELSE immQ

\* mutant: each node is freed with dentry_free, dropping one reference
DealImmediateFreeQueueDecOne(st) ==
  FreeNodes(st, [i \in DOMAIN ImmFreed |-> [ImmFreed[i] EXCEPT !.dec = 1]])

\* deal_immediate_free_queue: free every popped node with its dec_count
DealImmediateFreeQueue(st) == FreeNodes(st, ImmFreed)

\* mutant: waiting_count is cleared instead of decreased by the count
WaitingAfterDrainReset == IF ImmFreed = <<>> THEN waiting ELSE 0

\* __sync_sub_and_fetch(&waiting_count, count) after the frees
WaitingAfterDrain == waiting - Len(ImmFreed)

\* add_to_delay_free_queue: the node expires delay seconds from now
AddToDelayFreeQueue(ptr) ==
  delayQ' = Append(delayQ, [ptr |-> ptr, expires |-> now + Delay])

\* mutant: the removed dentry is queued twice (by the remove path and by
\* the skiplist delete)
DentryFreeFuncTwice(ptr) ==
  /\ delayQ' = delayQ \o [i \in 1..2 |-> [ptr |-> ptr, expires |-> now + Delay]]
  /\ UNCHANGED lost

\* dentry_free_func(ptr, FDIR_DELAY_FREE_SECONDS) and
\* server_add_to_delay_free_queue: an ENOMEM from the node allocation is
\* ignored by the caller, and the reference stays taken
DentryFreeFunc(ptr) ==
  \/ AddToDelayFreeQueue(ptr) /\ UNCHANGED lost
  \/ /\ OomDelay /\ lost[ptr] < MaxLost
     /\ lost' = [lost EXCEPT ![ptr] = @ + 1]
     /\ UNCHANGED delayQ

\* pack_messages: dentry_hold for each of the h messages of the record's
\* event that name d; the event goes to the persistence thread
Hold(d, h) ==
  /\ records < MaxRecords
  /\ records' = records + 1
  /\ events' = Append(events, [ptr |-> d, dec |-> h])

-----------------------------------------------------------------------------
(* One record of a batch: it creates, changes or removes a dentry, and    *)
(* the messages of its change-notify event hold the dentries they name.   *)
(* A created or removed dentry is named by one message (its basic or      *)
(* remove message); a dentry in the tree by up to MaxHolds (its own basic *)
(* message, and the children messages of a rename or exchange around it). *)

\* dentry_create: a fresh slot with reffer_count 1, held by the basic message
CreateDentry(d) ==
  /\ phase = "batch" /\ slot[d] = "free" /\ gen[d] < MaxGen
  /\ Hold(d, 1)
  /\ slot' = [slot EXCEPT ![d] = "live"]
  /\ gen' = [gen EXCEPT ![d] = @ + 1]
  /\ refs' = [refs EXCEPT ![d] = @ + 2]
  /\ phase' = "tail"
  /\ UNCHANGED <<now, delayQ, lastCheck, immQ, waiting, pushing, rd, lost, corrupt, staleRefs>>

\* a record about a dentry in the tree (attributes, xattrs, its children)
UpdateDentry(d, h) ==
  /\ phase = "batch" /\ slot[d] = "live"
  /\ Hold(d, h)
  /\ refs' = [refs EXCEPT ![d] = @ + h]
  /\ phase' = "tail"
  /\ UNCHANGED <<now, delayQ, lastCheck, immQ, waiting, slot, gen, pushing, rd, lost, corrupt, staleRefs>>

\* remove_src_dentry (or the children skiplist delete): unlinked, and the
\* first reference goes to the delay queue; the remove message holds d
RemoveDentry(d) ==
  /\ phase = "batch" /\ slot[d] = "live"
  /\ slot' = [slot EXCEPT ![d] = "unlinked"]
  /\ DentryFreeFunc(d)
  /\ Hold(d, 1)
  /\ refs' = [refs EXCEPT ![d] = @ + 1]
  /\ phase' = "tail"
  /\ UNCHANGED <<now, lastCheck, immQ, waiting, gen, pushing, rd, corrupt, staleRefs>>

\* dentry_remove of a file that other links keep (nlink > 0 after the
\* decrement): the file leaves directory p's skiplist but keeps p as its
\* parent; the REMOVE_FROM_PARENT message of generate_remove_messages
\* holds p (the file's own update message is about another slot)
UnlinkOtherName(p) ==
  /\ phase = "batch" /\ slot[p] = "live" /\ staleRefs[p] < MaxStale
  /\ Hold(p, 1)
  /\ refs' = [refs EXCEPT ![p] = @ + 1]
  /\ staleRefs' = [staleRefs EXCEPT ![p] = @ + 1]
  /\ phase' = "tail"
  /\ UNCHANGED <<now, delayQ, lastCheck, immQ, waiting, slot, gen, pushing, rd, lost, corrupt>>

\* the removal of that file's last link (a hard link whose source drops
\* to nlink 0, remove_src_dentry): GENERATE_REOMVE_DENTRY_MESSAGES names
\* the file's parent pointer, and pack_messages holds the slot it points
\* to, live, unlinked, returned or reallocated
RemoveLastLink(p) ==
  /\ phase = "batch" /\ staleRefs[p] > 0
  /\ Hold(p, 1)
  /\ refs' = [refs EXCEPT ![p] = @ + 1]
  /\ staleRefs' = [staleRefs EXCEPT ![p] = @ - 1]
  /\ phase' = "tail"
  /\ UNCHANGED <<now, delayQ, lastCheck, immQ, waiting, slot, gen, pushing, rd, lost, corrupt>>

\* the end of each turn of data_thread_func: deal_delay_free_queue, then
\* deal_immediate_free_queue when waiting_count is not zero
DataThreadTail ==
  LET st == DealImmediateFreeQueue(DealDelayFreeQueue(Heap)) IN
  /\ phase = "tail"
  /\ phase' = "batch"
  /\ refs' = st.refs /\ slot' = st.slot /\ corrupt' = st.corrupt
  /\ delayQ' = SubSeq(delayQ, DelayFreed + 1, Len(delayQ))
  /\ lastCheck' = IF lastCheck = now \/ delayQ = <<>> THEN lastCheck ELSE now
  /\ immQ' = SubSeq(immQ, Len(ImmFreed) + 1, Len(immQ))
  /\ waiting' = WaitingAfterDrain
  /\ UNCHANGED <<now, gen, events, pushing, rd, lost, records, staleRefs>>

-----------------------------------------------------------------------------
(* The persistence thread gives an event's references back                *)

\* dentry_release_ex(dentry, dec_count) and
\* server_add_to_immediate_free_queue_ex: allocate the node (an ENOMEM is
\* ignored by the caller), then waiting_count++
DentryReleaseEx ==
  LET e == Head(events) IN
  /\ pushing = Nil /\ events # <<>>
  /\ events' = Tail(events)
  /\ \/ /\ pushing' = e
        /\ waiting' = waiting + 1
        /\ UNCHANGED lost
     \/ /\ OomDelay /\ lost[e.ptr] + e.dec <= MaxLost
        /\ lost' = [lost EXCEPT ![e.ptr] = @ + e.dec]
        /\ UNCHANGED <<pushing, waiting>>
  /\ UNCHANGED <<now, phase, delayQ, lastCheck, immQ, refs, slot, gen, rd, records, corrupt, staleRefs>>

\* fc_queue_push_silence, after the increment
ImmediatePush ==
  /\ pushing # Nil
  /\ immQ' = Append(immQ, pushing)
  /\ pushing' = Nil
  /\ UNCHANGED <<now, phase, delayQ, lastCheck, waiting, refs, slot, gen, events, rd,
                 lost, records, corrupt, staleRefs>>

-----------------------------------------------------------------------------
(* Readers outside the shard and the clock *)

\* a reader is handed a dentry of the tree
Acquire(r, d) ==
  /\ rd[r] = Nil /\ slot[d] = "live"
  /\ rd' = [rd EXCEPT ![r] = [ptr |-> d, gen |-> gen[d], since |-> now]]
  /\ UNCHANGED <<now, phase, delayQ, lastCheck, immQ, waiting, refs, slot, gen, events,
                 pushing, lost, records, corrupt, staleRefs>>

Drop(r) ==
  /\ rd[r] # Nil
  /\ rd' = [rd EXCEPT ![r] = Nil]
  /\ UNCHANGED <<now, phase, delayQ, lastCheck, immQ, waiting, refs, slot, gen, events,
                 pushing, lost, records, corrupt, staleRefs>>

\* the scheduler thread advances g_current_time
Tick ==
  /\ now < MaxTime
  /\ now' = now + 1
  /\ UNCHANGED <<phase, delayQ, lastCheck, immQ, waiting, refs, slot, gen, events,
                 pushing, rd, lost, records, corrupt, staleRefs>>

Next ==
  \/ \E d \in Dentries :
        \/ CreateDentry(d) \/ RemoveDentry(d) \/ \E h \in 1..MaxHolds : UpdateDentry(d, h)
        \/ UnlinkOtherName(d) \/ RemoveLastLink(d)
  \/ DataThreadTail
  \/ DentryReleaseEx
  \/ ImmediatePush
  \/ \E r \in Readers : Drop(r) \/ \E d \in Dentries : Acquire(r, d)
  \/ Tick

Spec == Init /\ [][Next]_vars

-----------------------------------------------------------------------------
(* Properties *)

\* the references that slot d is owed: the tree or the delay node, the
\* events not yet persisted, the release on its way, and the lost ones
Owed(d) ==
  LET Sum(q) == FoldLeft(LAMBDA a, n : a + (IF n.ptr = d THEN n.dec ELSE 0), 0, q)
  IN (IF slot[d] = "live" \/ \E i \in DOMAIN delayQ : delayQ[i].ptr = d THEN 1 ELSE 0)
     + Sum(events) + Sum(immQ) + lost[d]
     + (IF pushing # Nil /\ pushing.ptr = d THEN pushing.dec ELSE 0)

\* reffer_count is exactly what the holders of slot d are owed: the tree
\* or the delay node, the events not yet persisted, the release on its way
\* and the references lost to ENOMEM, across holds by pack_messages,
\* releases by the persistence thread and the drains' dec_count frees.
RefCountExact == \A d \in Dentries : refs[d] = Owed(d)

\* dentry_do_free never runs on a slot already returned to the allocator,
\* and a slot is returned only when nothing refers to it any more (spec
\* I5: a destroyed dentry has count 0 and is unreachable).
ReturnedSlotUnreferenced ==
  /\ ~corrupt
  /\ \A d \in Dentries : slot[d] = "free" => Owed(d) = 0

\* A reader outside the shard that took a dentry from the tree can use it
\* for MaxHold seconds: within that window its slot is neither returned to
\* the allocator nor reallocated (spec 4.2 and P9: reclaimed strictly after
\* expires; deal_delay_free_queue frees a node only when expires < now).
ReaderNeverSeesReclaimed ==
  \A r \in Readers :
    rd[r] # Nil /\ now <= rd[r].since + MaxHold =>
      slot[rd[r].ptr] # "free" /\ gen[rd[r].ptr] = rd[r].gen

\* The data thread drains the immediate queue only when waiting_count is
\* not zero: whenever a node sits in the queue, the count is at least the
\* number of nodes, whatever the persistence thread's increments and
\* pushes interleave with the drain and its subtraction.
ImmediateNeverSkipped == waiting >= Len(immQ) + (IF pushing # Nil THEN 1 ELSE 0)
=============================================================================
