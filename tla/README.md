# TLA+ models of the fastDIR metadata server

These modules model the in-memory core of the fastDIR directory server
(`src/server/`), translated from the C sources:
- the dentry tree and its update path;
- the change-notify events built from each update;
- the data threads and the shared data-version counter;
- the push-result tracker that matches follower acknowledgements to
  waiting tasks;
- the delay-free and immediate-free queues that reclaim dentries;
- the binlog write thread that persists inode field updates.

Each action is one handler of the code, with its guards, error returns
and rollbacks. Data is abstracted to what the properties tell apart:
- names are model values;
- a change-notify message is a record of (dentry, op, field, child);
- buffers, strings and logging are left out.

## The system and how its parts interact

A client request becomes a *record* and is pushed to the queue of one
**data thread**; the queue is chosen by hash code. Each data thread:
1. pops its whole queue (`fc_queue_pop_all`);
2. walks the list (`data_thread_func`);
3. passes each record to `deal_update_record` or `deal_query_record`.

The update path (`data_thread.c`) resolves the parent by inode
(`find_or_check_parent`, `deal_record_rename_op`). It then calls
`dentry_create`, `dentry_remove` or `dentry_rename` (`dentry.c`). These
change:
- the children skiplists of the directories;
- the dentries' parent, name and nlink;
- the **inode index**;
- the namespace counters.

A failed step is rolled back where the code rolls it back. On success
the record gets the next **data version** from the process-wide
`DATA_CURRENT_VERSION`. A record that carries a version (binlog replay or
replication) raises the counter to it by a load and a CAS. With storage
enabled, `push_to_db_update_queue` builds a **change-notify event** from
the post-state and the record's `affected[]` list (the `GENERATE_*`
macros).

Replication pushes each version to followers. The **push-result ring**
(`push_result_ring.c`) holds one entry per version still waiting for
the follower's acknowledgement: a ring for contiguous versions and a
sorted queue for the rest. An entry leaves the ring on three paths:
- its acknowledgement;
- a timeout check, at most once per second;
- teardown of the connection.

Each entry that leaves decrements the waiting task's
`waiting_rpc_count`, unless the task was reused since (task_version
check). At zero, the task resumes.

Dentries are reference counted (`reffer_count`). The tree holds one
reference, and every change-notify message holds one (`dentry_hold` in
`pack_messages`). A removed dentry's tree reference goes to the data
thread's **delay-free queue**, to be dropped a few seconds later, so a
reader outside the shard that still holds the pointer is safe. The
persistence thread gives a message's references back through the
**immediate-free queue** (`dentry_release_ex`). The data thread drains
both queues after each batch (`data_thread.c:1016`).

On the storage side, the **binlog write thread**
(`storage/binlog_write_thread.c`) takes inode field updates from the
data-sync producers. For each batch it writes `field.redo` and
`space.redo`, hands the records to the inode binlog writer and the
trunk space log, waits for both, and then notifies each producer's
synchronize counter. At start it replays `space.redo`.

## Modules

| Module | Models | State and actions |
|---|---|---|
| `ChangeNotify` | the `GENERATE_*` macros and `generate_*_messages` of `data_thread.c` | pure operators: `CreateMsgs`, `RemoveMsgs`, `RenameMsgs` build the message sequence from `affected[]` and the post-state parent function |
| `DentryTree` | `dentry.c` create/remove/rename and the update half of `deal_update_record` | see below |
| `DentryPath` | `dentry.c` full-path lookups (`dentry_find_parent`, `dentry_find_ex`, `do_find_ex`, `dentry_find_by_pname`) and `dentry_get_full_path` | recursive operators over DentryTree's state. It extends DentryTree with update records addressed by full path: `find_or_check_parent`, `set_pname_by_fullname_ex` and the fullname branch of `deal_record_rename_op`, each followed by DentryTree's handler. Renames by path carry the default flag, because the flags act after resolution just as for records by inode. `tree_safety` runs its `FullSpec` |
| `DentrySerializer` | `dentry_serializer.c` `dentry_serializer_pack`, `pack_basic`, `pack_children`, `realloc_array`; `dentry_compare` | pure operators over DentryTree's state: a piece is a sequence of tagged fields `(id, type, value)`; members the tree does not carry (times, owners, sizes, hash code, link target) are a pair `(member, dentry)`. `PackChildren` is a `FoldLeft` of `PackChildStep` over the children in skiplist order, from an array of `FIXED_INODES_ARRAY_SIZE` that `ReallocArray` doubles |
| `DentryQuery` | `list_dentry` (`data_thread.c`), `dentry_list` and `check_alloc_dentry_array` (`dentry.c`) | pure operators: the thread's list array is a record `(entries, alloc, count)`; `CheckAllocDentryArray` doubles with a recursive `Grow` and copies the stored entries; a store past the array is lost |
| `PushResultRing` | `push_result_ring.c` | see below |
| `PushResultTracker` | the abstract tracker of spec 4.8 | a set of pending entries; acknowledge, expire, disconnect |
| `Namespace` | the abstract namespace of spec 3 and 4.3 | one variable `ns`, a map from paths (sequences of names) to `[id, kind]`; steps `Create`, `Link`, `Remove`, `Move` (over an empty entry of the same kind) and `Exchange` of two disjoint subtrees |
| `DataThread` | `data_thread_func`, `deal_update_record`'s versioning, `deal_query_record` | see below |
| `DelayFreeQueue` | `data_thread.c:66-238` and the loop tail, `dentry.c` `dentry_do_free`, `dentry_free_func`, `dentry_release_ex` | see below |
| `BinlogWriteThread` | `storage/binlog_write_thread.c` | see below |
| `MC_*` | model values and definitions for TLC | |

**DentryTree.** The state is one variable per field the code changes:
- `allocated`, `parent`, `name`, `fmt`, `hard`, `src`, `nlink`, `children`;
- `inodeIndex`, `root`, `counts`;
- `dataVersion`, and the last `event` and result (`lastOp`).

There are three actions, one per update handler: `CreateDentry`,
`RemoveDentry` and `RenameDentry`. `RenameDentry` takes `MoveDentry` or
`ExchangeDentry`. Each action is atomic, as a data thread handles one
record at a time. Its inputs are parents, names, modes, flags and an
allocation-failure point. They are enumerated with `\E`, and allocation
failures are enumerated only where the checks pass.

**PushResultRing.** The state mirrors the code's variables:
- `ring`, `start`, `end`;
- `queue`;
- `checked`, which is `last_check_timeout_time == g_current_time`.

The environment adds the task's `waiting`, `taskState` and
`taskVersion`, the clock `now`, and the versions sent and acknowledged.
Actions:
- `Add` calls `RingAdd`;
- `Ack` calls `RingRemove`;
- `ClearTimeouts` and `ClearAll` model the two clear functions;
- `Tick` advances the clock;
- `TaskCleanup` reuses a task.

The environment actions come from the spec, because the service handler
is not under `src/`.

**DataThread.** The module has no passing run. Its two runs, `dispatch`
and `version_cas`, each show a defect. The state is the per-thread `queue`, the popped `batch`,
a `pc` with `old` and `cur` for the window between the load and the
CAS, the shared `current` counter, `lastVersion`, and the submitted
records. Actions:
- `Submit` comes from the spec;
- `PopAll` takes the whole queue;
- `Step` is one turn of the do-while, and models `record = record->next`
  before the `is_update` test exactly as written;
- `Cas` is the compare-and-swap and the rest of `deal_update_record`.

**DelayFreeQueue.** The state is:
- the delay queue (`[ptr, expires]` nodes) and `last_check_time`;
- the immediate queue and its `waiting_count`, plus `pushing`, the node
  whose count is raised but which is not yet pushed;
- each dentry slot's `reffer_count`, its state (free, live or unlinked)
  and its allocation generation;
- the events not yet released, the references lost to ENOMEM, and one
  reader's pointer with the time it took it;
- `staleRefs`, the files still alive whose parent pointer names the slot.

Actions:
- `CreateDentry`, `UpdateDentry` and `RemoveDentry` are one record each,
  with the holds its messages take;
- `UnlinkOtherName` removes a still-linked file from directory `p`, and
  counts in `staleRefs[p]` that the file keeps `p` as its parent;
  `RemoveLastLink` is the removal of that file's last link. Its
  remove-child message holds the slot the pointer names, in whatever
  state the slot now is;
- `DataThreadTail` is `deal_delay_free_queue` followed by
  `deal_immediate_free_queue`, on one heap state folded with `FoldLeft`;
- `DentryReleaseEx` and `ImmediatePush` are the two steps of
  `server_add_to_immediate_free_queue_ex`;
- `Acquire`, `Drop` and `Tick` are the reader and the clock.

The current code never reaches the loop tail, because the batch loop
dies at its last record (run `dispatch`). The model takes the tail as
reached after each record, which is what the loop is written to do.

**BinlogWriteThread.** The thread's `wpc` follows `deal_records`: pop,
redo, push, wait, notify. Records are ids with a producer and whether
they carry a space chain. Files are sets of ids:
- `redoField` and `redoSpace` are the redo files;
- `fieldLog` and `spaceLog` are the two logs;
- `fieldQ` and `spaceQ` are the writers' queues.

Each producer has a session of `n` fields, its counter, and the records
pushed. `Crash` keeps only the files. `Restart` replays `space.redo`.
`notify_all` is `Notifications`, a `FoldLeft` over the batch that
emits one `<<context, count>>` per run.

## Runs

| Run | Result | What it shows |
|---|---|---|
| `tree_safety` | pass | The tree stays a tree reachable from the root, link counts are exact, the index and counters are accurate, and a failed update (including every rename rollback) changes nothing. In every reachable tree, `dentry_get_full_path` renders each dentry as its path from the root, failing with EOVERFLOW and ENOSPC exactly at their bounds. That path resolves back through `dentry_find_ex`, `dentry_find_parent` and `dentry_find_by_pname`. The basic and children pieces `dentry_serializer_pack` builds for the linked dentries rebuild the tree (ids unique, parent 0 only for the root, children in name order, across `realloc_array` growth past the stack array), and `list_dentry` into a reused `DENTRY_LIST_CACHE` array returns exactly what the children piece lists. The whole update path, by inode and by full path and with every rollback, refines `Namespace` (`NamespaceRefinement`): each successful update is one abstract step, each failed one a stutter |
| `rename_eloop` | violation | moving `/a/a` to `/b` fails with ELOOP: `dentry.c:1110` tests the destination parent against the source parent |
| `event_msg_bound` | violation | a rename builds 5 to 7 messages for an event array of 4 |
| `event_cover` | violation | overwriting a file that has another link gives no remove-child message for its directory |
| `event_accurate` | violation | a file unlinked earlier keeps its parent pointer; removing its last link emits a remove-child message for a directory that no longer holds it |
| `create_oom` | violation | a failed skiplist insert in `dentry_create` leaves the inode index entry and the hard-link source's nlink raised |
| `push_result_ring` | pass | ring layout, count balance, refinement of `PushResultTracker` (INSTANCE ... WITH `pending <- Pending`), and every waiting task resumes |
| `dispatch` | violation | each record is dispatched by the next record's `is_update`, and the last record of each batch reads it through NULL, so its callback is never called |
| `version_cas` | violation | the single CAS loses to another thread, leaving `DATA_CURRENT_VERSION` below an applied version |
| `delay_free` | pass | every `reffer_count` equals the references owed (stale-parent holds included), a reader within the grace window never sees its dentry freed or reused, and the `waiting_count` race never strands a pushed node |
| `stale_parent_free` | violation | a file unlinked from directory `d` while other links keep it alive keeps `d` as its parent (`dentry.c:793`). Then `d` is removed, and its slot returned once its delay node expires. Removing the file's last link makes `pack_messages` hold that returned slot (`data_thread.c:718`), and the release frees it a second time |
| `binlog_write` | pass | a producer is woken only when both logs hold its records, notify counts are exact across interleaved producers, every space chain stays recoverable across a crash, and every waiting producer is woken |

Each property of a passing run has a mutant in `PROJECT.json`: a
plausible bug in a mapped definition that TLC must catch.

## Refinement of the namespace

`MC_DentryPieces` checks `NamespaceRefinement` as a temporal property of
`FullSpec`. `NS` is `Namespace` instantiated with `ns <- AbsNs`,
`Ids <- Dentries` and `MaxDepth` 3, the depth four dentries can reach.
`AbsNs` (`DentryPath`) is the refinement mapping. It maps the path of
each linked dentry (`PathFromRoot`) to an id and a kind. The id is the
dentry's inode, or its source for a hard link.

The property is `NS!Spec` written out as
`NS!Init /\ [][UNCHANGED tree \/ LET .. IN after = before \/ NS!Step(before, after)]_AbsNs`.
It is equivalent to `NS!Spec` because `AbsNs` depends only on `tree`.
The rewriting is there for speed. A step that leaves the tree alone is
accepted without building any path. Any other step builds `AbsNs` and
`AbsNs'` once each. `Namespace` passes the map into every operator
(`Step(m, m1)`) so that these two values are not rebuilt inside the
abstract actions. The mutant that drops the emptiness test of an
overwritten directory in `RenameCheck` makes the refinement fail: a
non-empty directory is replaced, and the paths below it vanish.

## Bounds and why they are enough

- **DentryTree:** four inodes and two names, so there is a root, two
  directory levels and a hard link. Rename rollbacks occur at all three
  allocation points. `MaxDataVersion` is 6, which allows six successful
  updates. Every defect found needs at most four steps. For the path
  functions (`MC_DentryPieces`), `FDIR_MAX_PATH_COUNT` is 2, so a
  three-level dentry overflows. Names are 1 and 2 bytes long and the
  buffer holds 6 bytes. `/a/b` plus its NUL fills the buffer exactly and
  `/b/b` does not fit. A path through a hard link is also reached.
  For the pieces, `FIXED_INODES_ARRAY_SIZE` is 1 and the list array's
  first allocation is 1, so a directory with two children grows both
  arrays (the real sizes, 16 and 4096, only postpone the same copy).
  The two names are ordered `a` before `b`. The run checks the pieces
  and listings as invariants of every reachable tree, with `VIEW
  TreeView`: states that differ only in `lastOp` and `event` are merged.
  No action reads those two (and `event` stays empty with storage off),
  so every reachable tree is still visited and the action property
  still sees every step from each tree.
- **PushResultRing:** three slots, two of them usable, and versions
  1..3. This is enough for wrap-around, a full ring, out-of-order
  arrivals in the queue, and a hole at `start`. Two tasks, each
  reusable once, give stale acknowledgements. The timeout is 1 s within
  3 s, so entries expire while others wait.
- **DataThread:** two threads and four records. One thread can pop a
  batch of three, and both threads can sit between load and CAS at
  once.

- **DelayFreeQueue:** two dentry slots, each allocated up to twice, so
  a freed slot is reused. One reader. A delay of 1 s and a reader window
  of 1 s within a 2 s horizon, so nodes expire while the reader holds its
  pointer. Five records, with up to two holds per update, and one ENOMEM
  loss per dentry. A slot can be named by one stale parent pointer
  (`MaxStale`). The double free needs four records and two seconds. With a reader
  window of 2 s, `ReaderNeverSeesReclaimed` fails, so the bound exercises the grace boundary.
- **BinlogWriteThread:** two producers with sessions of up to two fields
  and three records in all, so one batch can hold `p1, p2, p1`. One
  crash, at any step.

## Fairness

- **PushResultRing:** weak fairness of `Tick` (the clock advances) and
  of `ClearTimeouts`. The network thread calls
  `push_result_ring_clear_timeouts` from its loop every second.
- **DataThread:** weak fairness of each thread's loop. The thread spins
  on its queue while `SF_G_CONTINUE_FLAG` holds.
- **BinlogWriteThread:** weak fairness of the thread's loop, of the
  restart, of both writer threads, and of each producer's push and wait.
  All of these are threads that loop while `SF_G_CONTINUE_FLAG` holds.
  No fairness is assumed for the crash.
- **DelayFreeQueue:** safety only, so no fairness.
- Deadlock checking is off where the model stops by design: the bounded
  clock, versions and records, and the process crash in DataThread.

## Not modelled (yet)

- **Binlog write thread:** the push's error returns are left to its
  caller. So are the writers' own recovery and `field.redo`. Spec 6 says
  recovery replays `field.redo`, but nothing under `src/` reads it (see
  the hazards). A second crash is not modelled: it gives the same
  interleavings at three times the states.
- **Full paths:** request paths deeper than `FDIR_MAX_PATH_COUNT`,
  because their truncation is done by `split_string_ex` in libfastcommon.
  Also the string checks (EINVAL for an empty or relative path), since
  paths are sequences of names.
- **Free queues:** reclamation liveness, because the loop tail is never
  reached in the current code. Also `pack_messages` failing after some
  holds.
- **Task-version check race:** the check and the decrement are two
  steps against a task cleanup on another thread. The model has them as
  one.
- **Not modelled at all:**
  - the data-sync thread: its `deal` body is a TODO in the source, and
    nothing under `src/` pushes to its queue;
  - headers with no behaviour (`storage_types.h`,
    `fdir_server_types.h` are type declarations);
  - xattrs: the tree carries none, so the xattr piece is never packed.
- **Serializer and listing:** the buffer pool and
  `sf_serializer` framing (outside `src/`), and allocation failures,
  which make `deal_update_record` end the process. The pieces are checked
  over linked dentries only: a live dentry unlinked earlier keeps a
  stale parent (the `dentry.c:793` hazard). `dentry_list_by_path` is
  outside `src/`; the count reset before each listing is done by the
  service handler, also outside `src/`, so the model restarts it.

The hazards in `PROJECT.json` list what each of these leaves unchecked.
