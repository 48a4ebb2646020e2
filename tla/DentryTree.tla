----------------------------- MODULE DentryTree -----------------------------
(***************************************************************************)
(* The dentry tree and inode index of one namespace, as changed by the     *)
(* update path of a data thread: deal_update_record() (data_thread.c)      *)
(* around dentry_create, dentry_remove and dentry_rename (dentry.c).       *)
(*                                                                         *)
(* A data thread handles one record at a time, so each update handler is   *)
(* one atomic action: parent resolution, the tree change with its rollback *)
(* on failure, the data version and, when storage is enabled, the          *)
(* change-notify event built from the result.  Requests name their parent  *)
(* by inode (fdir_dentry_type_pname), so parents are found through the     *)
(* inode index; inode 0 (Nil here) addresses the namespace root.           *)
(*                                                                         *)
(* A dentry is identified by its inode.  Inodes come from a monotonic      *)
(* generator and are never reused, so Dentries bounds the number of        *)
(* dentries ever created.  Allocation failures are modelled only at the    *)
(* points named in OomPoints.                                              *)
(***************************************************************************)
EXTENDS Integers, FiniteSets, Sequences, FiniteSetsExt, ChangeNotify

CONSTANTS
  Dentries,        \* inodes the inode generator may hand out
  Names,           \* non-empty child names requests may carry
  StorageEnabled,  \* STORAGE_ENABLED: change-notify events are built
  OomPoints,       \* allocation calls that may fail with ENOMEM
  MaxDataVersion   \* bound on DATA_CURRENT_VERSION

ASSUME Dentries \subseteq Nat \ {0}
ASSUME "" \notin Names /\ Nil \notin Dentries
ASSUME StorageEnabled \in BOOLEAN
ASSUME OomPoints \subseteq {"create_insert", "rename_name", "rename_dest_name",
                            "rename_insert"}
ASSUME MaxDataVersion \in Nat


VARIABLES
  allocated,    \* dentries taken from the dentry allocator
  parent,       \* dentry->parent
  name,         \* dentry->name
  fmt,          \* dentry->stat.mode & S_IFMT: "dir", "reg" or "lnk"
  hard,         \* FDIR_IS_DENTRY_HARD_LINK(dentry->stat.mode)
  src,          \* dentry->src_dentry of a hard link
  nlink,        \* dentry->stat.nlink
  children,     \* the children skiplist of a directory
  inodeIndex,   \* the dentries the inode index maps their inode to
  root,         \* ns_entry->current.root.ptr
  counts,       \* ns_entry->current.counts
  dataVersion,  \* DATA_CURRENT_VERSION
  event,        \* messages of the event pushed by the last update
  lastOp        \* result of the last update

tree == <<allocated, parent, name, fmt, hard, src, nlink, children,
          inodeIndex, root, counts>>
vars == <<tree, dataVersion, event, lastOp>>

Fmts == {"dir", "reg", "lnk"}
Opt(S) == S \cup {Nil}

TypeOK ==
  /\ allocated \subseteq Dentries
  /\ parent \in [Dentries -> Opt(Dentries)]
  /\ name \in [Dentries -> Names \cup {""}]
  /\ fmt \in [Dentries -> Fmts \cup {"none"}]
  /\ hard \in [Dentries -> BOOLEAN]
  /\ src \in [Dentries -> Opt(Dentries)]
  /\ nlink \in [Dentries -> Nat]
  /\ children \in [Dentries -> SUBSET Dentries]
  /\ inodeIndex \subseteq allocated
  /\ root \in Opt(allocated)
  /\ counts \in [dir : Nat, file : Nat]
  /\ dataVersion \in 0..MaxDataVersion
  /\ event \in Seq([dentry : Dentries, op : {"create", "update", "remove"},
                    field : {"basic", "children", "remove"},
                    child : Opt(Dentries)])
  /\ lastOp \in [res : {"OK", "ELOOP", "ENOMEM", "EOTHER"},
                 s : Opt(Dentries), d : Opt(Dentries),
                 sp : Opt(Dentries), dp : Opt(Dentries)]

Init ==
  /\ allocated = {}
  /\ parent = [x \in Dentries |-> Nil]
  /\ name = [x \in Dentries |-> ""]
  /\ fmt = [x \in Dentries |-> "none"]
  /\ hard = [x \in Dentries |-> FALSE]
  /\ src = [x \in Dentries |-> Nil]
  /\ nlink = [x \in Dentries |-> 0]
  /\ children = [x \in Dentries |-> {}]
  /\ inodeIndex = {}
  /\ root = Nil
  /\ counts = [dir |-> 0, file |-> 0]
  /\ dataVersion = 0
  /\ event = <<>>
  /\ lastOp = [res |-> "OK", s |-> Nil, d |-> Nil,
               sp |-> Nil, dp |-> Nil]

-----------------------------------------------------------------------------
(* Lookups and container operations *)

\* find_child: the child of p named nm (all dentries are loaded)
FindChild(p, nm) ==
  LET c == {x \in children[p] : name[x] = nm} IN
  IF fmt[p] # "dir" THEN [res |-> "ENOTDIR", d |-> Nil]
  ELSE IF c = {} THEN [res |-> "ENOENT", d |-> Nil]
  ELSE [res |-> "OK", d |-> CHOOSE x \in c : TRUE]

\* dentry_find_me: a NULL parent addresses the namespace root by ""
FindMe(p, nm) ==
  IF p # Nil THEN FindChild(p, nm)
  ELSE IF root = Nil THEN [res |-> IF nm = "" THEN "ENOENT" ELSE "EINVAL", d |-> Nil]
  ELSE IF nm = "" THEN [res |-> "OK", d |-> root]
  ELSE [res |-> "EINVAL", d |-> Nil]

\* check_parent: a non-zero parent inode must be in the inode index
ParentOk(p) == p = Nil \/ p \in inodeIndex

\* dentry_is_ancestor(x, p): x is p or one of p's ancestors
RECURSIVE AncestorWalk(_, _, _)
AncestorWalk(x, p, fuel) ==
  /\ p # Nil /\ fuel > 0
  /\ (p = x \/ AncestorWalk(x, parent[p], fuel - 1))

IsAncestor(x, p) == AncestorWalk(x, p, Cardinality(Dentries) + 1)

\* uniq_skiplist_delete / insert / replace on the children of p; replace
\* swaps in x for the entry with x's name under the name function nm
SlDelete(ch, p, x) == [ch EXCEPT ![p] = @ \ {x}]
SlInsert(ch, p, x) == [ch EXCEPT ![p] = @ \cup {x}]
SlReplace(ch, p, x, nm) == [ch EXCEPT ![p] = {y \in @ : nm[y] # nm[x]} \cup {x}]

\* Uncount with the directory and file counters swapped
UncountSwapped(cnt, dropped) ==
  [dir  |-> cnt.dir - Cardinality({x \in dropped : fmt[x] # "dir"}),
   file |-> cnt.file - Cardinality({x \in dropped : fmt[x] = "dir"})]

\* the namespace counters less the dentries freed: directories and files
Uncount(cnt, dropped) ==
  [dir  |-> cnt.dir - Cardinality({x \in dropped : fmt[x] = "dir"}),
   file |-> cnt.file - Cardinality({x \in dropped : fmt[x] # "dir"})]

\* The step's result as the properties tell results apart: success, ELOOP
\* (kept with the dentries the rename resolved), ENOMEM, or another error.
LastOp(r, s, d, sp, dp) ==
  CASE r = "ELOOP" -> [res |-> r, s |-> s, d |-> d, sp |-> sp, dp |-> dp]
    [] r \in {"OK", "ENOMEM"} -> [res |-> r, s |-> Nil, d |-> Nil, sp |-> Nil, dp |-> Nil]
    [] OTHER -> [res |-> "EOTHER", s |-> Nil, d |-> Nil, sp |-> Nil, dp |-> Nil]

\* deal_update_record after a failed operation: no version, no event
Fail(r, s, d, sp, dp) ==
  /\ lastOp' = LastOp(r, s, d, sp, dp)
  /\ event' = <<>>
  /\ UNCHANGED dataVersion

\* deal_update_record after success: the next data version, then
\* push_to_db_update_queue when storage is enabled
Succeed(s, d, sp, dp, msgs) ==
  /\ dataVersion < MaxDataVersion
  /\ dataVersion' = dataVersion + 1
  /\ event' = IF StorageEnabled THEN msgs ELSE <<>>
  /\ lastOp' = LastOp("OK", s, d, sp, dp)

-----------------------------------------------------------------------------
(* create: find_or_check_parent, set_hdlink_src_dentry, dentry_create.     *)
(* mode "hard" is a hard link to s; "none" carries no S_IFMT bits.         *)

CreateCheck(p, nm, mode, s) ==
  IF ~ParentOk(p) THEN "ENOENT"
  ELSE IF mode = "hard" /\ s \notin inodeIndex THEN "ENOENT"
  ELSE IF mode = "hard" /\ (fmt[s] = "dir" \/ hard[s]) THEN "EPERM"
  ELSE IF mode = "none" THEN "EINVAL"
  ELSE LET me == FindMe(p, nm) IN
       IF me.res = "OK" THEN "EEXIST"
       ELSE IF me.res = "ENOENT" THEN "OK" ELSE me.res

\* "create_insert" in oom: uniq_skiplist_insert into the parent fails
CreateDentry(p, nm, mode, s, oom) ==
  LET r == CreateCheck(p, nm, mode, s)
      n == Min(Dentries \ allocated)          \* inode_generator_next
      isHard == mode = "hard"
      linked == p = Nil \/ ~oom
  IN
  IF r # "OK"
  THEN /\ Fail(r, Nil, Nil, Nil, p)
       /\ UNCHANGED tree
  ELSE
  /\ allocated # Dentries
  /\ allocated' = allocated \cup {n}
  /\ parent' = [parent EXCEPT ![n] = p]
  /\ name' = [name EXCEPT ![n] = nm]
  /\ fmt' = [fmt EXCEPT ![n] = IF isHard THEN fmt[s] ELSE mode]
  /\ hard' = [hard EXCEPT ![n] = isHard]
  /\ src' = [src EXCEPT ![n] = IF isHard THEN s ELSE Nil]
  /\ nlink' = [x \in Dentries |->
                 IF x = n THEN 1
                 ELSE nlink[x] + (IF isHard /\ x = s THEN 1 ELSE 0)
                               + (IF linked /\ x = p THEN 1 ELSE 0)]
  /\ inodeIndex' = IF isHard THEN inodeIndex ELSE inodeIndex \cup {n}
  /\ children' = IF linked /\ p # Nil THEN SlInsert(children, p, n) ELSE children
  /\ root' = IF p = Nil THEN n ELSE root
  /\ IF linked
     THEN /\ counts' = IF fmt'[n] = "dir" THEN [counts EXCEPT !.dir = @ + 1]
                                          ELSE [counts EXCEPT !.file = @ + 1]
          /\ Succeed(n, Nil, Nil, p,
               CreateMsgs(IF isHard THEN <<<<s, "update">>>> ELSE <<>>, n, parent'))
     ELSE /\ UNCHANGED counts
          /\ Fail("ENOMEM", n, Nil, Nil, p)

-----------------------------------------------------------------------------
(* remove: find_or_check_parent, dentry_remove                             *)

\* do_remove_dentry without the counter decrement of a freed hard link
DoRemoveHardLinkUncounted(x) ==
  LET t == IF hard[x] THEN src[x] ELSE x
      gone == nlink[t] = 1
  IN [nlink    |-> [nlink EXCEPT ![t] = @ - 1],
      index    |-> IF gone THEN inodeIndex \ {t} ELSE inodeIndex,
      dropped  |-> IF gone THEN {t} ELSE {},
      affected |-> IF hard[x]
                   THEN <<<<t, IF gone THEN "remove" ELSE "update">>, <<x, "remove">>>>
                   ELSE <<<<x, IF gone THEN "remove" ELSE "update">>>>]

\* do_remove_dentry: drop one link of x.  t is the dentry whose nlink
\* falls (the source of a hard link); at zero it leaves the inode index.
\* A hard link itself is always freed.
DoRemove(x) ==
  LET t == IF hard[x] THEN src[x] ELSE x
      gone == nlink[t] = 1
  IN [nlink    |-> [nlink EXCEPT ![t] = @ - 1],
      index    |-> IF gone THEN inodeIndex \ {t} ELSE inodeIndex,
      dropped  |-> (IF gone THEN {t} ELSE {}) \cup (IF hard[x] THEN {x} ELSE {}),
      affected |-> IF hard[x]
                   THEN <<<<t, IF gone THEN "remove" ELSE "update">>, <<x, "remove">>>>
                   ELSE <<<<x, IF gone THEN "remove" ELSE "update">>>>]

RemoveDentry(p, nm) ==
  LET me == FindMe(p, nm)
      x == me.d
      r == IF ~ParentOk(p) THEN "ENOENT"
           ELSE IF me.res # "OK" THEN me.res
           ELSE IF fmt[x] = "dir" /\ children[x] # {} THEN "ENOTEMPTY"
           ELSE "OK"
      rm == DoRemove(x)
  IN
  IF r # "OK"
  THEN /\ Fail(r, Nil, Nil, Nil, p)
       /\ UNCHANGED tree
  ELSE
  /\ nlink' = IF p = Nil THEN rm.nlink ELSE [rm.nlink EXCEPT ![p] = @ - 1]
  /\ inodeIndex' = rm.index
  /\ counts' = Uncount(counts, rm.dropped)
  /\ children' = IF p = Nil THEN children ELSE SlDelete(children, p, x)
  /\ root' = IF p = Nil THEN Nil ELSE root
  /\ Succeed(x, Nil, Nil, p, RemoveMsgs(rm.affected, x, parent))
  /\ UNCHANGED <<allocated, parent, name, fmt, hard, src>>

-----------------------------------------------------------------------------
(* rename: deal_record_rename_op, rename_check, dentry_rename              *)

\* the rename checks without the test that s is an ancestor of dp
RenameCheckNoAncestorTest(sp, sn, dp, dn, flag) ==
  LET fs == FindChild(sp, sn)
      fd == FindChild(dp, dn)
      s == fs.d
      d == fd.d
      R(r) == [res |-> r, s |-> s, d |-> d]
  IN
  IF sp \notin inodeIndex \/ dp \notin inodeIndex THEN R("ENOENT")
  ELSE IF fs.res # "OK" THEN R(fs.res)
  ELSE IF fd.res # "OK"
       THEN IF flag = "exchange" \/ fd.res # "ENOENT" THEN R(fd.res)
            ELSE IF dp # sp /\ IsAncestor(dp, sp) THEN R("ELOOP")
            ELSE R("OK")
  ELSE IF flag = "noreplace" THEN R("EEXIST")
  ELSE IF flag # "exchange" /\ fmt[d] # fmt[s] THEN R("EINVAL")
  ELSE IF flag # "exchange" /\ fmt[d] = "dir" /\ children[d] # {} THEN R("ENOTEMPTY")
  ELSE IF d = s THEN R("EEXIST")
  ELSE IF dp # sp /\ IsAncestor(d, sp) THEN R("ELOOP")
  ELSE R("OK")

\* the rename checks without the test that an overwritten directory is empty
RenameCheckNonEmptyDest(sp, sn, dp, dn, flag) ==
  LET fs == FindChild(sp, sn)
      fd == FindChild(dp, dn)
      s == fs.d
      d == fd.d
      R(r) == [res |-> r, s |-> s, d |-> d]
  IN
  IF sp \notin inodeIndex \/ dp \notin inodeIndex THEN R("ENOENT")
  ELSE IF fs.res # "OK" THEN R(fs.res)
  ELSE IF fd.res # "OK"
       THEN IF flag = "exchange" \/ fd.res # "ENOENT" THEN R(fd.res)
            ELSE IF dp # sp /\ IsAncestor(s, dp) THEN R("ELOOP")
            ELSE IF dp # sp /\ IsAncestor(dp, sp) THEN R("ELOOP")
            ELSE R("OK")
  ELSE IF flag = "noreplace" THEN R("EEXIST")
  ELSE IF flag # "exchange" /\ fmt[d] # fmt[s] THEN R("EINVAL")
  ELSE IF d = s THEN R("EEXIST")
  ELSE IF dp # sp /\ IsAncestor(s, dp) THEN R("ELOOP")
  ELSE IF dp # sp /\ IsAncestor(d, sp) THEN R("ELOOP")
  ELSE R("OK")

\* rename_check, then the checks of dentry_rename, in the code's order
RenameCheck(sp, sn, dp, dn, flag) ==
  LET fs == FindChild(sp, sn)
      fd == FindChild(dp, dn)
      s == fs.d
      d == fd.d
      R(r) == [res |-> r, s |-> s, d |-> d]
  IN
  IF sp \notin inodeIndex \/ dp \notin inodeIndex THEN R("ENOENT")
  ELSE IF fs.res # "OK" THEN R(fs.res)
  ELSE IF fd.res # "OK"
       THEN IF flag = "exchange" \/ fd.res # "ENOENT" THEN R(fd.res)
            ELSE IF dp # sp /\ IsAncestor(s, dp) THEN R("ELOOP")
            ELSE IF dp # sp /\ IsAncestor(dp, sp) THEN R("ELOOP")
            ELSE R("OK")
  ELSE IF flag = "noreplace" THEN R("EEXIST")
  ELSE IF flag # "exchange" /\ fmt[d] # fmt[s] THEN R("EINVAL")
  ELSE IF flag # "exchange" /\ fmt[d] = "dir" /\ children[d] # {} THEN R("ENOTEMPTY")
  ELSE IF d = s THEN R("EEXIST")
  ELSE IF dp # sp /\ IsAncestor(s, dp) THEN R("ELOOP")
  ELSE IF dp # sp /\ IsAncestor(d, sp) THEN R("ELOOP")
  ELSE R("OK")

\* the outcome of a rename that changes no link count and frees nothing
Outcome(r, ch, nm, par) ==
  [res |-> r, children |-> ch, name |-> nm, parent |-> par, nlink |-> nlink,
   index |-> inodeIndex, dropped |-> {}, affected |-> <<>>]

\* set_and_store_dentry_name: x takes a copy of the new name when the name
\* changed (the old one is held for restore_dentry_name on failure)
SetAndStoreDentryName(nm, x, newName, changed) ==
  IF changed THEN [nm EXCEPT ![x] = newName] ELSE nm

\* exchange_dentry whose failed insert does not put d back into dp
ExchangeDentryNoDestRollback(s, d, sp, dp, sn, dn, oom) ==
  LET changed == sn # dn
      ch1 == SlDelete(children, sp, s)
      nm1 == SetAndStoreDentryName(name, s, dn, changed)
      ch2 == SlReplace(ch1, dp, s, nm1)
      nm2 == SetAndStoreDentryName(nm1, d, sn, changed)
  IN
  CASE changed /\ oom = "rename_name" ->
         Outcome("ENOMEM", SlInsert(ch1, sp, s), name, parent)
    [] changed /\ oom = "rename_dest_name" ->
         Outcome("ENOMEM", SlInsert(SlReplace(ch2, dp, d, nm1), sp, s), name, parent)
    [] oom = "rename_insert" -> Outcome("ENOMEM", SlInsert(ch2, sp, s), name, parent)
    [] OTHER -> Outcome("OK", SlInsert(ch2, sp, d), nm2,
                        [parent EXCEPT ![s] = dp, ![d] = sp])

\* exchange_dentry: every failure is rolled back step by step
ExchangeDentry(s, d, sp, dp, sn, dn, oom) ==
  LET changed == sn # dn
      ch1 == SlDelete(children, sp, s)
      nm1 == SetAndStoreDentryName(name, s, dn, changed)
      ch2 == SlReplace(ch1, dp, s, nm1)
      nm2 == SetAndStoreDentryName(nm1, d, sn, changed)
      ch3 == SlInsert(ch2, sp, d)
      \* rollback: d back in its slot of dp, s back into sp
      undo2 == SlInsert(SlReplace(ch2, dp, d, nm1), sp, s)
  IN
  CASE changed /\ oom = "rename_name" ->
         Outcome("ENOMEM", SlInsert(ch1, sp, s), name, parent)
    [] changed /\ oom = "rename_dest_name" -> Outcome("ENOMEM", undo2, name, parent)
    [] oom = "rename_insert" -> Outcome("ENOMEM", undo2, name, parent)
    [] OTHER -> Outcome("OK", ch3, nm2, [parent EXCEPT ![s] = dp, ![d] = sp])

\* move_dentry applying the no-overwrite nlink rule to an overwrite too
MoveDentrySymmetricNlink(s, d, sp, dp, sn, dn, oom) ==
  LET changed == sn # dn
      ch1 == SlDelete(children, sp, s)
      nm1 == SetAndStoreDentryName(name, s, dn, changed)
      rm == DoRemove(d)
      moved == [parent EXCEPT ![s] = dp]
      Shift(nl) == IF dp # sp THEN [nl EXCEPT ![sp] = @ - 1, ![dp] = @ + 1] ELSE nl
  IN
  CASE changed /\ oom = "rename_name" ->
         Outcome("ENOMEM", SlInsert(ch1, sp, s), name, parent)
    [] d = Nil /\ oom = "rename_insert" ->
         Outcome("ENOMEM", SlInsert(ch1, sp, s), name, parent)
    [] d = Nil -> [Outcome("OK", SlInsert(ch1, dp, s), nm1, moved) EXCEPT
                     !.nlink = Shift(nlink)]
    [] OTHER ->
         [res |-> "OK", children |-> SlReplace(ch1, dp, s, nm1), name |-> nm1,
          parent |-> moved, nlink |-> Shift(rm.nlink),
          index |-> rm.index, dropped |-> rm.dropped, affected |-> rm.affected]

\* move_dentry: moves s under dp as dn, overwriting d when it exists;
\* the parents' nlink follow the code's rule, not the children counts
MoveDentry(s, d, sp, dp, sn, dn, oom) ==
  LET changed == sn # dn
      ch1 == SlDelete(children, sp, s)
      nm1 == SetAndStoreDentryName(name, s, dn, changed)
      rm == DoRemove(d)
      moved == [parent EXCEPT ![s] = dp]
  IN
  CASE changed /\ oom = "rename_name" ->
         Outcome("ENOMEM", SlInsert(ch1, sp, s), name, parent)
    [] d = Nil /\ oom = "rename_insert" ->
         Outcome("ENOMEM", SlInsert(ch1, sp, s), name, parent)
    [] d = Nil ->
         [Outcome("OK", SlInsert(ch1, dp, s), nm1, moved) EXCEPT
            !.nlink = IF dp # sp THEN [nlink EXCEPT ![sp] = @ - 1, ![dp] = @ + 1]
                                 ELSE nlink]
    [] OTHER ->
         [res |-> "OK", children |-> SlReplace(ch1, dp, s, nm1), name |-> nm1,
          parent |-> moved, nlink |-> [rm.nlink EXCEPT ![sp] = @ - 1],
          index |-> rm.index, dropped |-> rm.dropped, affected |-> rm.affected]

\* deal_record_rename_op with a pname record: both parents by inode
RenameDentry(sp, sn, dp, dn, flag, oom) ==
  LET chk == RenameCheck(sp, sn, dp, dn, flag)
      s == chk.s
      d == chk.d
      o == IF flag = "exchange" THEN ExchangeDentry(s, d, sp, dp, sn, dn, oom)
                                ELSE MoveDentry(s, d, sp, dp, sn, dn, oom)
  IN
  /\ UNCHANGED <<allocated, fmt, hard, src, root>>
  /\ IF chk.res # "OK"
     THEN /\ Fail(chk.res, s, d, sp, dp)
          /\ UNCHANGED <<parent, name, nlink, children, inodeIndex, counts>>
     ELSE /\ children' = o.children
          /\ name' = o.name
          /\ parent' = o.parent
          /\ nlink' = o.nlink
          /\ inodeIndex' = o.index
          /\ counts' = Uncount(counts, o.dropped)
          /\ IF o.res = "OK"
             THEN Succeed(s, d, sp, dp,
                    RenameMsgs(flag = "exchange", o.affected, s, d, sp, dp, parent'))
             ELSE Fail(o.res, s, d, sp, dp)

-----------------------------------------------------------------------------
(* The update path of the shard: one record at a time                      *)

\* a NULL parent is only meaningful with the root's empty name; one other
\* name exercises the EINVAL branch of dentry_find_me
NamesFor(p) == IF p = Nil THEN {"", CHOOSE x \in Names : TRUE} ELSE Names

\* allocation failures are only reached once the checks have passed
CreateOoms(p, nm, mode, s) ==
  IF "create_insert" \in OomPoints /\ p # Nil /\ CreateCheck(p, nm, mode, s) = "OK"
  THEN BOOLEAN ELSE {FALSE}

RenameOoms(sp, sn, dp, dn, flag) ==
  IF RenameCheck(sp, sn, dp, dn, flag).res = "OK"
  THEN {"none"} \cup (OomPoints \ {"create_insert"}) ELSE {"none"}

Next ==
  \/ \E p \in Opt(Dentries), mode \in Fmts \cup {"hard", "none"} :
       \E nm \in NamesFor(p), s \in IF mode = "hard" THEN Dentries ELSE {Nil} :
         \E oom \in CreateOoms(p, nm, mode, s) : CreateDentry(p, nm, mode, s, oom)
  \/ \E p \in Opt(Dentries) : \E nm \in NamesFor(p) : RemoveDentry(p, nm)
  \/ \E sp, dp \in Dentries, sn, dn \in Names,
        flag \in {"default", "noreplace", "exchange"} :
       \E oom \in RenameOoms(sp, sn, dp, dn, flag) :
         RenameDentry(sp, sn, dp, dn, flag, oom)

Spec == Init /\ [][Next]_vars

-----------------------------------------------------------------------------
(* Properties *)

\* the dentries reachable from the root through the children skiplists
Linked == (IF root = Nil THEN {} ELSE {root}) \cup UNION {children[x] : x \in allocated}

\* the dentries the namespace counts: indexed inodes and linked hard links
Live == inodeIndex \cup {h \in Linked : hard[h]}

\* The children skiplists and parent pointers describe one tree: every
\* child points back at its directory, names are unique in a directory,
\* and every linked dentry reaches the root without a cycle.  Rename's
\* step-wise delete/replace/insert with rollback, and its ELOOP checks,
\* must preserve this.
TreeWellFormed ==
  /\ \A x \in allocated : \A c \in children[x] : parent[c] = x /\ fmt[x] = "dir"
  /\ \A x \in allocated : \A c1, c2 \in children[x] :
       c1 # c2 => name[c1] # name[c2]
  /\ \A x \in Linked : IsAncestor(root, x) /\ x \in Live
  /\ \A h \in Linked : hard[h] => src[h] \in inodeIndex

\* stat.nlink counts links: a directory's is one plus its children (kept
\* by create/remove and rename's asymmetric parent bookkeeping), a file's
\* is its own link plus the linked hard links to it (kept by
\* do_remove_dentry and the hard-link create).
LinkCountsExact ==
  \A x \in inodeIndex :
    nlink[x] = IF fmt[x] = "dir" THEN 1 + Cardinality(children[x])
               ELSE (IF x \in Linked THEN 1 ELSE 0)
                    + Cardinality({h \in Linked : hard[h] /\ src[h] = x})

\* The inode index holds exactly the non-hard-link dentries with links
\* left, and the namespace counters count exactly the live dentries:
\* do_remove_dentry and remove_src_dentry must drop each freed dentry once.
LiveDentriesAccounted ==
  /\ inodeIndex = {x \in allocated : ~hard[x] /\ nlink[x] > 0}
  /\ counts.dir = Cardinality({x \in Live : fmt[x] = "dir"})
  /\ counts.file = Cardinality({x \in Live : fmt[x] # "dir"})

\* An update that returns an error leaves the tree as it was: the
\* rollbacks of exchange_dentry and move_dentry undo every step taken
\* before an allocation failure (spec P8 / I7).
FailedUpdateChangesNothing ==
  [][lastOp'.res # "OK" => UNCHANGED tree]_vars

\* Every message the change-notify builder emits describes a change the
\* update made to a live dentry: children messages match a membership
\* change of that directory, and no message names a dentry that was
\* neither live before nor after the update.
EventMessagesAccurate ==
  [][lastOp'.res = "OK" =>
       \A m \in Range(event') :
         /\ m.dentry \in Live \cup Live'
         /\ m.field = "children" /\ m.op = "remove" =>
              m.child \in children[m.dentry] \ children'[m.dentry]
         /\ m.field = "children" /\ m.op # "remove" =>
              m.child \in children'[m.dentry]]_vars

\* Every change an update makes to the persistent tree is in its event:
\* a child leaving a directory, a child entering one or renamed in it, a
\* dentry's parent or name, and a dentry leaving the inode index.
EventCoversChanges ==
  [][lastOp'.res = "OK" /\ StorageEnabled =>
       /\ \A x \in allocated : \A c \in children[x] \ children'[x] :
            Msg(x, "remove", "children", c) \in Range(event')
       /\ \A x \in allocated' : \A c \in children'[x] :
            (c \notin children[x] \/ name'[c] # name[c]) =>
              \E m \in Range(event') :
                m.dentry = x /\ m.field = "children" /\ m.child = c /\ m.op # "remove"
       /\ \A x \in allocated' :
            (parent'[x] # parent[x] \/ name'[x] # name[x]) /\ x \in Live' =>
              Msg(x, "update", "basic", Nil) \in Range(event')
              \/ Msg(x, "create", "basic", Nil) \in Range(event')
       /\ \A x \in inodeIndex \ inodeIndex' :
            Msg(x, "remove", "remove", Nil) \in Range(event')]_vars

\* An event never holds more messages than FDIRChangeNotifyMessageArray
\* has slots (FDIR_CHANGE_NOTIFY_MAX_MSGS_PER_EVENT).
MessageBound == Len(event) <= MaxMsgsPerEvent

\* dentry_rename refuses with ELOOP only a rename that would make a
\* directory its own ancestor: s moved under one of its descendants, or
\* (exchange) d moved under one of its descendants.
RenameLoopOnlyForCycles ==
  lastOp.res = "ELOOP" =>
    IsAncestor(lastOp.s, lastOp.dp)
    \/ (lastOp.d # Nil /\ IsAncestor(lastOp.d, lastOp.sp))
=============================================================================
