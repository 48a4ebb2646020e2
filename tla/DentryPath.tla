----------------------------- MODULE DentryPath -----------------------------
(***************************************************************************)
(* The full-path functions of dentry.c over the tree of DentryTree:       *)
(* dentry_find_parent, dentry_find_ex (dentry_find_parent_and_me and       *)
(* do_find_ex), dentry_find_by_pname and dentry_get_full_path.             *)
(*                                                                         *)
(* A path is the sequence of its names.  dentry_get_full_path renders it   *)
(* as "/" before each name and a NUL after the last; split_string_ex on   *)
(* '/' with empty parts ignored takes such a string back to its names     *)
(* (names hold no '/').  What the byte buffer makes observable is the      *)
(* rendered length, so each name has a length in bytes.  Lookups are       *)
(* checked on the paths dentry_get_full_path produces, which have at most  *)
(* FDIR_MAX_PATH_COUNT names, so the split never truncates.  A namespace   *)
(* without a root (or not yet created) is root = Nil.                      *)
(***************************************************************************)
EXTENDS DentryTree

LOCAL SE == INSTANCE SequencesExt

CONSTANTS
  MaxPathCount,  \* FDIR_MAX_PATH_COUNT
  NameLen,       \* the length in bytes of each name
  BuffSize       \* full_path->alloc_size

ASSUME MaxPathCount \in Nat \ {0} /\ NameLen \in [Names -> Nat \ {0}] /\ BuffSize \in Nat

\* do_find_ex: from dentry d, find_child for each name of ps in turn
RECURSIVE DoFindEx(_, _)
DoFindEx(d, ps) ==
  IF ps = <<>> THEN [res |-> "OK", d |-> d]
  ELSE LET c == FindChild(d, Head(ps)) IN
       IF c.res # "OK" THEN c ELSE DoFindEx(c.d, Tail(ps))

\* the walk to the parent of the last name: the root itself for one name
ParentWalk(ps) ==
  IF Len(ps) = 1 THEN [res |-> "OK", d |-> root]
  ELSE DoFindEx(root, SubSeq(ps, 1, Len(ps) - 1))

FindParent(ps) ==
  IF root = Nil THEN [res |-> "ENOENT", p |-> Nil, my |-> ""]
  ELSE IF ps = <<>> THEN [res |-> "OK", p |-> Nil, my |-> ""]
  ELSE LET w == ParentWalk(ps) IN
       IF w.res # "OK" THEN [res |-> w.res, p |-> Nil, my |-> SE!Last(ps)]
       ELSE IF fmt[w.d] # "dir" THEN [res |-> "ENOTDIR", p |-> Nil, my |-> SE!Last(ps)]
       ELSE [res |-> "OK", p |-> w.d, my |-> SE!Last(ps)]

\* dentry_find_parent_and_me: "/" is the root; otherwise find_child of the
\* last name in the parent the walk reached
FindParentAndMe(ps) ==
  IF root = Nil THEN [res |-> "ENOENT", d |-> Nil]
  ELSE IF ps = <<>> THEN [res |-> "OK", d |-> root]
  ELSE LET w == ParentWalk(ps) IN
       IF w.res # "OK" THEN [res |-> w.res, d |-> Nil]
       ELSE FindChild(w.d, SE!Last(ps))

\* SET_HARD_LINK_DENTRY: a hard link stands for its source dentry
HardLinkFollow(r) ==
  IF r.res = "OK" /\ hard[r.d] THEN [r EXCEPT !.d = src[r.d]] ELSE r

\* dentry_find_ex
FindEx(ps, hdlinkFollow) ==
  LET r == FindParentAndMe(ps) IN IF hdlinkFollow THEN HardLinkFollow(r) ELSE r

\* dentry_find_by_pname: find_child, following a hard link
FindByPname(p, nm) == HardLinkFollow(FindChild(p, nm))

\* the loop of dentry_get_full_path: names from x upwards, nearest first,
\* while x has a parent and fewer than FDIR_MAX_PATH_COUNT were taken
RECURSIVE PathParts(_, _)
PathParts(x, acc) ==
  IF parent[x] = Nil \/ Len(acc) = MaxPathCount THEN [parts |-> acc, top |-> x]
  ELSE PathParts(parent[x], Append(acc, name[x]))

\* bytes of "/name" for the first k names of ps
RenderedLen(ps, k) == SE!FoldLeft(LAMBDA a, n : a + 1 + NameLen[n], 0, SubSeq(ps, 1, k))

\* mutant: the room check leaves no byte for the NUL
GetFullPathNoNul(d) ==
  LET w == PathParts(d, <<>>)
      ps == SE!Reverse(w.parts)
  IN IF Len(w.parts) = MaxPathCount /\ parent[w.top] # Nil THEN [res |-> "EOVERFLOW"]
     ELSE IF \E k \in 1..Len(ps) : RenderedLen(ps, k - 1) + NameLen[ps[k]] + 1 > BuffSize
          THEN [res |-> "ENOSPC"]
     ELSE [res |-> "OK", path |-> ps, length |-> RenderedLen(ps, Len(ps))]

\* dentry_get_full_path: EOVERFLOW past FDIR_MAX_PATH_COUNT levels, then
\* from the root down each "/name" must leave room for the NUL
GetFullPath(d) ==
  LET w == PathParts(d, <<>>)
      ps == SE!Reverse(w.parts)
  IN IF Len(w.parts) = MaxPathCount /\ parent[w.top] # Nil THEN [res |-> "EOVERFLOW"]
     ELSE IF \E k \in 1..Len(ps) : RenderedLen(ps, k - 1) + NameLen[ps[k]] + 2 > BuffSize
          THEN [res |-> "ENOSPC"]
     ELSE [res |-> "OK", path |-> ps, length |-> RenderedLen(ps, Len(ps))]

-----------------------------------------------------------------------------
(* Update records addressed by full path (fdir_dentry_type_fullname).     *)
(* service_set_record_pname_info and service_set_record_link, outside    *)
(* src/, are taken to succeed.  A hard link's source by path goes through *)
(* dentry_find, outside src/, so hard links are created by parent inode   *)
(* only (DentryTree).                                                      *)

\* the paths a request may carry
Paths == UNION {[1..k -> Names] : k \in 0..MaxPathCount}

\* find_or_check_parent for a fullname record: a create of "/" goes on
\* after ENOENT (no root yet) and fails with EEXIST when the root exists
FindOrCheckParent(ps, isCreate) ==
  LET f == FindParent(ps) IN
  IF f.res # "OK"
  THEN IF f.res = "ENOENT" /\ isCreate /\ ps = <<>> THEN [f EXCEPT !.res = "OK"] ELSE f
  ELSE IF isCreate /\ ps = <<>> THEN [f EXCEPT !.res = "EEXIST"]
  ELSE f

\* set_pname_by_fullname (allow_root_path false): "/" has no parent
SetPnameByFullname(ps) ==
  LET f == FindParent(ps) IN
  IF f.res = "OK" /\ f.p = Nil THEN [f EXCEPT !.res = "EINVAL"] ELSE f

\* deal_update_record for a create by path
CreateByPath(ps, mode) ==
  LET f == FindOrCheckParent(ps, TRUE) IN
  IF f.res # "OK"
  THEN Fail(f.res, Nil, Nil, Nil, Nil) /\ UNCHANGED tree
  ELSE \E oom \in CreateOoms(f.p, f.my, mode, Nil) : CreateDentry(f.p, f.my, mode, Nil, oom)

\* deal_update_record for a remove by path
RemoveByPath(ps) ==
  LET f == FindOrCheckParent(ps, FALSE) IN
  IF f.res # "OK"
  THEN Fail(f.res, Nil, Nil, Nil, Nil) /\ UNCHANGED tree
  ELSE RemoveDentry(f.p, f.my)

\* deal_record_rename_op with fullname entries: source, then destination
RenameByPath(sps, dps, flag) ==
  LET fs == SetPnameByFullname(sps)
      fd == SetPnameByFullname(dps)
  IN
  IF fs.res # "OK" \/ fd.res # "OK"
  THEN Fail(IF fs.res # "OK" THEN fs.res ELSE fd.res, Nil, Nil, Nil, Nil) /\ UNCHANGED tree
  ELSE \E oom \in RenameOoms(fs.p, fs.my, fd.p, fd.my, flag) :
         RenameDentry(fs.p, fs.my, fd.p, fd.my, flag, oom)

\* records by parent inode and records by full path; the rename flags act
\* after the parents are resolved, as for records by inode, so renames by
\* path carry the default flag
FullNext ==
  \/ Next
  \/ \E ps \in Paths, mode \in Fmts \cup {"none"} : CreateByPath(ps, mode)
  \/ \E ps \in Paths : RemoveByPath(ps)
  \/ \E sps, dps \in Paths : RenameByPath(sps, dps, "default")

FullSpec == Init /\ [][FullNext]_vars

-----------------------------------------------------------------------------
(* Properties *)

\* The reference path of a dentry of the tree: its names from the root down.
RECURSIVE PathFromRoot(_)
PathFromRoot(x) == IF x = root THEN <<>> ELSE Append(PathFromRoot(parent[x]), name[x])

\* dentry_get_full_path renders every dentry of the tree, after any
\* sequence of creates, removes, renames and exchanges, as its names from
\* the root down; it fails with EOVERFLOW exactly when the dentry is more
\* than FDIR_MAX_PATH_COUNT levels deep, and with ENOSPC exactly when the
\* path and its NUL do not fit the buffer.
FullPathExact ==
  \A d \in Linked :
    LET ref == PathFromRoot(d)
        fp == GetFullPath(d)
    IN /\ fp.res = IF Len(ref) > MaxPathCount THEN "EOVERFLOW"
                   ELSE IF RenderedLen(ref, Len(ref)) + 1 > BuffSize THEN "ENOSPC"
                   ELSE "OK"
       /\ fp.res = "OK" => fp.path = ref /\ fp.length = RenderedLen(ref, Len(ref))

AbsNs ==
  LET path == [x \in Linked |-> PathFromRoot(x)] IN
  [p \in {path[x] : x \in Linked} |->
     LET d == CHOOSE x \in Linked : path[x] = p IN
     [id |-> IF hard[d] THEN src[d] ELSE d, kind |-> fmt[d]]]
=============================================================================
