-------------------------- MODULE DentrySerializer --------------------------
(***************************************************************************)
(* dentry_serializer.c: dentry_serializer_pack packs one piece field of a *)
(* dentry of the tree (basic, children or xattr) into a pooled buffer as a *)
(* stream of tagged fields (field id, sf_serializer type, payload).  The   *)
(* stream's framing (sf_serializer_pack_begin/end) is left out.            *)
(*                                                                         *)
(* The tree of DentryTree has no times, owners, sizes, hash codes, link    *)
(* targets or xattrs: the payload of such a field is the pair (member,     *)
(* dentry), read back as that dentry's member.  The mode is its format and *)
(* whether it is a hard link.  Allocation failures of the buffer pool,     *)
(* the serializer's buffer growth and realloc_array are not modelled: on  *)
(* any pack error deal_update_record terminates the process after         *)
(* push_to_db_update_queue fails.                                          *)
(***************************************************************************)
EXTENDS DentryPath

LOCAL SE == INSTANCE SequencesExt

CONSTANTS
  NameRank,     \* dentry_compare: the order fc_string_compare gives names
  FixedInodes   \* FIXED_INODES_ARRAY_SIZE: inodes pack_children holds on its stack

ASSUME NameRank \in [Names -> Nat] /\ FixedInodes \in Nat \ {0}

\* the fields of the piece streams and the payload of a field the tree
\* does not model
Field(id, type, val) == [id |-> id, type |-> type, val |-> val]
Member(m, d) == <<m, d>>

\* FDIR_PIECE_FIELD_INDEX_BASIC, _CHILDREN, _XATTR
PieceFields == {"basic", "children", "xattr"}

\* dentry->kv_array->count: the tree carries no xattrs
XattrCount(d) == 0

\* the stat members pack_basic packs with sf_serializer_pack_integer after
\* the mode, in order, with their DENTRY_FIELD_ID_*
StatFields == <<<<11, "atime">>, <<12, "btime">>, <<13, "ctime">>, <<14, "mtime">>,
                <<15, "uid">>, <<16, "gid">>, <<17, "file_size">>,
                <<18, "alloc_size">>, <<19, "space_end">>>>

\* pack_basic: inode, parent inode (0 for the root), name, the hard link's
\* source or a symlink's target, then mode, the stat members, nlink and
\* the hash code
PackBasic(d) ==
  << Field(1, "int64", d),
     Field(2, "int64", IF parent[d] # Nil THEN parent[d] ELSE 0),
     Field(3, "string", name[d]) >>
  \o (IF hard[d] THEN << Field(5, "int64", src[d]) >>
      ELSE IF fmt[d] = "lnk" THEN << Field(6, "string", Member("link", d)) >>
      ELSE << >>)
  \o << Field(10, "integer", <<fmt[d], hard[d]>>) >>
  \o [i \in 1..Len(StatFields) |->
        Field(StatFields[i][1], "integer", Member(StatFields[i][2], d))]
  \o << Field(20, "integer", nlink[d]), Field(40, "int32", Member("hash_code", d)) >>

\* the children of d in the iteration order of their skiplist
ChildrenInOrder(d) ==
  SE!SetToSortSeq(children[d], LAMBDA x, y : NameRank[name[x]] < NameRank[name[y]])

\* an element of a malloc'ed array that nothing was stored in: a value
\* that is no inode of the tree
Unset == Nil

\* mutant: the copy leaves out the last element stored
ReallocArrayShortCopy(a) ==
  [a EXCEPT !.alloc = a.alloc * 2,
            !.elts = [i \in 1..a.alloc * 2 |-> IF i < a.count THEN a.elts[i] ELSE Unset]]

\* realloc_array: twice the room, the count elements stored so far copied
ReallocArray(a) ==
  [a EXCEPT !.alloc = a.alloc * 2,
            !.elts = [i \in 1..a.alloc * 2 |-> IF i <= a.count THEN a.elts[i] ELSE Unset]]

\* one turn of the loop of pack_children: grow a full array, store the inode
PackChildStep(a, c) ==
  LET g == IF a.count >= a.alloc THEN ReallocArray(a) ELSE a IN
  [g EXCEPT !.elts = [@ EXCEPT ![g.count + 1] = c], !.count = g.count + 1]

\* pack_children: the inodes of the children, from the stack array of
\* FIXED_INODES_ARRAY_SIZE elements and its heap copies
PackChildren(d) ==
  LET a == SE!FoldLeft(PackChildStep,
                       [elts |-> [i \in 1..FixedInodes |-> Unset], alloc |-> FixedInodes, count |-> 0],
                       ChildrenInOrder(d))
  IN << Field(50, "int64_array", [i \in 1..a.count |-> a.elts[i]]) >>

\* dentry_serializer_pack: an empty children list or xattr array packs no
\* buffer; children of a non-directory are EINVAL
DentrySerializerPack(d, fieldIndex) ==
  CASE fieldIndex = "children" /\ children[d] = {} -> [res |-> "OK", buffer |-> Nil]
    [] fieldIndex = "xattr" /\ XattrCount(d) = 0 -> [res |-> "OK", buffer |-> Nil]
    [] fieldIndex = "basic" -> [res |-> "OK", buffer |-> PackBasic(d)]
    [] fieldIndex = "children" /\ fmt[d] = "dir" -> [res |-> "OK", buffer |-> PackChildren(d)]
    [] fieldIndex = "children" -> [res |-> "EINVAL", buffer |-> Nil]
    [] OTHER -> [res |-> "OK", buffer |-> << Field(30, "map", Member("xattr", d)) >>]

-----------------------------------------------------------------------------
(* Properties *)

\* a reader of a piece stream: each field id to its payload, where no id
\* occurs twice
Unpack(buf) ==
  [id \in {buf[i].id : i \in DOMAIN buf} |-> buf[CHOOSE i \in DOMAIN buf : buf[i].id = id].val]
IdsUnique(buf) == \A i, j \in DOMAIN buf : i # j => buf[i].id # buf[j].id

\* The pieces of the linked dentries rebuild the tree (spec 6 and 8: the
\* pieces are the on-disk form a loader reads back): every basic and
\* children piece packs, each stream names each field once, the basic
\* pieces give each dentry's inode, name, hard-link source and mode and
\* name the root alone with parent 0; the children piece of a directory
\* lists exactly the dentries whose basic piece names it as parent, in the
\* strict order of the names those pieces carry; an empty directory and a
\* file pack no children buffer.
PiecesRebuildTree ==
  LET P(d, f) == DentrySerializerPack(d, f)
      B(d) == Unpack(P(d, "basic").buffer)
      C(d) == IF P(d, "children").buffer = Nil THEN << >>
              ELSE Unpack(P(d, "children").buffer)[50]
  IN
  /\ \A d \in Linked :
       /\ P(d, "basic").res = "OK" /\ P(d, "children").res = "OK"
       /\ IdsUnique(P(d, "basic").buffer)
       /\ B(d)[1] = d /\ B(d)[3] = name[d] /\ B(d)[10] = <<fmt[d], hard[d]>>
       /\ (B(d)[2] = 0) = (d = root)
       /\ (5 \in DOMAIN B(d)) = hard[d] /\ (hard[d] => B(d)[5] = src[d])
       /\ (6 \in DOMAIN B(d)) = (fmt[d] = "lnk" /\ ~hard[d])
  /\ \A p \in Linked :
       /\ Range(C(p)) = {d \in Linked \ {root} : B(d)[2] = p}
       /\ \A i \in 1..Len(C(p)) - 1 : NameRank[B(C(p)[i])[3]] < NameRank[B(C(p)[i + 1])[3]]
=============================================================================
