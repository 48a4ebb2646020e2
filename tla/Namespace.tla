------------------------------ MODULE Namespace ------------------------------
(***************************************************************************)
(* What one namespace of the directory server promises its clients (spec   *)
(* 3 and 4.3), without dentries, skiplists, link counts or rollbacks: a   *)
(* finite map from paths (sequences of names, <<>> for "/") to the file   *)
(* each path names, as an id and a kind.  Hard links are paths naming the *)
(* same id.  An update either fails and changes nothing, or is one of:    *)
(*   - create a path for a new file in an existing directory (the root    *)
(*     path only while the namespace is empty);                          *)
(*   - link a new path to an existing file that is no directory;          *)
(*   - remove a path that is no directory with entries below it;         *)
(*   - move a subtree to a path outside it, replacing an entry of the same *)
(*     kind there (an empty one if a directory);                         *)
(*   - exchange two subtrees, neither inside the other.                   *)
(***************************************************************************)
EXTENDS Naturals, Sequences, FiniteSets, TLC

LOCAL SE == INSTANCE SequencesExt
LOCAL F == INSTANCE Functions

CONSTANTS
  Names,     \* the names a path is made of
  Ids,       \* the file ids (inodes)
  MaxDepth   \* no path is longer: the bound on what a step may create

VARIABLE ns  \* path -> [id, kind]

Kinds == {"dir", "reg", "lnk"}
Paths == UNION {[1..n -> Names] : n \in 0..MaxDepth}

Entry(id, k) == [id |-> id, kind |-> k]

TypeOK == ns \in [DOMAIN ns -> [id : Ids, kind : Kinds]] /\ DOMAIN ns \subseteq Paths

\* The operators below take a namespace m (and m1, the one after a step),
\* so that a step reads ns and ns' once however they are given.

\* p names a directory of m
IsDir(m, p) == p \in DOMAIN m /\ m[p].kind = "dir"

\* the paths of p's subtree, p included
Sub(m, p) == {q \in DOMAIN m : SE!IsPrefix(p, q)}

\* nothing below p
Empty(m, p) == Sub(m, p) = {p}

UsedIds(m) == {m[p].id : p \in DOMAIN m}

\* q, a path of the subtree at s, rebased at d
Rebase(q, s, d) == d \o SubSeq(q, Len(s) + 1, Len(q))

\* the subtree at s, moved to d
MovedTo(m, s, d) == [q \in {Rebase(r, s, d) : r \in Sub(m, s)} |-> m[Rebase(q, d, s)]]

\* m without the paths of S
Without(m, S) == F!Restrict(m, DOMAIN m \ S)

\* a new path p, in a directory or as the root of an empty namespace
Fresh(m, p) ==
  /\ p \notin DOMAIN m
  /\ IF p = <<>> THEN DOMAIN m = {} ELSE IsDir(m, SE!Front(p))

Init == ns = [p \in {} |-> Entry(CHOOSE i \in Ids : TRUE, "dir")]

Create(m, m1, p, k, id) ==
  /\ Fresh(m, p)
  /\ id \notin UsedIds(m)
  /\ m1 = (p :> Entry(id, k)) @@ m

Link(m, m1, p, q) ==
  /\ Fresh(m, p) /\ p # <<>>
  /\ m[q].kind # "dir"
  /\ m1 = (p :> m[q]) @@ m

Remove(m, m1, p) ==
  /\ Empty(m, p)
  /\ m1 = Without(m, {p})

Move(m, m1, s, d) ==
  /\ s # <<>> /\ d # <<>>
  /\ IsDir(m, SE!Front(d))
  /\ ~SE!IsPrefix(s, d)
  /\ d \in DOMAIN m => m[d].kind = m[s].kind /\ Empty(m, d)
  /\ m1 = MovedTo(m, s, d) @@ Without(m, Sub(m, s) \cup {d})

Exchange(m, m1, s, d) ==
  /\ s # <<>> /\ d # <<>>
  /\ ~SE!IsPrefix(s, d) /\ ~SE!IsPrefix(d, s)
  /\ m1 = MovedTo(m, s, d) @@ MovedTo(m, d, s) @@ Without(m, Sub(m, s) \cup Sub(m, d))

\* m1 is m after one update
Step(m, m1) ==
  \/ \E p \in Paths, k \in Kinds, id \in Ids : Create(m, m1, p, k, id)
  \/ \E p \in Paths, q \in DOMAIN m : Link(m, m1, p, q)
  \/ \E p \in DOMAIN m : Remove(m, m1, p)
  \/ \E s \in DOMAIN m, d \in Paths : Move(m, m1, s, d)
  \/ \E s, d \in DOMAIN m : Exchange(m, m1, s, d)

Next == Step(ns, ns')

\* [][Next]_ns, with the stuttering step written first: a failed update
\* is then recognised without enumerating the steps of Next
Spec == Init /\ [][UNCHANGED ns \/ Next]_ns
=============================================================================
