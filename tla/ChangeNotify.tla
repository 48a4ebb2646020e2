---------------------------- MODULE ChangeNotify ----------------------------
(***************************************************************************)
(* The change-notify builder of the data thread (src/server/data_thread.c,*)
(* the GENERATE_* macros and generate_*_messages): from a completed       *)
(* mutation record it builds the messages of one FDIRChangeNotifyEvent,   *)
(* which the persistence pipeline consumes.  These are pure operators;    *)
(* DentryTree applies them to the post-state of each successful update.   *)
(*                                                                         *)
(* A message is a record: the dentry whose piece-field it updates, the    *)
(* op type (create / update / remove), the field (basic, children, or     *)
(* the virtual "remove" field FDIR_PIECE_FIELD_INDEX_FOR_REMOVE) and, for *)
(* children messages, the child inode.  Buffers, alloc deltas and child   *)
(* names are left out: no property here depends on them.                 *)
(*                                                                         *)
(* par is the dentries' parent function as the builder reads it, i.e.    *)
(* after the mutation; aff is record->affected as a sequence of           *)
(* <<dentry, op_type>> pairs.                                              *)
(***************************************************************************)
EXTENDS Sequences, SequencesExt

CONSTANT Nil

\* FDIR_CHANGE_NOTIFY_MAX_MSGS_PER_EVENT (src/server/db/change_notify.h)
MaxMsgsPerEvent == 4

Msg(d, op, field, c) == [dentry |-> d, op |-> op, field |-> field, child |-> c]

\* GENERATE_ADD_TO_PARENT_MESSAGE: the child d enters its parent's children
AddToParentMsgs(d, op, par) ==
  IF par[d] # Nil THEN <<Msg(par[d], op, "children", d)>> ELSE <<>>

\* GENERATE_REMOVE_FROM_PARENT_MESSAGE: child c leaves p's children
RemoveFromParentMsgs(p, c) ==
  IF p # Nil THEN <<Msg(p, "remove", "children", c)>> ELSE <<>>

\* GENERATE_REOMVE_DENTRY_MESSAGES: unlink from the parent, then remove d
RemoveDentryMsgs(d, par) ==
  RemoveFromParentMsgs(par[d], d) \o <<Msg(d, "remove", "remove", Nil)>>

\* GENERATE_DENTRY_MESSAGES: link into the parent, then d's basic field
DentryMsgs(d, op, par) ==
  AddToParentMsgs(d, "create", par) \o <<Msg(d, op, "basic", Nil)>>

\* GENERATE_MOVE_DENTRY_MESSAGES: d moved from oldp to par[d]
MoveDentryMsgs(oldp, d, par) ==
  RemoveFromParentMsgs(oldp, d) \o DentryMsgs(d, "update", par)

\* one entry of record->affected, as generate_affected_messages renders it
AffectedMsg(a, par) ==
  IF a[2] = "remove" THEN RemoveDentryMsgs(a[1], par)
                     ELSE <<Msg(a[1], "update", "basic", Nil)>>

\* generate_affected_messages
AffectedMsgs(aff, par) ==
  FoldLeft(LAMBDA acc, a : acc \o AffectedMsg(a, par), <<>>, aff)

\* push_to_db_update_queue, case BINLOG_OP_CREATE_DENTRY_INT
CreateMsgs(aff, me, par) ==
  AffectedMsgs(aff, par) \o DentryMsgs(me, "create", par)

\* generate_remove_messages: the unlink from the parent is added only when
\* the removed dentry itself is not among the affected removals
RemoveMsgs(aff, me, par) ==
  AffectedMsgs(aff, par) \o
    (IF \E i \in DOMAIN aff : aff[i] = <<me, "remove">>
     THEN <<>> ELSE RemoveFromParentMsgs(par[me], me))

\* generate_rename_messages; s and d are the source and destination dentries
\* and sp, dp their parents as resolved before the rename
RenameMsgs(exchange, aff, s, d, sp, dp, par) ==
  IF exchange
  THEN IF sp = dp
       THEN AddToParentMsgs(s, "update", par) \o AddToParentMsgs(d, "update", par)
              \o <<Msg(s, "update", "basic", Nil), Msg(d, "update", "basic", Nil)>>
       ELSE MoveDentryMsgs(sp, s, par) \o MoveDentryMsgs(dp, d, par)
  ELSE AffectedMsgs(aff, par) \o
         (IF par[s] = sp
          THEN AddToParentMsgs(s, "update", par) \o <<Msg(s, "update", "basic", Nil)>>
          ELSE MoveDentryMsgs(sp, s, par))

=============================================================================
