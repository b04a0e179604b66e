---------------------------- MODULE MCGroupCalls ----------------------------
(* Ann created the group and administers it, Ben is a member: either may start
   the call, and Ann may kick Ben out of a call she is not in. *)
EXTENDS GroupCalls

CONSTANTS ann, ben

MCUsers  == {ann, ben}
MCAdmins == {ann}
=============================================================================
