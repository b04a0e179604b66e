---------------------------- MODULE MCConnections ----------------------------
(* Ann has two devices and is a member of two rooms.  She is removed from the first,
   added again and invited again, in any order, and that room is deleted. *)
EXTENDS Connections

CONSTANTS ann, phone, laptop, room1, room2

MCUserOf  == [c \in {phone, laptop} |-> ann]
MCMembers == {<<ann, room1>>, <<ann, room2>>}
Handles(id, op) == [id |-> id, op |-> op, user |-> ann, room |-> room1]
MCChanges == {Handles(1, "remove"), Handles(2, "invite"), Handles(3, "add"), Handles(4, "delete")}
=============================================================================
