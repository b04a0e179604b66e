-------------------------- MODULE MCMessageFlusher --------------------------
(* A small instance for TLC: one persistent and one stranger room.  Three
   messages in a room make a batch of two chunks, and leave one to arrive
   while an earlier batch is in flight. *)
EXTENDS MessageFlusher, TLC

CONSTANTS room1, strangerRoom, a1, a2, a3, z1, server1, server2

MCRooms    == {room1, strangerRoom}
MCStranger == {strangerRoom}
MCMessages == {a1, a2, a3, z1}
MCRoomOf   == (a1 :> room1) @@ (a2 :> room1) @@ (a3 :> room1) @@ (z1 :> strangerRoom)
=============================================================================
