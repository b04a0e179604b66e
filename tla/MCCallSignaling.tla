--------------------------- MODULE MCCallSignaling ---------------------------
(* Alice and Bob, on two servers, call each other at the same time.  The
   first server has push notifications, the second has not. *)
EXTENDS CallSignaling, TLC

CONSTANTS alice, bob, call1, call2, server1, server2

MCUsers    == {alice, bob}
MCCalls    == {call1, call2}
MCCallerOf == (call1 :> alice) @@ (call2 :> bob)
MCCalleeOf == (call1 :> bob)   @@ (call2 :> alice)
MCServerOf == (alice :> server1) @@ (bob :> server2)
MCMayCall  == {<<alice, bob>>, <<bob, alice>>}
=============================================================================
