---------------------------- MODULE MCMatchmaking ----------------------------
(* Ann and Ben are barred from each other; Cat may be matched with anybody. *)
EXTENDS Matchmaking, TLC

CONSTANTS ann, ben, cat, enterA, enterB, enterC

MCUsers    == {ann, ben, cat}
MCRequests == {enterA, enterB, enterC}
MCUserOf   == (enterA :> ann) @@ (enterB :> ben) @@ (enterC :> cat)
MCBarred   == {<<ann, ben>>, <<ben, ann>>}
=============================================================================
