---------------------------- MODULE MCLikeBuffer ----------------------------
(* Ann likes two posts, one of which may be deleted.  A chunk can hold both. *)
EXTENDS LikeBuffer, TLC

CONSTANTS annPost, annOther, post, other, one, two

MCPairs  == {annPost, annOther}
MCItems  == {post, other}
MCItemOf == (annPost :> post) @@ (annOther :> other)
=============================================================================
