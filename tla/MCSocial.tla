------------------------------ MODULE MCSocial ------------------------------
(* Three users, one of whom pays, and one room of strangers, which any of them may
   name; up to two requests are under way. *)
EXTENDS Social, TLC

CONSTANTS ann, ben, cat, h1, h2

MCUsers    == {ann, ben, cat}
MCHandlers == {h1, h2}
MCSymmetry == Permutations(MCHandlers) \union Permutations({ben, cat})

(* All three until the last request, which is explored for two of them: it finds ben
   or cat with nothing done, as if he had never been there. *)
Untouched(u) ==
  /\ ~isPrivate[u]
  /\ \A h \in Handlers : u \notin Pair(h)
  /\ \A p \in Orders : u \in {p[1], p[2]} => request[p] = NoRow /\ p \notin blocks \union asked
  /\ \A r \in 1..made : u \notin MembersOf(r)

MCBounds == requests < MaxRequests \/ \E u \in {ben, cat} : Untouched(u)
=============================================================================
