----------------------------- MODULE MessageLog -----------------------------
(***************************************************************************)
(* What the message flusher promises its callers, without Redis: a log per *)
(* room.  A message accepted by the WebSocket path goes to the end of its  *)
(* room's log; storing moves the boundary between the stored prefix and    *)
(* the part still waiting, never leaving a gap and never storing a message *)
(* twice.  Only once a fault of Postgres, of Redis or of the process has   *)
(* happened (`degraded') does the promise weaken: whatever is stored is    *)
(* then still a message that was accepted in that room.                    *)
(***************************************************************************)
EXTENDS Naturals, Sequences

CONSTANTS Rooms, Messages

VARIABLES accepted,   \* [Rooms -> Seq(Messages)]: in the order of acceptance
          stored,     \* [Rooms -> Seq(Messages)]: in the order of the rows' insertion
          degraded    \* has any fault happened?

logVars == <<accepted, stored, degraded>>

Elems(s) == {s[i] : i \in 1..Len(s)}

Init == /\ accepted = [r \in Rooms |-> <<>>]
        /\ stored   = [r \in Rooms |-> <<>>]
        /\ degraded = FALSE

Accept == \E r \in Rooms, m \in Messages :
             /\ accepted' = [accepted EXCEPT ![r] = Append(@, m)]
             /\ UNCHANGED <<stored, degraded>>

(* A chunk of the waiting messages is stored: the next ones, in order. *)
Store == \E r \in Rooms : \E n \in Len(stored[r])+1 .. Len(accepted[r]) :
            /\ ~degraded
            /\ stored' = [stored EXCEPT ![r] = SubSeq(accepted[r], 1, n)]
            /\ UNCHANGED <<accepted, degraded>>

Degrade == /\ ~degraded
           /\ degraded' = TRUE
           /\ UNCHANGED accepted
           /\ \A r \in Rooms : Elems(stored'[r]) \subseteq Elems(accepted[r])
           /\ DOMAIN stored' = Rooms

StoreDegraded == /\ degraded
                 /\ \A r \in Rooms : Elems(stored'[r]) \subseteq Elems(accepted[r])
                 /\ DOMAIN stored' = Rooms
                 /\ \A r \in Rooms : /\ Len(stored'[r]) >= Len(stored[r])
                                     /\ SubSeq(stored'[r], 1, Len(stored[r])) = stored[r]
                 /\ UNCHANGED <<accepted, degraded>>

Next == Accept \/ Store \/ Degrade \/ StoreDegraded

LogSpec == Init /\ [][Next]_logVars
=============================================================================
