---------------------------- MODULE OrderedSink ----------------------------
(***************************************************************************)
(* What a Writer promises its user, without buffers, channels or            *)
(* goroutines: units are accepted, and delivered to the underlying writer   *)
(* in the order they were accepted in, from the first on.  A failed write   *)
(* ends delivery; a failure elsewhere ends acceptance; the stream is closed *)
(* only when everything accepted is delivered.                              *)
(***************************************************************************)
EXTENDS Naturals

VARIABLES
  accepted,   \* units the user has handed over
  delivered,  \* units on the underlying writer: the first ones, in order
  status      \* "open", "aborted", "broken", "closed" or "unset"

vars == <<accepted, delivered, status>>

Init == accepted = 0 /\ delivered = 0 /\ status = "open"

Accept ==
  /\ status = "open"
  /\ accepted' \in Nat /\ accepted' >= accepted
  /\ UNCHANGED <<delivered, status>>

\* A block already under way may still be delivered after an abort.
Deliver ==
  /\ status \in {"open", "aborted"}
  /\ delivered' \in delivered .. accepted
  /\ UNCHANGED <<accepted, status>>

Break == status = "open" /\ status' = "broken" /\ UNCHANGED <<accepted, delivered>>

Abort == status = "open" /\ status' = "aborted" /\ UNCHANGED <<accepted, delivered>>

Finish ==
  /\ status = "open" /\ delivered = accepted
  /\ status' = "closed"
  /\ UNCHANGED <<accepted, delivered>>

\* Reset: another stream, or none.
Renew == accepted' = 0 /\ delivered' = 0 /\ status' \in {"open", "unset"}

Next == Accept \/ Deliver \/ Break \/ Abort \/ Finish \/ Renew

Spec == Init /\ [][Next]_vars
=============================================================================
