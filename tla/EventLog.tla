------------------------------- MODULE EventLog -------------------------------
(***************************************************************************)
(* What the readers of a session's event log rely on: an event is appended *)
(* once, with a number that no other event in the log has, and is not      *)
(* changed afterwards.  Until the first prune its number is also above     *)
(* every number given before: a reader that has read up to a number has    *)
(* read everything there will ever be up to it.                            *)
(***************************************************************************)
EXTENDS Naturals

CONSTANT Events

VARIABLES log,     \* numbered events, as records with seq and event
          last,    \* the highest number given so far
          pruned   \* whether events have been removed

Init == log = {} /\ last = 0 /\ pruned = FALSE

Append(e) ==
    /\ \A r \in log : r.event # e
    /\ \E new \in log' :
          /\ new.event = e /\ log' = log \cup {new}
          /\ \A r \in log : r.seq # new.seq
          /\ pruned \/ new.seq > last
          /\ last' = IF new.seq > last THEN new.seq ELSE last
    /\ UNCHANGED pruned

Prune == log' \subseteq log /\ pruned' = TRUE /\ UNCHANGED last

Next == Prune \/ \E e \in Events : Append(e)

Spec == Init /\ [][Next]_<<log, last, pruned>>
=============================================================================
