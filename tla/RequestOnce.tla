----------------------------- MODULE RequestOnce -----------------------------
(***************************************************************************)
(* What a caller of a durable control authority may rely on, whatever       *)
(* crashes and retries happen: the side effect of a request identity        *)
(* happens at most once, its outcome is decided once and for all, and a     *)
(* request that is reported failed has left no effect behind.  An effect    *)
(* may still happen after the outcome was given up as unknown: a line that  *)
(* timed out in the provider's queue can be delivered later.                *)
(***************************************************************************)
CONSTANT Ids

VARIABLES
  status,  \* what the journal says of an identity
  effect   \* what the identity has done to the world

vars == <<status, effect>>

\* An outcome is final; only an open request gets one.
Decisions ==
  [new       |-> {"new", "open", "failed"},
   open      |-> {"open", "completed", "failed", "unknown"},
   completed |-> {"completed"},
   failed    |-> {"failed"},
   unknown   |-> {"unknown"}]

\* An effect happens once and may be undone once (a provider that is stopped).
Effects ==
  [none   |-> {"none", "done"},
   done   |-> {"done", "undone"},
   undone |-> {"undone"}]

Init ==
  /\ status = [i \in Ids |-> "new"]
  /\ effect = [i \in Ids |-> "none"]

\* One identity's share of a step.
IdStep(i) ==
  /\ status'[i] \in Decisions[status[i]]
  /\ effect'[i] \in Effects[effect[i]]
  /\ effect[i] = "none" /\ effect'[i] = "done" => status[i] \in {"open", "unknown"}
  /\ status'[i] = "failed" => effect'[i] # "done"

\* A recovery decides many requests in one step.
Next ==
  /\ status' \in [Ids -> DOMAIN Decisions]
  /\ effect' \in [Ids -> DOMAIN Effects]
  /\ \A i \in Ids : IdStep(i)

Spec == Init /\ [][Next]_vars

=============================================================================
