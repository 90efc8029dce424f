-------------------------- MODULE DurableLifecycle --------------------------
(****************************************************************************)
(* What a durable run promises its operators: which status may follow       *)
(* which.  A wake leaves waiting, an operator resume leaves paused, only    *)
(* the claim path enters running, and completed and cancelled are final.    *)
(* DurableRun, with its workers, leases and stale reads, implements it.     *)
(****************************************************************************)

VARIABLE status

Held == {"queued", "running", "waiting"}

Terminal == {"completed", "failed", "cancelled", "dead_lettered"}

Statuses == Held \cup {"paused"} \cup Terminal

Created == status \in {"queued", "waiting", "paused"}

Claim == status = "queued" /\ status' = "running"

Requeue == status = "running" /\ status' = "queued"

Park == status = "running" /\ status' = "waiting"

Wake == status = "waiting" /\ status' = "queued"

Finish == status = "running" /\ status' \in {"completed", "failed"}

Pause == status \in Held /\ status' = "paused"

Resume == status = "paused" /\ status' = "queued"

Cancel == status \in Held \cup {"paused"} /\ status' = "cancelled"

RetryFailed == status = "failed" /\ status' = "queued"

Exhaust == status \in {"running", "failed"} /\ status' = "dead_lettered"

Recover == status = "dead_lettered" /\ status' = "queued"

Next ==
    \/ Claim \/ Requeue \/ Park \/ Wake \/ Finish \/ Pause \/ Resume
    \/ Cancel \/ RetryFailed \/ Exhaust \/ Recover

Spec == Created /\ [][Next]_status
=============================================================================
