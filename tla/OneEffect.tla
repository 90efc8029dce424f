----------------------------- MODULE OneEffect -----------------------------
(****************************************************************************)
(* What an idempotency key promises whoever uses it: one payload, one call  *)
(* unless the provider deduplicates the key, and a verdict that is never    *)
(* taken back.  An effect whose outcome is unknown is only ever resolved by *)
(* a call that the provider confirms.  ExternalSideEffect, with attempts    *)
(* that overlap, outlive their leases and stop anywhere, implements it.     *)
(****************************************************************************)
EXTENDS Naturals

CONSTANTS Payloads,     \* payloads presented under the key
          KeyEnforced   \* the provider deduplicates the key

VARIABLES phase,    \* what the key answers: open, unknown or completed
          sends,    \* how often the provider was called
          carried   \* the payloads it was called with

Init == phase = "open" /\ sends = 0 /\ carried = {}

(* A request to the provider, with the payload of every earlier one.        *)
Request ==
    /\ sends' = sends + 1
    /\ \E p \in Payloads : carried \subseteq {p} /\ carried' = {p}

Call ==
    /\ KeyEnforced \/ (sends = 0 /\ phase # "completed")
    /\ Request
    /\ UNCHANGED phase

GiveUp == phase = "open" /\ phase' = "unknown" /\ UNCHANGED <<sends, carried>>

Finish == phase = "open" /\ phase' = "completed" /\ UNCHANGED <<sends, carried>>

(* The provider confirms, by a lookup or by the answer to a repeated call.  *)
Confirm ==
    /\ phase = "unknown"
    /\ phase' = "completed"
    /\ \/ sends > 0 /\ UNCHANGED <<sends, carried>>
       \/ KeyEnforced /\ Request

Next == Call \/ GiveUp \/ Finish \/ Confirm

Spec == Init /\ [][Next]_<<phase, sends, carried>>
=============================================================================
