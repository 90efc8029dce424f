------------------------ MODULE MCExternalSideEffect ------------------------
(* Attempts, and the payloads they present, are interchangeable.            *)
EXTENDS ExternalSideEffect, TLC

AttemptSymmetry == Permutations(Runners) \cup Permutations(Payloads)
=============================================================================
