------------------------- MODULE ExternalSideEffect -------------------------
(****************************************************************************)
(* One external effect (a message to deliver, an issue to create) and every *)
(* attempt at it under one idempotency key.  The mutation_idempotency row   *)
(* decides who may call the provider: a claim has a token and a lease, and  *)
(* crossing the boundary marks the row dispatched and rotates the token.    *)
(* The external_side_effect_runs row, the ledger, mirrors how far the       *)
(* effect got, for operators, for replay and for recovery.  Attempts run in *)
(* several processes, outlive their leases, and stop anywhere.              *)
(****************************************************************************)
EXTENDS Naturals

CONSTANTS Runners,      \* attempts that can be in progress at a time
          Payloads,     \* payload hashes presented under the key
          Strict,       \* requireDurableBoundaryRecord of the callers
          KeyEnforced,  \* providerIdempotencyKeyEnforced
          ClaimLease,   \* DEFAULT_EXTERNAL_SIDE_EFFECT_CLAIM_LEASE_MS
          StaleAfter,   \* staleClaimedNotSentAfterMs of the replay worker
          MaxTokens,    \* bound: no claim once so many tokens were issued
          MaxClock,     \* bound: the clock stops when no lease is left
          NoRow, Idle

Mutation == [status : {"pending", "completed", "failed", "unknown_after_send"},
             payload : Payloads, token : Nat, expires : Nat, dispatched : BOOLEAN]

Ledger == [status : {"claimed_not_sent", "external_call_started", "completed",
                     "failed_before_boundary", "unknown_external_outcome",
                     "blocked_duplicate", "payload_mismatch",
                     "idempotency_unavailable"},
           payload : Payloads, at : Nat]

Outcomes == {"claimed", "in_progress", "duplicate", "payload_mismatch",
             "unknown_after_send"}

(* An attempt: the outcome of its claim, the token it owns, whether that    *)
(* claim revived or took over an earlier one (retry), whether the ledger    *)
(* recorded its boundary, and whether it ended without a known outcome.     *)
Attempt == [pc : {"record", "withdraw", "replay", "execute", "mirror", "send",
                  "answer", "completing", "failing"},
            strict : BOOLEAN, payload : Payloads, outcome : Outcomes, token : Nat,
            lease : Nat, retry : BOOLEAN, recorded : BOOLEAN, manual : BOOLEAN]

ASSUME EffectAssumption ==
    /\ Strict \in BOOLEAN /\ KeyEnforced \in BOOLEAN
    /\ ClaimLease \in Nat \ {0} /\ StaleAfter \in Nat \ {0}
    /\ MaxTokens \in Nat /\ MaxClock \in Nat
    /\ NoRow \notin Mutation \cup Ledger
    /\ Idle \notin Attempt

VARIABLES now,     \* the database clock
          mut,     \* the mutation_idempotency row
          ledger,  \* the external_side_effect_runs row
          runner,  \* the attempts in progress
          tokens,  \* claim tokens issued so far; a UUID is the number it had
          sends,   \* how often the provider was called
          carried  \* the payloads it was called with

vars == <<now, mut, ledger, runner, tokens, sends, carried>>

Init ==
    /\ now = 0
    /\ mut = NoRow
    /\ ledger = NoRow
    /\ runner = [r \in Runners |-> Idle]
    /\ tokens = 0
    /\ sends = 0
    /\ carried = {}

-----------------------------------------------------------------------------
At(r, pc) == runner[r] # Idle /\ runner[r].pc = pc

Go(r, x) == runner' = [runner EXCEPT ![r] = x]

End(r) == Go(r, Idle)

(* updateOwnedStatusStmt, markDispatchedStmt, discardOwnedPendingStmt: the  *)
(* row is pending under the token of the attempt.                           *)
Owns(r) == mut # NoRow /\ mut.status = "pending" /\ mut.token = runner[r].token

Settled(s) == [mut EXCEPT !.status = s, !.expires = 0]

(* A stale claim that crossed the boundary may have reached the provider.   *)
StaleDispatched == mut.dispatched /\ ~ KeyEnforced

(* MutationIdempotencyRepository.claim, up to what it writes.               *)
Verdict(p) ==
    IF mut = NoRow THEN "new"
    ELSE IF mut.payload # p THEN "payload_mismatch"
    ELSE IF mut.status = "completed" THEN "duplicate"
    ELSE IF mut.status = "unknown_after_send" THEN "unknown_after_send"
    ELSE IF mut.status = "failed" THEN "revive"
    ELSE IF now < mut.expires THEN "in_progress"
    ELSE IF StaleDispatched THEN "settle"
    ELSE "takeover"

Claims == {"new", "revive", "takeover"}

Outcome(p) ==
    IF Verdict(p) \in Claims THEN "claimed"
    ELSE IF Verdict(p) = "settle" THEN "unknown_after_send"
    ELSE Verdict(p)

(* What the claim writes: a pending row with a fresh token (a takeover      *)
(* keeps the dispatch mark, a revival clears it); a stale dispatched row    *)
(* becomes unknown under a token that nobody holds.                         *)
Claimed(p, lease) ==
    IF Verdict(p) \in Claims
       THEN [status |-> "pending", payload |-> p, token |-> tokens + 1,
             expires |-> now + lease,
             dispatched |-> Verdict(p) = "takeover" /\ mut.dispatched]
    ELSE IF Verdict(p) = "settle"
       THEN [Settled("unknown_after_send") EXCEPT !.token = tokens + 1]
    ELSE mut

(* A claim that changes the row issues a token.                             *)
Issued(p) == IF Verdict(p) \in Claims \cup {"settle"} THEN tokens + 1 ELSE tokens

Attempted(p, strict, lease, pc) ==
    [pc |-> pc, strict |-> strict, payload |-> p, outcome |-> Outcome(p),
     token |-> IF Verdict(p) \in Claims THEN tokens + 1 ELSE 0,
     lease |-> lease, retry |-> Verdict(p) # "new", recorded |-> FALSE, manual |-> FALSE]

-----------------------------------------------------------------------------
(* The ledger.                                                              *)

Marked(s) == [ledger EXCEPT !.status = s, !.at = now]

Row(s, p) == [status |-> s, payload |-> p, at |-> now]

(* Mutant: the outcome of the claim is stored as the status.                *)
FirstStatusOutcome(o) == o

(* createOrGet: the status a first record of this outcome has.              *)
FirstStatus(o) ==
    IF o = "duplicate" THEN "blocked_duplicate"
    ELSE IF o = "payload_mismatch" THEN "payload_mismatch"
    ELSE IF o = "unknown_after_send" THEN "unknown_external_outcome"
    ELSE "claimed_not_sent"

(* createOrGet and settleUnknownAfterSendRun: a first claim creates the row *)
(* or promotes a preflight row; a claim that found a stale send moves the   *)
(* row of the interrupted attempt to unknown.                               *)
Recorded(o, p) ==
    IF ledger = NoRow THEN Row(FirstStatus(o), p)
    ELSE IF ledger.payload # p THEN ledger
    ELSE IF o = "claimed" /\ ledger.status = "idempotency_unavailable"
       THEN Marked("claimed_not_sent")
    ELSE IF o = "unknown_after_send"
            /\ ledger.status \in {"external_call_started", "claimed_not_sent"}
       THEN Marked("unknown_external_outcome")
    ELSE ledger

(* buildCurrentReplayRunBlock lets the attempt pass.                        *)
Open(row, p) ==
    /\ row.payload = p
    /\ row.status \in {"claimed_not_sent", "failed_before_boundary"}

(* markFailureIfStatus with the status the attempt left the ledger in.      *)
Expected(x) ==
    IF x.recorded THEN "external_call_started"
    ELSE IF x.retry THEN "failed_before_boundary"
    ELSE "claimed_not_sent"

-----------------------------------------------------------------------------
(* Claiming.                                                                *)

(* A require_dry_run ward refuses the call and leaves a preflight row.      *)
Preflight(p) ==
    /\ ledger = NoRow
    /\ ledger' = Row("idempotency_unavailable", p)
    /\ UNCHANGED <<now, mut, runner, tokens, sends, carried>>

(* claimIdempotentExternalSideEffect in one transaction: a claim that the   *)
(* ledger refuses is rolled back and changes nothing.                       *)
ClaimStrict(r, p) ==
    /\ Strict
    /\ tokens < MaxTokens
    /\ runner[r] = Idle
    /\ Outcome(p) = "claimed" => Open(Recorded("claimed", p), p)
    /\ mut' = Claimed(p, ClaimLease)
    /\ ledger' = Recorded(Outcome(p), p)
    /\ tokens' = Issued(p)
    /\ IF Outcome(p) = "claimed"
          THEN Go(r, Attempted(p, TRUE, ClaimLease, "execute"))
          ELSE UNCHANGED runner
    /\ UNCHANGED <<now, sends, carried>>

(* The same without a transaction: the claim first, the ledger next.        *)
ClaimLoose(r, p) ==
    /\ ~ Strict
    /\ tokens < MaxTokens
    /\ runner[r] = Idle
    /\ mut' = Claimed(p, ClaimLease)
    /\ tokens' = Issued(p)
    /\ Go(r, Attempted(p, FALSE, ClaimLease, "record"))
    /\ UNCHANGED <<now, ledger, sends, carried>>

(* recordExternalSideEffectRun of an attempt without a transaction.         *)
RecordRun(r) ==
    /\ At(r, "record")
    /\ LET x == runner[r]
           row == Recorded(x.outcome, x.payload)
       IN  /\ ledger' = row
           /\ \/ x.outcome # "claimed" /\ End(r)
              \/ x.outcome = "claimed" /\ Open(row, x.payload)
                   /\ Go(r, [x EXCEPT !.pc = "execute"])
              \/ x.outcome = "claimed" /\ ~ Open(row, x.payload)
                   /\ Go(r, [x EXCEPT !.pc = "withdraw"])
    /\ UNCHANGED <<now, mut, tokens, sends, carried>>

(* Mutant: the claim is discarded without a check that it is still held.    *)
WithdrawUnowned(r) ==
    /\ At(r, "withdraw")
    /\ mut' = IF runner[r].retry THEN mut ELSE NoRow
    /\ End(r)
    /\ UNCHANGED <<now, ledger, tokens, sends, carried>>

(* The ledger refused the claim: a new claim is discarded, any other fails. *)
Withdraw(r) ==
    /\ At(r, "withdraw")
    /\ mut' = IF ~ Owns(r) THEN mut
              ELSE IF runner[r].retry THEN Settled("failed") ELSE NoRow
    /\ End(r)
    /\ UNCHANGED <<now, ledger, tokens, sends, carried>>

(* readExternalSideEffectReplayEligibility: the boundary was not reached.   *)
Eligible == ledger.status \in {"failed_before_boundary", "claimed_not_sent"}

(* runReplaySafeExternalSideEffectWorker picks a run it may replay; a claim *)
(* not yet sent must have been quiet for a while.                           *)
ReplayPick(r) ==
    /\ tokens < MaxTokens
    /\ runner[r] = Idle
    /\ ledger # NoRow
    /\ Eligible
    /\ ledger.status = "claimed_not_sent" => ledger.at + StaleAfter <= now
    /\ Go(r, [Attempted(ledger.payload, TRUE, StaleAfter, "replay") EXCEPT !.token = 0])
    /\ UNCHANGED <<now, mut, ledger, tokens, sends, carried>>

(* ... and claims it, in one transaction that reads the ledger again.       *)
ReplayClaim(r) ==
    /\ At(r, "replay")
    /\ LET p == runner[r].payload IN
          IF ~ Open(ledger, p)
             THEN End(r) /\ UNCHANGED <<mut, ledger, tokens>>
             ELSE /\ mut' = Claimed(p, StaleAfter)
                  /\ ledger' = IF Outcome(p) = "unknown_after_send"
                                  THEN Recorded("unknown_after_send", p) ELSE ledger
                  /\ tokens' = Issued(p)
                  /\ IF Outcome(p) = "claimed"
                        THEN Go(r, Attempted(p, TRUE, StaleAfter, "execute"))
                        ELSE End(r)
    /\ UNCHANGED <<now, sends, carried>>

-----------------------------------------------------------------------------
(* Crossing the boundary.                                                   *)

(* markDispatched, for an attempt that Owns the row.                        *)
Dispatched(r) ==
    [mut EXCEPT !.dispatched = TRUE, !.token = tokens + 1,
                !.expires = now + runner[r].lease]

(* The attempt still owns its claim and, when strict, its ledger row.       *)
MayCross(r) ==
    /\ Owns(r)
    /\ runner[r].strict => ledger.status \in {"claimed_not_sent", "failed_before_boundary"}

(* markExternalCallStarted: a strict attempt marks both rows in one         *)
(* transaction; an attempt that lost its claim ends and settles nothing.    *)
MarkExternalCallStarted(r) ==
    /\ At(r, "execute")
    /\ LET x == runner[r] IN
          IF MayCross(r)
             THEN /\ mut' = Dispatched(r)
                  /\ tokens' = tokens + 1
                  /\ ledger' = IF x.strict THEN Marked("external_call_started") ELSE ledger
                  /\ Go(r, [x EXCEPT !.pc = IF x.strict THEN "send" ELSE "mirror",
                                     !.token = tokens + 1, !.recorded = x.strict])
             ELSE End(r) /\ UNCHANGED <<mut, ledger, tokens>>
    /\ UNCHANGED <<now, sends, carried>>

(* Best-effort mirror: a row in another status, or a failing write, leaves  *)
(* the ledger behind.                                                       *)
MirrorStart(r) ==
    /\ At(r, "mirror")
    /\ \/ /\ ledger.status \in {"claimed_not_sent", "failed_before_boundary"}
          /\ ledger' = Marked("external_call_started")
          /\ Go(r, [runner[r] EXCEPT !.pc = "send", !.recorded = TRUE])
       \/ /\ Go(r, [runner[r] EXCEPT !.pc = "send"])
          /\ UNCHANGED ledger
    /\ UNCHANGED <<now, mut, tokens, sends, carried>>

(* The provider receives the request.                                       *)
Send(r) ==
    /\ At(r, "send")
    /\ sends' = sends + 1
    /\ carried' = carried \cup {runner[r].payload}
    /\ Go(r, [runner[r] EXCEPT !.pc = "answer"])
    /\ UNCHANGED <<now, mut, ledger, tokens>>

-----------------------------------------------------------------------------
(* Settling.                                                                *)

(* The callback returned after its call, or found no call was required.     *)
Complete(r) ==
    /\ At(r, "answer") \/ At(r, "execute")
    /\ LET x == runner[r]
           unknown == [x EXCEPT !.pc = "failing", !.manual = TRUE]
       IN  \/ /\ x.strict /\ Owns(r)
              /\ mut' = Settled("completed")
              /\ ledger' = Marked("completed")
              /\ End(r)
           \/ /\ x.strict /\ ~ Owns(r)
              /\ Go(r, IF x.pc = "answer" THEN unknown ELSE Idle)
              /\ UNCHANGED <<mut, ledger>>
           \/ /\ ~ x.strict
              /\ mut' = IF Owns(r) THEN Settled("completed") ELSE mut
              /\ Go(r, [x EXCEPT !.pc = "completing"])
              /\ UNCHANGED ledger
    /\ UNCHANGED <<now, tokens, sends, carried>>

(* safeMarkExternalSideEffectRunCompleted of an attempt without a           *)
(* transaction; when the write fails the outcome is recorded as unknown.    *)
CompleteLedger(r) ==
    /\ At(r, "completing")
    /\ ledger' \in {Marked("completed")}
                   \cup (IF ledger.status = Expected(runner[r])
                            THEN {Marked("unknown_external_outcome")} ELSE {ledger})
    /\ End(r)
    /\ UNCHANGED <<now, mut, tokens, sends, carried>>

(* Mutant: an error after the boundary is taken for one before it.          *)
FailBeforeSendEager(r) ==
    /\ At(r, "execute") \/ At(r, "send") \/ At(r, "answer")
    /\ IF Owns(r)
          THEN mut' = Settled("failed") /\ Go(r, [runner[r] EXCEPT !.pc = "failing"])
          ELSE End(r) /\ UNCHANGED mut
    /\ UNCHANGED <<now, ledger, tokens, sends, carried>>

(* The callback threw before the boundary, or with a proof that nothing was *)
(* dispatched: the key may be tried again, unless the claim is lost.        *)
FailBeforeSend(r) ==
    /\ At(r, "execute") \/ At(r, "send")
    /\ IF Owns(r)
          THEN mut' = Settled("failed") /\ Go(r, [runner[r] EXCEPT !.pc = "failing"])
          ELSE End(r) /\ UNCHANGED mut
    /\ UNCHANGED <<now, ledger, tokens, sends, carried>>

(* It threw after the boundary without such a proof, or returned without    *)
(* having marked it; the write may fail as well.                            *)
FailUnknown(r) ==
    /\ At(r, "execute") \/ At(r, "send") \/ At(r, "answer")
    /\ mut' \in {mut} \cup (IF Owns(r) THEN {Settled("unknown_after_send")} ELSE {})
    /\ Go(r, [runner[r] EXCEPT !.pc = "failing", !.manual = TRUE])
    /\ UNCHANGED <<now, ledger, tokens, sends, carried>>

(* Mutant: a strict attempt overwrites whatever status it finds.            *)
FailLedgerBlind(r) ==
    /\ At(r, "failing")
    /\ ledger' = Marked(IF runner[r].manual THEN "unknown_external_outcome"
                        ELSE "failed_before_boundary")
    /\ End(r)
    /\ UNCHANGED <<now, mut, tokens, sends, carried>>

(* safeMarkExternalSideEffectRunFailed: strict attempts compare the status. *)
FailLedger(r) ==
    /\ At(r, "failing")
    /\ LET x == runner[r]
           s == IF x.manual THEN "unknown_external_outcome" ELSE "failed_before_boundary"
       IN  ledger' = IF ~ x.strict \/ ledger.status = Expected(x) THEN Marked(s) ELSE ledger
    /\ End(r)
    /\ UNCHANGED <<now, mut, tokens, sends, carried>>

-----------------------------------------------------------------------------
(* Reconciliation and recovery.                                             *)

(* Mutant: the ledger is settled without the mutation row agreeing.         *)
ReconcileAlone ==
    /\ ledger # NoRow /\ ledger.status = "unknown_external_outcome"
    /\ sends > 0
    /\ ledger' = Marked("completed")
    /\ UNCHANGED <<now, mut, runner, tokens, sends, carried>>

(* Mutant: the effect is taken for done without asking the provider.        *)
ReconcileUnconfirmed ==
    /\ ledger # NoRow /\ ledger.status = "unknown_external_outcome"
    /\ mut # NoRow /\ mut.status = "unknown_after_send"
    /\ ledger' = Marked("completed")
    /\ mut' = Settled("completed")
    /\ UNCHANGED <<now, runner, tokens, sends, carried>>

(* reconcileCrossedExternalSideEffectRun: the provider confirms the effect  *)
(* and both rows complete in one transaction, or neither does.  A provider  *)
(* that enforces the key is asked by repeating the request.                 *)
Reconcile ==
    /\ ledger # NoRow /\ ledger.status = "unknown_external_outcome"
    /\ mut # NoRow /\ mut.status = "unknown_after_send"
    /\ \/ sends > 0 /\ UNCHANGED <<sends, carried>>
       \/ /\ KeyEnforced
          /\ sends' = sends + 1
          /\ carried' = carried \cup {ledger.payload}
    /\ ledger' = Marked("completed")
    /\ mut' = Settled("completed")
    /\ UNCHANGED <<now, runner, tokens>>

(* markDurableConnectorDeliveryUnrecoverable: the durable run that made the *)
(* call is given up; its attempt may still be running.                      *)
MarkUnrecoverable ==
    /\ ledger # NoRow /\ ledger.status = "external_call_started"
    /\ ledger' = Marked("unknown_external_outcome")
    /\ UNCHANGED <<now, mut, runner, tokens, sends, carried>>

(* The process of an attempt exits.                                         *)
Crash(r) ==
    /\ runner[r] # Idle
    /\ End(r)
    /\ UNCHANGED <<now, mut, ledger, tokens, sends, carried>>

Tick ==
    /\ now < MaxClock
    /\ now' = now + 1
    /\ UNCHANGED <<mut, ledger, runner, tokens, sends, carried>>

Run(r) ==
    \/ \E p \in Payloads : ClaimStrict(r, p) \/ ClaimLoose(r, p)
    \/ RecordRun(r) \/ Withdraw(r)
    \/ ReplayPick(r) \/ ReplayClaim(r)
    \/ MarkExternalCallStarted(r) \/ MirrorStart(r) \/ Send(r)
    \/ Complete(r) \/ CompleteLedger(r)
    \/ FailBeforeSend(r) \/ FailUnknown(r) \/ FailLedger(r)
    \/ Crash(r)

Next ==
    \/ \E r \in Runners : Run(r)
    \/ \E p \in Payloads : Preflight(p)
    \/ Reconcile
    \/ MarkUnrecoverable
    \/ Tick

Spec == Init /\ [][Next]_vars

-----------------------------------------------------------------------------
(* Type correctness. *)
TypeOK ==
    /\ now \in Nat
    /\ mut \in Mutation \cup {NoRow}
    /\ ledger \in Ledger \cup {NoRow}
    /\ runner \in [Runners -> Attempt \cup {Idle}]
    /\ tokens \in Nat
    /\ sends \in Nat
    /\ carried \subseteq Payloads

(* At most once: whatever attempts overlap, outlive their leases, stop or   *)
(* are replayed, the provider is called once under the key, unless it       *)
(* deduplicates the key itself.                                             *)
AtMostOnceDispatch == KeyEnforced \/ sends <= 1

(* A key carries one payload: once the provider was called, the mutation    *)
(* row keeps the payload it was called with, and refuses any other.         *)
OnePayload == carried # {} => mut # NoRow /\ carried = {mut.payload}

(* isDurableConnectorDeliveryRecoverable, from the ledger alone.            *)
Recoverable ==
    \/ ledger = NoRow
    \/ ledger.status \in {"claimed_not_sent", "failed_before_boundary", "completed",
                          "blocked_duplicate"}

(* With strict callers the ledger never claims less than what happened: an  *)
(* effect that reached the provider is recoverable only when completed, so  *)
(* neither recovery nor an operator takes it for one that was not sent.     *)
RecoverySafe == sends > 0 /\ Recoverable => ledger # NoRow /\ ledger.status = "completed"

(* With strict callers the two rows never disagree on completion.           *)
LedgersAgree ==
    (mut # NoRow /\ mut.status = "completed")
        <=> (ledger # NoRow /\ ledger.status = "completed")

(* What the mutation row answers to a request under the key.                *)
Phase ==
    IF mut = NoRow THEN "open"
    ELSE IF mut.status = "completed" THEN "completed"
    ELSE IF mut.status = "unknown_after_send" THEN "unknown"
    ELSE "open"

Effect == INSTANCE OneEffect WITH phase <- Phase

(* The attempts on a key implement one effect: however they overlap, stop   *)
(* and are replayed, the answers of the key only move from open to unknown  *)
(* and to completed, no provider without deduplication is called again or   *)
(* called after completion, and an unknown outcome is resolved only by a    *)
(* call that was made.                                                      *)
ImplementsOneEffect == Effect!Spec
=============================================================================
