------------------------- MODULE LinkedFinalization -------------------------
(****************************************************************************)
(* The finalization of a failed run that recovery could not requeue: its    *)
(* linked records (chat turn, task, orchestration) are still to be marked.  *)
(* The marker in the run's metadata names the failure to finalize and the   *)
(* claim of the process that does it.  Every gateway process tries; a claim *)
(* is renewed while the records are being marked and expires when its       *)
(* process is gone.  All updates read the row first and write it under a    *)
(* version check, and are tried a few times when they lose a race.          *)
(****************************************************************************)
EXTENDS Naturals

CONSTANTS Procs,      \* gateway processes; a restarted one keeps its slot
          ClaimTtl,   \* LINKED_FINALIZATION_CLAIM_TTL_MS
          MaxTries,   \* maxAttempts of retryDurableRunUpdate
          MaxFaults,  \* bound: crashes, failed finalizers, stalls, other writes
          MaxEpoch,   \* bound: failures of the run that need a finalization
          MaxClock,   \* bound: the clock stops while a claimant is at work
          Idle

(* The columns of the run that matter: the finalizationId of its latest     *)
(* failure (epoch), whether linkedFinalizationPending is set, and its claim *)
(* (0: none).  A claimId is a UUID; here it is the version it came with.    *)
Row == [epoch : Nat, pending : BOOLEAN, claim : Nat, expires : Nat, version : Nat]

Tries == 0 .. (MaxTries - 1)

(* finalizePendingLinkedState in progress, and one renewal in flight.       *)
Finalizing == [pc : {"claim", "claiming", "mark", "marked", "clear"},
               epoch : Nat, claim : Nat, until : Nat, seen : Row, tries : Tries]

Renewal == [claim : Nat, until : Nat, seen : Row, tries : Tries]

ASSUME FinalizationAssumption ==
    /\ ClaimTtl \in Nat \ {0}
    /\ MaxTries \in Nat \ {0}
    /\ MaxFaults \in Nat /\ MaxEpoch \in Nat /\ MaxClock \in Nat
    /\ Idle \notin Finalizing \cup Renewal

VARIABLES now,     \* the database clock
          row,     \* the durable_runs row
          fin,     \* the finalization each process is working on
          beat,    \* the claim renewal each process has in flight
          linked,  \* failures whose linked records have been marked
          faults   \* faults so far

vars == <<now, row, fin, beat, linked, faults>>

Init ==
    /\ now = 0
    /\ row = [epoch |-> 1, pending |-> TRUE, claim |-> 0, expires |-> 0, version |-> 1]
    /\ fin = [p \in Procs |-> Idle]
    /\ beat = [p \in Procs |-> Idle]
    /\ linked = {}
    /\ faults = 0

-----------------------------------------------------------------------------
At(p, pc) == fin[p] # Idle /\ fin[p].pc = pc

Quit(p) == fin' = [fin EXCEPT ![p] = Idle]

Step(p, x) == fin' = [fin EXCEPT ![p] = x]

(* Mutant: the update is not conditional on the version that was read.      *)
UnchangedBlind(seen) == TRUE

(* updateRun with expectedVersion finds the row that was read.              *)
Unchanged(seen) == row.version = seen.version

(* Mutant: one try too many.                                                *)
AgainOnceMore(x) == IF x.tries < MaxTries
                       THEN [x EXCEPT !.seen = row, !.tries = @ + 1] ELSE Idle

(* A lost race: read the row again, or give up after MaxTries.              *)
Again(x) == IF x.tries + 1 < MaxTries
               THEN [x EXCEPT !.seen = row, !.tries = @ + 1] ELSE Idle

(* A pass of reconcilePendingLinkedFinalizations finds the marker.          *)
ClaimRead(p) ==
    /\ fin[p] = Idle
    /\ row.pending
    /\ Step(p, [pc |-> "claim", epoch |-> row.epoch, claim |-> 0, until |-> 0,
                seen |-> row, tries |-> 0])
    /\ UNCHANGED <<now, row, beat, linked, faults>>

(* Mutant: a claim is respected for ever.                                   *)
ClaimedForever(seen) == seen.claim # 0

Claimed(seen) == seen.claim # 0 /\ now < seen.expires

(* The database clock decides whether the claim that was read is live.      *)
ClaimClock(p) ==
    /\ At(p, "claim")
    /\ LET x == fin[p] IN
          IF ~ x.seen.pending \/ x.seen.epoch # x.epoch \/ Claimed(x.seen)
             THEN Quit(p)
             ELSE Step(p, [x EXCEPT !.pc = "claiming", !.until = now + ClaimTtl])
    /\ UNCHANGED <<now, row, beat, linked, faults>>

ClaimWrite(p) ==
    /\ At(p, "claiming")
    /\ LET x == fin[p] IN
          IF Unchanged(x.seen)
             THEN /\ row' = [row EXCEPT !.claim = row.version + 1, !.expires = x.until,
                                        !.version = @ + 1]
                  /\ Step(p, [x EXCEPT !.pc = "mark", !.claim = row.version + 1])
             ELSE /\ UNCHANGED row
                  /\ IF Again(x) = Idle THEN Quit(p)
                        ELSE Step(p, [Again(x) EXCEPT !.pc = "claim"])
    /\ UNCHANGED <<now, beat, linked, faults>>

(* markWorkflowUnrecoverable returns: the linked records are settled.       *)
MarkDone(p) ==
    /\ At(p, "mark")
    /\ Step(p, [fin[p] EXCEPT !.pc = "marked"])
    /\ linked' = linked \cup {fin[p].epoch}
    /\ UNCHANGED <<now, row, beat, faults>>

(* It throws, or exceeds LINKED_FINALIZATION_TIMEOUT_MS; a later pass tries *)
(* again once the claim has expired.                                        *)
MarkFails(p) ==
    /\ faults < MaxFaults
    /\ At(p, "mark")
    /\ Quit(p)
    /\ faults' = faults + 1
    /\ UNCHANGED <<now, row, beat, linked>>

(* The heartbeat, at most once per tick, while the records are marked.      *)
RenewRead(p) ==
    /\ At(p, "mark")
    /\ beat[p] = Idle
    /\ row.expires < now + ClaimTtl
    /\ beat' = [beat EXCEPT ![p] = [claim |-> fin[p].claim, until |-> now + ClaimTtl,
                                    seen |-> row, tries |-> 0]]
    /\ UNCHANGED <<now, row, fin, linked, faults>>

Ours(x) == x.seen.pending /\ x.seen.claim = x.claim

(* A renewal that finds another claim, or loses too many races, aborts the  *)
(* finalization it belongs to if that is still marking.                     *)
Abandon(p) ==
    fin' = IF At(p, "mark") /\ fin[p].claim = beat[p].claim
              THEN [fin EXCEPT ![p] = Idle] ELSE fin

RenewWrite(p) ==
    /\ beat[p] # Idle
    /\ LET x == beat[p] IN
          \/ /\ ~ Ours(x)
             /\ beat' = [beat EXCEPT ![p] = Idle]
             /\ Abandon(p)
             /\ UNCHANGED row
          \/ /\ Ours(x) /\ Unchanged(x.seen)
             /\ row' = [row EXCEPT !.expires = x.until, !.version = @ + 1]
             /\ beat' = [beat EXCEPT ![p] = Idle]
             /\ UNCHANGED fin
          \/ /\ Ours(x) /\ ~ Unchanged(x.seen)
             /\ beat' = [beat EXCEPT ![p] = Again(x)]
             /\ IF Again(x) = Idle THEN Abandon(p) ELSE UNCHANGED fin
             /\ UNCHANGED row
    /\ UNCHANGED <<now, linked, faults>>

ClearRead(p) ==
    /\ At(p, "marked")
    /\ Step(p, [fin[p] EXCEPT !.pc = "clear", !.seen = row, !.tries = 0])
    /\ UNCHANGED <<now, row, beat, linked, faults>>

(* Mutant: whoever marked the records clears whatever marker it finds.      *)
StillOursBlind(x) == x.seen.pending

StillOurs(x) == x.seen.pending /\ x.seen.epoch = x.epoch /\ x.seen.claim = x.claim

(* The marker is replaced by the settlement, if it is still this claim's.   *)
ClearWrite(p) ==
    /\ At(p, "clear")
    /\ LET x == fin[p] IN
          \/ ~ StillOurs(x) /\ Quit(p) /\ UNCHANGED row
          \/ /\ StillOurs(x) /\ Unchanged(x.seen)
             /\ row' = [row EXCEPT !.pending = FALSE, !.claim = 0, !.expires = 0,
                                   !.version = @ + 1]
             /\ Quit(p)
          \/ StillOurs(x) /\ ~ Unchanged(x.seen) /\ Step(p, Again(x)) /\ UNCHANGED row
    /\ UNCHANGED <<now, beat, linked, faults>>

-----------------------------------------------------------------------------
(* The run is retried, executes, and fails in recovery once more.           *)
FailAgain ==
    /\ ~ row.pending
    /\ row.epoch < MaxEpoch
    /\ row' = [row EXCEPT !.epoch = @ + 1, !.pending = TRUE, !.version = @ + 1]
    /\ UNCHANGED <<now, fin, beat, linked, faults>>

(* Another part of the gateway updates the metadata of the failed run.      *)
OtherWrite ==
    /\ faults < MaxFaults
    /\ row' = [row EXCEPT !.version = @ + 1]
    /\ faults' = faults + 1
    /\ UNCHANGED <<now, fin, beat, linked>>

Crash(p) ==
    /\ faults < MaxFaults
    /\ fin[p] # Idle \/ beat[p] # Idle
    /\ fin' = [fin EXCEPT ![p] = Idle]
    /\ beat' = [beat EXCEPT ![p] = Idle]
    /\ faults' = faults + 1
    /\ UNCHANGED <<now, row, linked>>

(* A process at work on the claim renews it three times per ClaimTtl, so    *)
(* the claim outlives a tick.                                               *)
AtWork == \E p \in Procs : fin[p] # Idle /\ row.claim # 0 /\ fin[p].claim = row.claim

Tick ==
    /\ IF AtWork THEN now < MaxClock /\ now + 1 < row.expires ELSE now < row.expires
    /\ now' = now + 1
    /\ UNCHANGED <<row, fin, beat, linked, faults>>

(* A stall: the event loop or the database is late and the claim expires.   *)
Stall ==
    /\ faults < MaxFaults
    /\ AtWork /\ now < row.expires
    /\ now' = now + 1
    /\ faults' = faults + 1
    /\ UNCHANGED <<row, fin, beat, linked>>

Finalize(p) ==
    \/ ClaimRead(p) \/ ClaimClock(p) \/ ClaimWrite(p)
    \/ MarkDone(p) \/ MarkFails(p)
    \/ RenewRead(p) \/ RenewWrite(p)
    \/ ClearRead(p) \/ ClearWrite(p)

Next ==
    \/ \E p \in Procs : Finalize(p) \/ Crash(p)
    \/ FailAgain
    \/ OtherWrite
    \/ Tick
    \/ Stall

Spec == Init /\ [][Next]_vars

(* Time passes, each process polls, its database calls return, and a        *)
(* finalizer that does not fail returns.                                    *)
Fairness ==
    /\ WF_vars(Tick)
    /\ \A p \in Procs :
          /\ WF_vars(ClaimRead(p))
          /\ WF_vars(ClaimClock(p) \/ ClaimWrite(p) \/ ClearRead(p) \/ ClearWrite(p))
          /\ WF_vars(MarkDone(p))
          /\ WF_vars(RenewWrite(p))

FairSpec == Spec /\ Fairness

-----------------------------------------------------------------------------
(* Type correctness; no update is tried more often than MaxTries.           *)
TypeOK ==
    /\ now \in Nat
    /\ row \in Row
    /\ fin \in [Procs -> Finalizing \cup {Idle}]
    /\ beat \in [Procs -> Renewal \cup {Idle}]
    /\ linked \subseteq Nat
    /\ faults \in Nat

(* The marker of a failure is never cleared before its linked records have  *)
(* been marked: not by a finalizer that lost its claim, and not by one left *)
(* over from an earlier failure of the same run.                            *)
ClearedMeansMarked == ~ row.pending => row.epoch \in linked

(* A claim is taken over only when it has expired: a taker that read it     *)
(* before a renewal does not steal it.                                      *)
LiveClaimKept ==
    [][row.claim # 0 /\ row'.claim # row.claim /\ row'.claim # 0
       => row.expires <= now]_vars

(* The claimant alone finishes: the marker is cleared by the process whose  *)
(* claim stands on the row at that moment.                                  *)
ClaimantClears ==
    [][row.pending /\ ~ row'.pending
       => \E p \in Procs : At(p, "clear") /\ fin[p].claim = row.claim
                             /\ fin'[p] = Idle]_vars

(* A failed run does not wait for its finalization for ever, whatever       *)
(* crashes, failed finalizers, stalls and lost races come first.            *)
FinalizationCompletes == row.pending ~> ~ row.pending
=============================================================================
