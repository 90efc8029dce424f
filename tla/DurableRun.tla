----------------------------- MODULE DurableRun -----------------------------
(****************************************************************************)
(* One durable run: its row in durable_runs, its retry and dead-letter      *)
(* rows, the gateway processes that claim, execute, renew and reclaim it,   *)
(* and the operator calls that pause, resume, retry, wake, recover and      *)
(* cancel it.  Processes share one database, so an operator call or a       *)
(* recovery pass reads the row in one step and writes it in a later one;    *)
(* what it read may be stale by then.                                       *)
(****************************************************************************)
EXTENDS Naturals

CONSTANTS Procs,            \* gateway processes, restarted ones included
          Execs,            \* slots for workflow executions in progress
          Calls,            \* slots for operator calls in progress
          Events,           \* wake-event keys a run can wait for
          KillSwitchEvent,  \* AUTONOMY_KILL_SWITCH_RESUME_EVENT
          LeaseTtl,         \* DURABLE_LEASE_TTL_MS
          RetryDelays,      \* values of computeDurableRetryDelayMs
          Ceiling,          \* the hard ceiling of 20 attempts
          Overrides,        \* maxAttempts an operator asks for (0: none)
          Budgets,          \* maxAttempts of new runs
          MaxVersion,       \* bound: no claim, renewal or pause from here on
          MaxClock,         \* bound: the clock stops when nothing expires later
          NoOwner, NoWait, Idle

(* The process of a lease owner id, and the nonce that makes it unique.     *)
Owners == Procs \X Nat

Terminal == {"completed", "failed", "cancelled", "dead_lettered"}

Statuses == {"queued", "running", "waiting", "paused"} \cup Terminal

(* chat: an admitted (v2) Chat turn; pending: linkedFinalizationPending;    *)
(* exhausted: chatRetryExhaustionDeadLetterPending.                         *)
RunRow == [status : Statuses, attempt : Nat, max : Nat,
           owner : Owners \cup {NoOwner}, expires : Nat, version : Nat,
           wait : Events \cup {NoWait}, chat : BOOLEAN, pending : BOOLEAN,
           exhausted : BOOLEAN]

Execution == [proc : Procs, owner : Owners,
              pc : {"claimed", "executing", "blocked", "aborted"}]

OperatorCall == [kind : {"pause", "resume", "retry", "wake", "recover"},
                 seen : RunRow]

RecoveryPass == [kind : {"reclaim", "exited", "sweep"}, seen : RunRow]

ASSUME DurableAssumption ==
    /\ KillSwitchEvent \in Events
    /\ LeaseTtl \in Nat \ {0}
    /\ RetryDelays \subseteq Nat
    /\ Ceiling \in Nat \ {0}
    /\ Overrides \subseteq Nat
    /\ Budgets \subseteq 1 .. Ceiling
    /\ MaxVersion \in Nat
    /\ MaxClock \in Nat
    /\ NoOwner \notin Owners
    /\ NoWait \notin Events
    /\ Idle \notin Execution \cup OperatorCall \cup RecoveryPass

VARIABLES now,         \* the database clock
          run,         \* the row of durable_runs
          retryAt,     \* next_retry_at of the latest durable_retries row
          deadLetter,  \* the durable_dead_letters row: none, open, resolved
          exec,        \* executions in progress, aborted handlers included
          call,        \* operator calls between their read and their write
          loop,        \* the recovery pass of each process's worker loop
          dead,        \* processes that have exited
          stopped,     \* processes whose worker was stopped
          killSwitch   \* feature flag autonomyV1Disabled

vars == <<now, run, retryAt, deadLetter, exec, call, loop, dead, stopped,
          killSwitch>>

Init ==
    /\ now = 0
    /\ \E m \in Budgets, s \in {"queued", "paused", "waiting"}, k \in Events,
          chat \in BOOLEAN :
          run = [status |-> s, attempt |-> 0, max |-> m, owner |-> NoOwner,
                 expires |-> 0, version |-> 1,
                 wait |-> IF s = "waiting" THEN k ELSE NoWait,
                 chat |-> chat, pending |-> FALSE, exhausted |-> FALSE]
    /\ retryAt = 0
    /\ deadLetter = "none"
    /\ exec = [e \in Execs |-> Idle]
    /\ call = [c \in Calls |-> Idle]
    /\ loop = [p \in Procs |-> Idle]
    /\ dead = {}
    /\ stopped = {}
    /\ killSwitch \in BOOLEAN

-----------------------------------------------------------------------------
(* updateRun with clearLease: the row a transition to status s installs.    *)
(* A cleared lease has expiry 0, which no lease that was granted has.       *)
Moved(row, s) ==
    [row EXCEPT !.status = s, !.owner = NoOwner, !.expires = 0, !.version = @ + 1]

(* persistCanonicalAdmittedChatFailureInTransaction for a Chat run, whose   *)
(* linked records have to be finalized, else persistFailedRunInTransaction. *)
Failed(row) == [Moved(row, "failed") EXCEPT !.pending = row.chat]

(* Mutant: a process claims with one worker id for its lifetime.            *)
WorkerOwner(p) == <<p, 0>>

(* Mutant: the owner id carries no nonce at all.                            *)
BareOwner(p) == p

(* A fresh lease owner id: the version of the write that installs it is a   *)
(* nonce no earlier owner id carries.                                       *)
FreshOwner(p) == <<p, run.version + 1>>

(* lockFreshActiveLeaseForUpdate: o holds the run and the lease is unexpired. *)
HoldsLease(o) ==
    /\ run.status = "running"
    /\ run.owner = o
    /\ now < run.expires

(* Mutant: a renewal does not advance the version.                          *)
RenewedUnversioned == [run EXCEPT !.expires = now + LeaseTtl]

(* renewLeaseWithDatabaseClock, for a lease that HoldsLease.                *)
Renewed == [run EXCEPT !.expires = now + LeaseTtl, !.version = @ + 1]

(* The worker loop of p runs and is not inside an execution or a pass.      *)
WorkerFree(p) ==
    /\ p \notin dead \cup stopped
    /\ loop[p] = Idle
    /\ \A e \in Execs : exec[e] # Idle => exec[e].proc # p \/ exec[e].pc = "aborted"

-----------------------------------------------------------------------------
(* Executing the run: drainQueuedRuns and executeWithLeaseHeartbeat.        *)

Claim(e, p) ==
    /\ run.version < MaxVersion
    /\ WorkerFree(p)
    /\ exec[e] = Idle
    /\ run.status = "queued"
    /\ retryAt <= now
    /\ run' = [run EXCEPT !.status = "running", !.owner = FreshOwner(p),
                          !.expires = now + LeaseTtl, !.version = @ + 1]
    /\ exec' = [exec EXCEPT ![e] =
                  [proc |-> p, owner |-> FreshOwner(p), pc |-> "claimed"]]
    /\ UNCHANGED <<now, retryAt, deadLetter, call, loop, dead, stopped, killSwitch>>

At(e, pcs) == exec[e] # Idle /\ exec[e].pc \in pcs

Leave(e) == exec' = [exec EXCEPT ![e] = Idle]

Goto(e, pc) == exec' = [exec EXCEPT ![e] = [exec[e] EXCEPT !.pc = pc]]

(* The continuation gate pauses or stops the run before it executes; when   *)
(* the lease has moved the worker drops the run.                            *)
ContinuationGate(e, s) ==
    /\ At(e, {"claimed"})
    /\ s \in {"paused", "cancelled"}
    /\ run' = IF HoldsLease(exec[e].owner) THEN Moved(run, s) ELSE run
    /\ Leave(e)
    /\ UNCHANGED <<now, retryAt, deadLetter, call, loop, dead, stopped, killSwitch>>

(* Ownership check and renewal before the handler is called.                *)
Begin(e) ==
    /\ At(e, {"claimed"})
    /\ IF HoldsLease(exec[e].owner) /\ exec[e].proc \notin stopped
          THEN run' = Renewed /\ Goto(e, "executing")
          ELSE run' = run /\ Leave(e)
    /\ UNCHANGED <<now, retryAt, deadLetter, call, loop, dead, stopped, killSwitch>>

(* One heartbeat: renew, or abort the execution when the lease has moved.   *)
Heartbeat(e) ==
    /\ At(e, {"executing"})
    /\ IF HoldsLease(exec[e].owner)
          THEN run.version < MaxVersion /\ run' = Renewed /\ exec' = exec
          ELSE run' = run /\ Goto(e, "aborted")
    /\ UNCHANGED <<now, retryAt, deadLetter, call, loop, dead, stopped, killSwitch>>

(* Mutant: revoking clears the lease instead of handing it to a fresh id.   *)
RevokedCleared(o) ==
    IF run.status = "running" /\ run.owner = o
       THEN [run EXCEPT !.owner = NoOwner, !.expires = 0, !.version = @ + 1]
       ELSE run

(* revokeActiveExecutionLease: a fresh owner id and the old expiry, so that *)
(* no handler of this process can commit and recovery waits for the expiry. *)
Revoked(o) ==
    IF run.status = "running" /\ run.owner = o
       THEN [run EXCEPT !.owner = FreshOwner(o[1]), !.version = @ + 1]
       ELSE run

(* Storage stayed unreachable for the tolerated number of heartbeats: the   *)
(* lease is revoked (or that fails too) and the execution is aborted.       *)
HeartbeatUnavailable(e) ==
    /\ At(e, {"executing"})
    /\ run' \in {run, Revoked(exec[e].owner)}
    /\ Goto(e, "aborted")
    /\ UNCHANGED <<now, retryAt, deadLetter, call, loop, dead, stopped, killSwitch>>

(* assertAutonomousDurableRunAllowed throws while the switch is engaged.    *)
BlockedBySwitch(e) ==
    /\ At(e, {"executing"})
    /\ killSwitch
    /\ Goto(e, "blocked")
    /\ UNCHANGED <<now, run, retryAt, deadLetter, call, loop, dead, stopped, killSwitch>>

(* The handler of e settles the run as row r, if e still holds it.  An      *)
(* aborted handler that was not interrupted in time ends here as well.      *)
Settle(e, r) ==
    /\ At(e, {"executing", "aborted"})
    /\ run' = IF HoldsLease(exec[e].owner) THEN r ELSE run
    /\ Leave(e)
    /\ UNCHANGED <<now, retryAt, deadLetter, call, loop, dead, stopped, killSwitch>>

(* completeDurableWorkflowRun *)
CompleteRun(e) == Settle(e, Moved(run, "completed"))

(* failWorkflowRun, for a handler that throws *)
FailRun(e) == Settle(e, Failed(run))

(* The handler parks the run until event k; a run blocked by the switch     *)
(* parks for the event that the sweep of the worker loop raises.            *)
ParkWaiting(e, k) ==
    /\ \/ At(e, {"executing", "aborted"}) /\ k \in Events \ {KillSwitchEvent}
       \/ At(e, {"blocked"}) /\ k = KillSwitchEvent
    /\ run' = IF HoldsLease(exec[e].owner)
                 THEN [Moved(run, "waiting") EXCEPT !.wait = k] ELSE run
    /\ Leave(e)
    /\ UNCHANGED <<now, retryAt, deadLetter, call, loop, dead, stopped, killSwitch>>

(* executeWithTimeout gives up on the handler of e: the run fails, or parks *)
(* for its operator (event k), while the handler may still be running.      *)
TimedOut(e, k) ==
    /\ At(e, {"executing"})
    /\ k \in (Events \ {KillSwitchEvent}) \cup {NoWait}
    /\ run' = IF ~ HoldsLease(exec[e].owner) THEN run
              ELSE IF k = NoWait THEN Failed(run)
              ELSE [Moved(run, "waiting") EXCEPT !.wait = k]
    /\ Goto(e, "aborted")
    /\ UNCHANGED <<now, retryAt, deadLetter, call, loop, dead, stopped, killSwitch>>

(* The attempts are used up: a dead letter, but a Chat run first fails and  *)
(* gets its dead letter once it is finalized.                               *)
Exhausted(seen) ==
    IF seen.chat THEN [Failed(seen) EXCEPT !.attempt = @ + 1, !.exhausted = TRUE]
    ELSE [Moved(seen, "dead_lettered") EXCEPT !.attempt = @ + 1]

(* persistDurableRunRetry on the row seen: the next attempt after a delay,  *)
(* or the end of the attempts, in one transaction.                          *)
PersistRetry(seen) ==
    IF seen.attempt + 1 > seen.max
       THEN /\ run' = Exhausted(seen)
            /\ deadLetter' = IF seen.chat THEN deadLetter ELSE "open"
            /\ UNCHANGED retryAt
       ELSE /\ run' = [Moved(seen, "queued") EXCEPT !.attempt = @ + 1]
            /\ retryAt' \in {now + d : d \in RetryDelays}
            /\ UNCHANGED deadLetter

(* A handler schedules its own retry, fenced by its lease.                  *)
ScheduleRunningRetry(e) ==
    /\ At(e, {"executing", "aborted"})
    /\ IF HoldsLease(exec[e].owner)
          THEN PersistRetry(run)
          ELSE UNCHANGED <<run, retryAt, deadLetter>>
    /\ Leave(e)
    /\ UNCHANGED <<now, call, loop, dead, stopped, killSwitch>>

-----------------------------------------------------------------------------
(* Operator calls: a read that decides, then a write in a transaction that  *)
(* the version of the row read guards.                                      *)

Read(c, kind) ==
    /\ call[c] = Idle
    /\ call' = [call EXCEPT ![c] = [kind |-> kind, seen |-> run]]
    /\ UNCHANGED <<now, run, retryAt, deadLetter, exec, loop, dead, stopped, killSwitch>>

Done(c) == call' = [call EXCEPT ![c] = Idle]

Pending(c, kind) == call[c] # Idle /\ call[c].kind = kind

(* Mutant: the update is not conditional on the version.                    *)
UnchangedBlind(seen) == TRUE

(* updateRun's WHERE version = expectedVersion still finds the row.         *)
Unchanged(seen) == run.version = seen.version

PauseRead(c) ==
    /\ run.version < MaxVersion
    /\ run.status \notin Terminal \cup {"paused"}
    /\ Read(c, "pause")

PauseWrite(c) ==
    /\ Pending(c, "pause")
    /\ run' = IF Unchanged(call[c].seen) THEN Moved(call[c].seen, "paused") ELSE run
    /\ Done(c)
    /\ UNCHANGED <<now, retryAt, deadLetter, exec, loop, dead, stopped, killSwitch>>

(* An autonomous run is not resumed while the kill switch is engaged.       *)
ResumeRead(c) ==
    /\ run.status = "paused"
    /\ ~ killSwitch
    /\ Read(c, "resume")

(* Resume and wake drop the wake registration as they requeue the run.      *)
Requeued(seen) == [Moved(seen, "queued") EXCEPT !.wait = NoWait]

ResumeWrite(c) ==
    /\ Pending(c, "resume")
    /\ run' = IF Unchanged(call[c].seen) THEN Requeued(call[c].seen) ELSE run
    /\ Done(c)
    /\ UNCHANGED <<now, retryAt, deadLetter, exec, loop, dead, stopped, killSwitch>>

(* A wake names the event the run is registered for, or is skipped.         *)
WakeRead(c, k) ==
    /\ run.status = "waiting"
    /\ run.wait = k
    /\ Read(c, "wake")

WakeWrite(c) ==
    /\ Pending(c, "wake")
    /\ run' = IF Unchanged(call[c].seen) THEN Requeued(call[c].seen) ELSE run
    /\ Done(c)
    /\ UNCHANGED <<now, retryAt, deadLetter, exec, loop, dead, stopped, killSwitch>>

(* Mutant: retry does not wait for the linked state to be finalized.        *)
RetryReadUnfinalized(c) ==
    /\ run.status = "failed"
    /\ ~ run.chat
    /\ Read(c, "retry")

(* A Chat run is never replayed by hand.                                    *)
RetryRead(c) ==
    /\ run.status = "failed"
    /\ ~ run.pending
    /\ ~ run.chat
    /\ Read(c, "retry")

RetryWrite(c) ==
    /\ Pending(c, "retry")
    /\ IF Unchanged(call[c].seen)
          THEN PersistRetry(call[c].seen)
          ELSE UNCHANGED <<run, retryAt, deadLetter>>
    /\ Done(c)
    /\ UNCHANGED <<now, exec, loop, dead, stopped, killSwitch>>

RecoverRead(c) ==
    /\ deadLetter = "open"
    /\ run.status = "dead_lettered"
    /\ run.attempt < Ceiling
    /\ Read(c, "recover")

Larger(a, b) == IF a < b THEN b ELSE a

Smaller(a, b) == IF a < b THEN a ELSE b

(* Mutant: the override is not capped by the hard ceiling.                  *)
RaisedMaxUncapped(seen, m) ==
    IF m = 0 THEN seen.max ELSE Larger(seen.attempt + 1, m)

(* The attempt budget of a recovered run; 0 stands for no override.         *)
RaisedMax(seen, m) ==
    IF m = 0 THEN seen.max ELSE Smaller(Ceiling, Larger(seen.attempt + 1, m))

(* Mutant: the run is requeued and its dead letter stays open.              *)
RecoverKeepsLetter(c, m) ==
    /\ run' = IF deadLetter = "open" /\ Unchanged(call[c].seen)
                 THEN [Moved(call[c].seen, "queued") EXCEPT
                          !.max = RaisedMax(call[c].seen, m)]
                 ELSE run
    /\ UNCHANGED deadLetter

(* Resolving the dead letter and requeueing the run commit together: either *)
(* conflict (resolved meanwhile, row moved) rolls both back.                *)
Recover(c, m) ==
    IF deadLetter = "open" /\ Unchanged(call[c].seen)
       THEN /\ run' = [Moved(call[c].seen, "queued") EXCEPT
                          !.max = RaisedMax(call[c].seen, m)]
            /\ deadLetter' = "resolved"
       ELSE UNCHANGED <<run, deadLetter>>

RecoverWrite(c, m) ==
    /\ Pending(c, "recover")
    /\ Recover(c, m)
    /\ Done(c)
    /\ UNCHANGED <<now, retryAt, exec, loop, dead, stopped, killSwitch>>

(* The process of a call exits, or the call throws, before it writes.       *)
LoseCall(c) ==
    /\ call[c] # Idle
    /\ Done(c)
    /\ UNCHANGED <<now, run, retryAt, deadLetter, exec, loop, dead, stopped, killSwitch>>

(* Cancellation re-reads the row under the lock of its transaction.         *)
Cancel ==
    /\ run.status \notin Terminal
    /\ run' = Moved(run, "cancelled")
    /\ UNCHANGED <<now, retryAt, deadLetter, exec, call, loop, dead, stopped, killSwitch>>

-----------------------------------------------------------------------------
(* Recovery: the passes of runWorkerProcessingLoop.                         *)

Observe(p, kind) ==
    /\ WorkerFree(p)
    /\ loop' = [loop EXCEPT ![p] = [kind |-> kind, seen |-> run]]
    /\ UNCHANGED <<now, run, retryAt, deadLetter, exec, call, dead, stopped, killSwitch>>

EndPass(p) == loop' = [loop EXCEPT ![p] = Idle]

InPass(p, kind) == loop[p] # Idle /\ loop[p].kind = kind

(* A candidate is listed once its lease has expired by the database's clock *)
(* and read by a later statement: it may have been renewed, or claimed      *)
(* again, in between, so a lease that is still good can be observed.        *)
ReclaimRead(p) ==
    /\ run.status = "running"
    /\ run.expires # 0
    /\ Observe(p, "reclaim")

(* Mutant: the recovery lock trusts the expiry that was observed.           *)
LeaseExpiredUnchecked(seen) ==
    /\ run.status = "running"
    /\ run.owner = seen.owner

(* lockExpiredLeaseForUpdate: the lease observed, and past its expiry.      *)
LeaseExpired(seen) ==
    /\ run.status = "running"
    /\ run.owner = seen.owner
    /\ run.expires = seen.expires
    /\ run.expires <= now

(* A recoverable run goes back to the queue; any other fails, and stays     *)
(* failed until the records linked to it have been finalized.               *)
RecoveredRows ==
    {Moved(run, "queued"), [Moved(run, "failed") EXCEPT !.pending = TRUE]}

ReclaimWrite(p) ==
    /\ InPass(p, "reclaim")
    /\ IF LeaseExpired(loop[p].seen) THEN run' \in RecoveredRows ELSE run' = run
    /\ EndPass(p)
    /\ UNCHANGED <<now, retryAt, deadLetter, exec, call, dead, stopped, killSwitch>>

(* The local process that owns the lease has exited.                        *)
OwnerExited(p, o) == o # NoOwner /\ o[1] \in dead \ {p}

ExitedRead(p) ==
    /\ run.status = "running"
    /\ OwnerExited(p, run.owner)
    /\ Observe(p, "exited")

ExitedWrite(p) ==
    /\ InPass(p, "exited")
    /\ IF HoldsLease(loop[p].seen.owner) /\ OwnerExited(p, run.owner)
          THEN run' \in RecoveredRows ELSE run' = run
    /\ EndPass(p)
    /\ UNCHANGED <<now, retryAt, deadLetter, exec, call, dead, stopped, killSwitch>>

(* Mutant: parked runs are swept when the gateway boots and never again.    *)
SweepReadAtBoot(p) ==
    /\ now = 0
    /\ ~ killSwitch
    /\ run.status = "waiting"
    /\ run.wait = KillSwitchEvent
    /\ Observe(p, "sweep")

(* resumeRunsWaitingForAutonomyKillSwitch: wake what the switch parked.     *)
SweepRead(p) ==
    /\ ~ killSwitch
    /\ run.status = "waiting"
    /\ run.wait = KillSwitchEvent
    /\ Observe(p, "sweep")

SweepWrite(p) ==
    /\ InPass(p, "sweep")
    /\ run' = IF Unchanged(loop[p].seen) THEN Requeued(loop[p].seen) ELSE run
    /\ EndPass(p)
    /\ UNCHANGED <<now, retryAt, deadLetter, exec, call, dead, stopped, killSwitch>>

(* A finalizer claims the linked state, or renews its claim, in metadata.   *)
ClaimFinalization ==
    /\ run.version < MaxVersion
    /\ run.status = "failed" /\ run.pending
    /\ run' = [run EXCEPT !.version = @ + 1]
    /\ UNCHANGED <<now, retryAt, deadLetter, exec, call, loop, dead, stopped, killSwitch>>

(* The finalizer is done: the run no longer waits for its linked state.     *)
ClearFinalization ==
    /\ run.status = "failed" /\ run.pending
    /\ run' = [run EXCEPT !.pending = FALSE, !.version = @ + 1]
    /\ UNCHANGED <<now, retryAt, deadLetter, exec, call, loop, dead, stopped, killSwitch>>

(* projectChatRetryExhaustionDeadLetter, once nothing is pending any more   *)
(* of the failure that used up a Chat run's attempts: the letter is written *)
(* first, and a crash may come before the run is moved. A later pass writes *)
(* it again. Bound: one projection at a time.                               *)
ProjectLetter ==
    /\ run.status = "failed" /\ run.exhausted /\ ~ run.pending
    /\ deadLetter # "open"
    /\ deadLetter' = "open"
    /\ UNCHANGED <<now, run, retryAt, exec, call, loop, dead, stopped, killSwitch>>

ProjectDeadLetter ==
    /\ run.status = "failed" /\ run.exhausted /\ ~ run.pending
    /\ deadLetter = "open"
    /\ run' = [Moved(run, "dead_lettered") EXCEPT !.exhausted = FALSE]
    /\ UNCHANGED <<now, retryAt, deadLetter, exec, call, loop, dead, stopped, killSwitch>>

-----------------------------------------------------------------------------
(* The environment.                                                         *)

(* Bound: some worker always remains, the process a supervisor restarts.    *)
Survivor(p) == \E q \in Procs \ {p} : q \notin dead \cup stopped

(* A process exits: its executions and its recovery pass are gone.          *)
Crash(p) ==
    /\ p \notin dead
    /\ Survivor(p)
    /\ dead' = dead \cup {p}
    /\ exec' = [e \in Execs |->
                  IF exec[e] # Idle /\ exec[e].proc = p THEN Idle ELSE exec[e]]
    /\ loop' = [loop EXCEPT ![p] = Idle]
    /\ UNCHANGED <<now, run, retryAt, deadLetter, call, stopped, killSwitch>>

ExecutingOn(p) == {e \in Execs : At(e, {"executing"}) /\ exec[e].proc = p}

(* stopWorker revokes the lease of what it is executing and aborts it.      *)
StopWorker(p) ==
    /\ p \notin dead \cup stopped
    /\ Survivor(p)
    /\ stopped' = stopped \cup {p}
    /\ run' \in {run} \cup {Revoked(exec[e].owner) : e \in ExecutingOn(p)}
    /\ exec' = [e \in Execs |->
                  IF e \in ExecutingOn(p) THEN [exec[e] EXCEPT !.pc = "aborted"]
                  ELSE exec[e]]
    /\ UNCHANGED <<now, retryAt, deadLetter, call, loop, dead, killSwitch>>

ToggleKillSwitch ==
    /\ killSwitch' = ~ killSwitch
    /\ UNCHANGED <<now, run, retryAt, deadLetter, exec, call, loop, dead, stopped>>

Tick ==
    /\ now < MaxClock \/ now < run.expires \/ now < retryAt
    /\ now' = now + 1
    /\ UNCHANGED <<run, retryAt, deadLetter, exec, call, loop, dead, stopped, killSwitch>>

Execute(e) ==
    \/ \E p \in Procs : Claim(e, p)
    \/ \E s \in {"paused", "cancelled"} : ContinuationGate(e, s)
    \/ Begin(e)
    \/ Heartbeat(e)
    \/ HeartbeatUnavailable(e)
    \/ BlockedBySwitch(e)
    \/ CompleteRun(e) \/ FailRun(e)
    \/ \E k \in Events : ParkWaiting(e, k)
    \/ \E k \in Events \cup {NoWait} : TimedOut(e, k)
    \/ ScheduleRunningRetry(e)

Operate(c) ==
    \/ PauseRead(c) \/ PauseWrite(c)
    \/ ResumeRead(c) \/ ResumeWrite(c)
    \/ (\E k \in Events : WakeRead(c, k)) \/ WakeWrite(c)
    \/ RetryRead(c) \/ RetryWrite(c)
    \/ RecoverRead(c) \/ (\E m \in Overrides : RecoverWrite(c, m))
    \/ LoseCall(c)

Recovery(p) ==
    \/ ReclaimRead(p) \/ ReclaimWrite(p)
    \/ ExitedRead(p) \/ ExitedWrite(p)
    \/ SweepRead(p) \/ SweepWrite(p)

Next ==
    \/ \E e \in Execs : Execute(e)
    \/ \E c \in Calls : Operate(c)
    \/ \E p \in Procs : Recovery(p) \/ Crash(p) \/ StopWorker(p)
    \/ Cancel
    \/ ClaimFinalization
    \/ ClearFinalization
    \/ ProjectLetter
    \/ ProjectDeadLetter
    \/ ToggleKillSwitch
    \/ Tick

Spec == Init /\ [][Next]_vars

(* Time passes; the timers of a live process fire, its database calls       *)
(* return, and every iteration of its worker loop makes each pass.          *)
Fairness ==
    /\ WF_vars(Tick)
    /\ \A p \in Procs :
          /\ SF_vars(ReclaimRead(p))
          /\ SF_vars(SweepRead(p))
          /\ WF_vars(ReclaimWrite(p) \/ ExitedWrite(p) \/ SweepWrite(p))
    /\ \A e \in Execs :
          /\ WF_vars(Begin(e))
          /\ WF_vars(Heartbeat(e))
          /\ WF_vars(ParkWaiting(e, KillSwitchEvent))

FairSpec == Spec /\ Fairness

-----------------------------------------------------------------------------
(* Type correctness. *)
TypeOK ==
    /\ now \in Nat
    /\ run \in RunRow
    /\ retryAt \in Nat
    /\ deadLetter \in {"none", "open", "resolved"}
    /\ exec \in [Execs -> Execution \cup {Idle}]
    /\ call \in [Calls -> OperatorCall \cup {Idle}]
    /\ loop \in [Procs -> RecoveryPass \cup {Idle}]
    /\ dead \subseteq Procs
    /\ stopped \subseteq Procs
    /\ killSwitch \in BOOLEAN

(* No double commit: of the handlers still running, the ones a lost lease,  *)
(* a pause, a stop or a reclaim left behind included, at most one can       *)
(* settle the run.                                                          *)
SingleCommitter ==
    \A e, f \in Execs :
        /\ exec[e] # Idle /\ exec[f] # Idle
        /\ HoldsLease(exec[e].owner) /\ HoldsLease(exec[f].owner)
        => e = f

(* What a caller read is the current row or has an older version.           *)
Faithful(seen) ==
    /\ seen.version <= run.version
    /\ seen.version = run.version => seen = run

(* A version names one state of the row: an update whose version check      *)
(* succeeds writes over exactly the row its caller read and decided on.     *)
VersionNamesRow ==
    /\ \A c \in Calls : call[c] # Idle => Faithful(call[c].seen)
    /\ \A p \in Procs : loop[p] # Idle => Faithful(loop[p].seen)

(* The lease columns of the row are set exactly while it is running, and    *)
(* only a failed run waits for its linked state to be finalized or, once    *)
(* its attempts are used up, for its dead letter: no other path out of      *)
(* failed may be taken first.                                               *)
RowConsistent ==
    /\ run.status = "running" <=> run.owner # NoOwner
    /\ run.pending \/ run.exhausted => run.status = "failed"
    /\ run.status = "waiting" => run.wait # NoWait

(* A dead-lettered run has an open dead letter, so that it can be found and *)
(* recovered, once only; and a letter is open for no other run but a Chat   *)
(* run with its attempts used up, which is about to be dead-lettered.       *)
DeadLetterMatches ==
    /\ run.status = "dead_lettered" => deadLetter = "open"
    /\ deadLetter = "open" => run.status = "dead_lettered" \/ run.exhausted

(* However often a run is retried, dead-lettered and recovered, its budget  *)
(* and the attempts of a run that may still execute stay within the hard    *)
(* ceiling; only the attempt that dead-letters it, or a Chat run that is    *)
(* about to be, may be one beyond.                                          *)
AttemptCeiling ==
    /\ run.max <= Ceiling
    /\ run.attempt <= Ceiling + 1
    /\ run.status # "dead_lettered" /\ ~ run.exhausted => run.attempt <= Ceiling

(* Nobody requeues a run under a live execution: a running run goes back to *)
(* the queue when its lease has run out, its process has exited, or the     *)
(* execution that holds it ends in that step.                               *)
LiveLeaseNotStolen ==
    [][run.status = "running" /\ run'.status = "queued"
       => \/ run.expires <= now
          \/ run.owner[1] \in dead
          \/ \E e \in Execs : exec[e] # Idle /\ exec[e].owner = run.owner
                                /\ exec'[e] = Idle]_vars

Lifecycle == INSTANCE DurableLifecycle WITH status <- run.status

(* The run implements the status diagram of the durable contract, whatever  *)
(* operators, workers and recovery passes do at the same time.              *)
ImplementsLifecycle == Lifecycle!Spec

Orphaned ==
    /\ run.status = "running"
    /\ \A e \in Execs :
          exec[e] # Idle => exec[e].owner # run.owner \/ exec[e].pc = "aborted"

(* A run that no live execution holds any more (its worker crashed, was     *)
(* stopped, or lost its storage) does not stay running.                     *)
OrphanReclaimed == Orphaned ~> ~ Orphaned

ParkedBySwitch == run.status = "waiting" /\ run.wait = KillSwitchEvent

(* Once the kill switch stays off, no run stays parked by it: also not one  *)
(* that parks after the sweep that turning the switch off triggered.        *)
SwitchedOffRunResumes ==
    (<>[] ~ killSwitch) => (ParkedBySwitch ~> ~ ParkedBySwitch)
=============================================================================
