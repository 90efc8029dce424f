# GoatCitadel: TLA+ models of the durable core

GoatCitadel is a local-first gateway for AI agents: one or more gateway
processes (`apps/gateway`) on one SQLite or Postgres database
(`packages/storage`), with a policy engine, an orchestration engine, a mesh of
nodes, schedulers and channel connectors around them, and several user
interfaces in front. This directory models the part on which everything else
rests: durable runs, the finalization of runs that cannot be recovered, the
at-most-once dispatch of external side effects, the durable queue of inbound
channel events, and the leases, session owners and join tokens of the mesh. TLC
checks the models on small instances; TLAPS proves their main properties for
every value of the constants.

Paths below are relative to the repository's root.

## 1. Inventory

| Component | State | Operations | What is hard | Correct when |
|---|---|---|---|---|
| Durable runs (`apps/gateway/src/services/durable-run-service.ts`, `durable-execution-service.ts`, `packages/storage/src/durable-run-repo.ts`) | `durable_runs` row (status, attempt budget, lease owner and expiry, version, metadata), `durable_retries`, `durable_dead_letters`, checkpoints; per process: active executions, worker loop | create, claim, heartbeat, settle, park, retry, dead-letter, recover, pause, resume, wake, cancel, reclaim, sweep | several processes on one database; handlers that outlive their lease; operator calls that act on stale reads; crashes between any two statements | one handler commits, the row keeps its meaning, nothing is stuck |
| Linked finalization (same service, `finalizePendingLinkedState` and its claim) | a marker in the run's metadata: failure id, claim id, claim expiry | claim, renew, mark linked records, clear | claims that expire under their holder, failures that repeat | no failure's marker is cleared unmarked; a pending one is finished |
| External side effects (`apps/gateway/src/services/external-side-effect-runner-service.ts`, `packages/storage/src/mutation-idempotency-repo.ts`, `external-side-effect-run-repo.ts`) | idempotency row (status, claim token, lease, dispatch mark), ledger row | claim, take over, mark dispatched, call the provider, settle, reconcile | a crash or a lost reply around the provider call; a takeover while the first caller is still alive | the provider is not called twice for one key unless the first call is known not to have happened, or the provider deduplicates |
| Mesh leases (`packages/storage/src/mesh-repo.ts`, `packages/mesh-core/src/mesh-service.ts`) | `mesh_leases` row: holder, fencing token, expiry | acquire, renew, release | read and write are separate statements | one live holder; a new holder has a new token |
| Mesh session owners (same files) | `mesh_session_owners` row: owner, epoch | claim, get | read, decision and write of two claims interleave; replies are lost | an epoch has one owner; an unforced takeover replaces exactly the epoch it named |
| Mesh membership (same files, `config-generation-service.ts`) | node rows, join tokens, the gateway's mesh options in memory, the journal of a settings change | init, replace options, roll back, recover at startup, join | crashes between journal, rows and memory; joins during a change | the gateway stays registered under its configured identity; a token admits one join |
| Mesh replication (same files) | replication log, consumer offsets | append, list, set offset | cursor by timestamp and random id, offsets that move back | no event skipped, offsets monotonic |
| Configuration generations (`apps/gateway/src/services/config-generation-service.ts`) | canonical file, last-good copy, transaction marker, mirrors | commit, roll back, recover | crash between any two file operations | readers see one generation; owners follow it |
| Chat post-commit effects (durable run service) | claim markers in run metadata, child runs | claim, dispatch, settle | a crash between the commit and its effects | each effect dispatched, not twice |
| Orchestration engine (`packages/orchestration/src/engine.ts`) | plan, wave and phase cursors, gate | start, advance, approve, stop | stop racing an advance | no phase skipped or run twice |
| Approvals, pending actions (`approval-repo.ts`, `pending-approval-action-repo.ts`) | approval and action rows | create, resolve, expire, execute | resolve racing expiry | an action runs once and only if approved |
| Scheduler (`cron-run-repo.ts`) | occurrence rows | claim, settle | several schedulers | one run per occurrence |
| Inbound channel events (`packages/storage/src/inbound-channel-event-repo.ts`, `apps/gateway/src/services/inbound-channel-event-service.ts`, `inbound-channel-lane.ts`, `browser-errands/errand-channel-replies.ts`) | event rows (status, lane, attempts, claim token and expiry, bot-loop decision, errand-reply marker); per process: drain loops, handlers, the running browser errand | accept, recover expired claims, claim a batch, record, execute a command, decide the bot loop, launch and await a turn, reply, answer an errand approval, retry, settle | passes of two loops and a maintenance tick over the same rows; handlers that outlive their claim; a message that answers the very turn it queues behind; crashes between an effect and its row | events of a lane in order, each settled, and a settled row true; no command or answer applied twice or to the wrong question |
| Remote workers (`remote-worker-*-repo.ts`) | assignments, admissions, budgets | assign, admit, report | capacity under concurrent admission | capacity and budget respected |
| Policy engine, memory retrieval, storage layer, user interfaces | configuration, text, schema | - | mostly pure or I/O | not modelled, see section 7 |

The parts meet in the database. A gateway process calls the durable run service
from its HTTP handlers (operator calls) and from its own worker loop; a run's
handler calls out through the external side-effect runner; a run that fails in
recovery leaves a finalization marker that every process's loop looks for. A
channel message becomes a row of the inbound queue before it is acknowledged; its
handler launches a durable Chat turn, and the turn's browser errand may in turn
wait for a later message of the same conversation.
Nothing but rows, their versions, owner ids and claim tokens coordinates two
processes, so the models are about exactly those columns and about what may
happen between a read and the write it leads to.

## 2. Plan

Done, in this order:

1. `MeshLease`: the smallest read-decide-write protocol of the repository.
2. `DurableLifecycle` (the abstract status diagram) and `DurableRun` (the run
   itself), the second an implementation of the first.
3. `LinkedFinalization`: the claim protocol that `DurableRun` abstracts to
   `ClaimFinalization` and `ClearFinalization`.
4. `ExternalSideEffect`: what a run's handler calls to reach a provider.
5. `MeshSessionOwner` and `MeshJoin`: ownership epochs, membership, settings
   rollback.
6. `InboundEvent`: the durable queue of channel events with its lanes, passes and
   handlers, and the errand approvals that messages answer.
7. The abstract specifications `OneEffect` (an idempotency key) and `LaneQueue`
   (an ordered queue per lane), which `ExternalSideEffect` and `InboundEvent`
   implement, with the proofs of both refinements and of `OnePayload`.

Next, by importance:

8. `ChatPostCommit`: autonomous and general post-commit markers, their claims,
   child runs and the closing of the turn admission (durable run service, about
   a quarter of that file). It reuses the claim protocol of
   `LinkedFinalization`; the property to state is that each effect of a
   generation is dispatched, once, and before the admission closes.
9. `ConfigGeneration`: commit and recovery of the canonical file, last-good copy
   and marker, crash by crash; `MeshJoin` would then be composed with it rather
   than abstract it.
10. `Approvals` (resolve, expire, execute once) with an abstract specification of
    a pending action, to be composed with `InboundEvent` where a message resolves
    one; `CronRun` (one run per occurrence), `Orchestration` (waves, gates, stop).
11. `MeshReplication`: append, keyset paging and offsets.

## 3. Modules and the code

A repository statement, and a `runImmediateTransaction` block, is one atomic
step; everything between two of them may interleave with other processes. A
call that reads, decides and later writes is two actions, with what it read kept
in a record (`seen`), so that the write can meet a row that has moved on. A
call that throws before it writes is no step at all.

`DurableLifecycle`: one variable, the status, and one action per kind of status
change. It says which status may follow which and nothing else.

`DurableRun`: one row of `durable_runs` (status, attempts and budget, lease
owner and expiry, version, wake event, pending finalization, whether it is an
admitted Chat run and whether its used-up attempts still wait for a dead letter),
the latest retry time and the dead letter; per execution slot the process, the
owner id and the handler's progress; per operator call and per process's recovery pass the row
it read. `Claim`, `ContinuationGate`, `Begin`, `Heartbeat`,
`HeartbeatUnavailable`, `BlockedBySwitch`, `CompleteRun`, `FailRun`,
`ParkWaiting`, `TimedOut` and `ScheduleRunningRetry` are a worker's life with a
run; `PauseRead/Write`, `ResumeRead/Write`, `WakeRead/Write`, `RetryRead/Write`,
`RecoverRead/Write` and `Cancel` the operator calls; `ReclaimRead/Write`,
`ExitedRead/Write`, `SweepRead/Write`, `ClaimFinalization`, `ClearFinalization`,
`ProjectLetter` and `ProjectDeadLetter` the worker loop; `Crash`,
`StopWorker`, `ToggleKillSwitch` and `Tick` the environment. An aborted handler stays in its slot (`"aborted"`)
until it ends, because it may still try to commit. `abortActiveRun` reaches only
the process that serves the operator's call, so the model lets a heartbeat
abort a handler at any time after the row has left it. `Recover` resolves the
letter and requeues the run in one transaction, as the code does. A failure of an
admitted Chat run sets the pending finalization (`Failed`); when its attempts are
used up it fails as well, one attempt beyond its budget, and only after the
finalization does `projectChatRetryExhaustionDeadLetter` dead-letter it, in two
statements without a transaction (`ProjectLetter`, `ProjectDeadLetter`). Any other
run is dead-lettered at once (`Exhausted`).

`LinkedFinalization`: the columns of a failed run that its finalization uses,
and for each process the finalization and the claim renewal it has in flight.
`FailAgain` is a later failure of the same run (retry, claim, failure), a new
epoch. `OtherWrite` is any version-bumping update by someone else. What a
finalizer does to the linked records is one step (`MarkDone`) or fails
(`MarkFails`).

`ExternalSideEffect`: one idempotency key. `mut` is the mutation row, `ledger`
the external-side-effect run row, `runner` the attempts in progress, each at one
of the points where the code awaits. `Strict` selects callers that require the
durable boundary record and so write both rows in one transaction;
`KeyEnforced` a provider that deduplicates by key. `sends` and `carried` are
what the provider saw. A claim token is a number, because only equality and
freshness of the UUID matter.

`OneEffect`: what a key promises whoever uses it, in three variables: the answer
of the key (open, unknown, completed), how often the provider was called and with
which payloads. `Call` is allowed once, or again when the provider deduplicates;
an unknown outcome becomes completed only by `Confirm`, which needs a call that
was made. `Phase` maps the mutation row to the answer; `sends` and `carried` are
the same in both. A row that is claimed, pending, failed before the boundary or
dropped answers "open": a caller may be let in.

`MeshLease`, `MeshSessionOwner`: one variable for the table, one for the calls
in flight (after their read, after their write), one for the records that nodes
were given. `MeshLease` has `SingleProcess` to choose between one gateway, whose
synchronous repository calls do not interleave, and several on one database.

`MeshJoin`: the two tables, the gateway's options in memory, the canonical
configuration, the settings change in progress with the snapshot in its journal
(`receipt`) and the one in the process (`handle`), and joins between their two
statements. `uses` counts the joins a token admitted and `reopened` the rollbacks
that turned a used token into an unused one; both are history. The phases of a change are the durable decisions of
`commitUnderLock`; everything before the committed marker is undone by
`recoverLastGoodConfigGenerationInternal` and is no step. A restore that fails
leaves the change in `"backing"` until the next start.

`InboundEvent`: the rows by sequence number, the drain passes, and for each pass
and event the handler's next step. `StartDrain` is the one `recoverExpiredClaims`
of `drainAdmitted`, `ClaimDue` a `claimDue` transaction with the handlers of its
batch, `EndDrain` the end of the loop or of a rejected batch. A handler's steps are
the awaited calls of `processClaim` in their order: `Refuse`, then for a reply
`Pick`, `Mark`, `Answer` or `Stop`, then `Ingest`, `Record`, then by kind `Start`, `Execute`
(a command), `Guard`, `Decide`, `Decided`, `Suppress` (the bot loop), `Busy`,
`Free`, `Respond`, `Admit`, `Park`, `Reply`, `Enqueued`, `TurnFailed` (a turn), and
`Settle`. Each is fenced by the claim exactly where the code writes through
`transitionClaimed` or the bot-loop statements; the effects between (recording
the message, the command, the guard, the reply, the approval) are not. `Fail` is
the catch of `processClaimSafely`, `Quit` a handler that finds its claim lost.
Time is the two flags `expired` and `due` of a row: `Lapse` expires a claim that
no heartbeat renews, `Stall` one whose process was late. A claim token is the
pass that claimed, which is as fresh as the UUID because a pass does not claim an
event again while it still handles it. `turn`, `ingested`, `delivered` are what
the queue sees of the durable Chat turn, the ingest and the outbox, all
idempotent by the event's identity. `asked` and `asks` are the approvals of browser
errands, `active` the errand that runs for a conversation, `askedBy` which errand
asked for an approval, `answers` and `stops` who answered and who stopped what. Kind
`"reply"` is an exact APPROVE or DENY typed to an agent, kind `"stop"` an exact STOP:
the first resolves the marked approval, the second ends the errand that asked for
it, with whatever approval that errand waits for by then (`withdrawPending`). A near
miss, which at most earns a hint, is ordinary Chat or nothing. `Accept(e, awaited)`
lets the lookup of a waiting errand miss, which leaves a reply in its conversation's
lane.

`LaneQueue`: what the queue promises whoever sends to a conversation. An event is
absent, queued, taken or settled and belongs to a lane; `Offer` adds the next one,
`Take` takes first unsettled events of their lanes, `Release` gives taken events
back or settles them. `Stages` maps a row's status (`QueueState`), `LaneOf` its
conversation and whether it is in the control lane. The takeover of an expired
claim is a stutter: the event stays taken.

The `MC` modules add symmetry sets and nothing else, but for `MCInboundEvent`, which
lists the scenarios (which kind of event arrives in which conversation, and how many
faults may happen); it and `LinkedFinalization` are about liveness too and use no
symmetry. Definitions whose comment begins with
"Mutant" are wrong variants of the definition below them, used to test that the
properties can fail; no specification uses them.

## 4. Runs

| Run | Instance | Shows |
|---|---|---|
| `mesh_lease_serial` | 3 nodes, 1 key, TTL 2, clock to 6 | one gateway: no two live holders, takeovers only after expiry and with a larger token |
| `mesh_lease_shared` | 2 nodes, 2 calls | expected violation: see below |
| `durable_run_safety` | 2 processes, 2 executions, 1 operator call, lease 2, ceiling 3, budget 1 (Chat and other runs), 5 versions | single committer, version checks, row consistency, no live lease stolen, dead letters match, attempt ceiling, refinement of the status diagram |
| `durable_run_recovery` | 2 processes, 1 execution, 1 call, 4 versions, fairness | orphans are reclaimed, parked runs resume |
| `linked_finalization` | 2 processes, 2 failures, 2 faults, TTL 2, 2 tries, fairness | no unmarked clear, no live claim stolen, only the claimant clears, the finalization completes |
| `external_effect_strict` | 3 attempts, 2 payloads, lease 2, replay after 1, 6 tokens, clock to 4 | at most one dispatch, tables agree, recoverable means not sent, refinement of `OneEffect` |
| `external_effect_enforced` | 2 attempts, no transactions, deduplicating provider | one payload although calls repeat |
| `mesh_session_owner` | 3 nodes, 2 claims, 4 epochs | one owner per epoch, named takeovers |
| `mesh_join_rollback` | 2 nodes, 2 tokens, 2 joins, 2 changes, 2 crashes | registration and options survive rollbacks and crashes; a token is used again only after a rollback reopened it |
| `mesh_join_rollback_overwrites` | 1 change, rollbacks | expected violation: see below |
| `inbound_event` | 2 events in 5 scenarios over 2 conversations, the main and the control loop and the maintenance tick, 2 approvals, 2 attempts, 1 fault, fairness | lane order, truthful rows, commands once per claim, one bot-loop charge, answers to their own approval and stops of their own errand, settled is final, every event is settled, refinement of `LaneQueue` |
| `inbound_event_replay` | 1 command, 2 passes, 1 stall | expected violation: see below |

Why the bounds are enough. Every protocol here is about one row (or a pair of
rows that change together), so one run, one key, one session suffice; two
processes make every pairwise race, and a third attempt in
`external_effect_strict` allows a race between two successors of a crashed
attempt. `MaxVersion` 5 lets a run be claimed, lost, reclaimed and claimed again
under a waiting operator call, or exhaust its budget, be dead-lettered and
recovered; a budget of 1 is used up by two failures, and a larger one comes with a
recovery. Two operator calls that race over one run are within the proofs, which
hold for every set of calls. In `inbound_event` the scenarios are the ones in which
events meet: a turn whose errands ask twice (one errand twice, or two errands) and an
APPROVE, DENY or STOP; such a turn and a message of another conversation; and, with a
fault (a crash, a stall, an error, a foreign turn) at any step, a turn or a command
behind another message. A second conversation and a third pass are needed for
liveness: a main pass that handles the turn of an unanswered errand is kept for ever,
the control loop serves control lanes only, and it is the maintenance tick's own
`drain` (`gateway-service.ts:5438`) that serves the other conversation. All other
combinations (kinds `"approval"` and `"desk"`, faults during a reply, further
conversations, passes, events and faults) are within the proofs of the safety
properties. Clocks run past every lease that can be granted. The bounds
stop new claims, renewals and changes, never a step that completes or recovers
something; since a bounded model ends when they are reached, deadlock is not
checked, except in `mesh_session_owner`, which can always read. `MaxClock` and
`MaxVersion` are in guards, and the proofs hold for every value of them. Callers
without a transaction before a provider that does not deduplicate have no run of
their own: at-most-once dispatch is proved for them too (section 6).

The three violations.

- `mesh_lease_shared`. The compare-and-swap of `updateLeaseStmt` compares the fencing
  token and nothing else, and equal tokens do not mean an unchanged row. TLC prints
  the shortest case: n1 and n2 find no row; n1 inserts it with token 1, begins
  another acquire and reads its own row, then releases the lease, which deletes the
  row; n2 inserts, again with token 1; n1's update matches that token and overwrites
  n2's live lease under an equal token. A longer case needs no
  release: `renewLease`, and `acquireLease` by the holder, keep the token, so an
  acquire that read an expired row still matches after the holder has extended it.
  The comment at `packages/storage/src/mesh-repo.ts:165-167` says that a concurrent
  acquire or renew "cannot clobber the lease between the read and the write".
- `mesh_join_rollback_overwrites`. The rollback of a settings change restores
  the snapshotted token row unconditionally. A join that used the token in
  between is lost from the table and the token admits a second join. The comment
  at `mesh-repo.ts:348-353` promises to restore "without disturbing unrelated
  mesh activity". That nothing else reopens a token is `ReusedOnlyAfterRestore`.
- `inbound_event_replay`. `recoverExpiredClaims` sends an expired command that had
  started to manual reconciliation, but a pass calls it once and for at most
  `limit` rows, while `listDueSql` and `claimStmt` take an expired row of any
  claimed status. A command whose claim expires later in the pass (its process
  stalled beyond the lease) is claimed, and executed, again.
  `docs/OPENCLAW_HERMES_PARITY_PROGRAM.md:170` says that events "recover across the
  command side-effect boundary without duplicate execution", and
  `inbound-channel-event-service.test.ts:1532` that such a lease is terminalized
  "instead of replaying an ambiguous side effect". That this takeover is the only
  way is `CommandOncePerClaim`.

## 5. Fairness

Safety runs assume none. `durable_run_recovery` assumes that time passes; that
the statements of a worker loop's pass return (`WF` on `ReclaimWrite`,
`ExitedWrite`, `SweepWrite`); that a loop which is free again and again gets to
its reclaim and its sweep (`SF` on `ReclaimRead`, `SweepRead`: `drainQueuedRuns`
and the poll timer set by `ensurePollLoop` visit both on every iteration, but
other work may disable them in between); and that timers of an execution fire
(`WF` on `Begin`, `Heartbeat`, `ParkWaiting` for the kill switch). It assumes
nothing of handlers or operators. A process that crashed may stay down for ever,
but not every process may: `Survivor` keeps one, standing for the supervisor.

`linked_finalization` assumes that each process polls and that its
database calls return, that a finalizer which does not fail returns, and that
faults are finite (`MaxFaults`). With unboundedly many crashes the property is
false and nobody claims it.

`inbound_event` assumes that passes are started for ever (`requestDrain` after
every acceptance, retry and failure, and the maintenance tick of the gateway),
that a handler's awaited calls return, that claims lapse and retries fall due with
time, that a durable Chat turn without an errand settles, and that an errand which
waits for no approval ends (`WF` on `Works(p)` of each pass, `Wait`, `TurnStep`,
`EndErrand`). `Works(p)` is a step of the pass or a step of one of its handlers that
is no fault: nothing has to fail. A handler that waits for its turn keeps its pass
until the turn ends, also when its claim is lost (`Quit`), as the code does not look
at the claim before `respondToExistingChatMessage` returns. Nobody has to answer an
errand: `EventuallySettled` excuses the messages of a conversation whose errand
waits, but neither the message that answers it nor those of other conversations.
Faults are finite.

## 6. Proofs

All theorems hold for every value of the constants that satisfies the named
assumptions (`ConstantsAssumption` of `MeshLease`, `MeshSessionOwner`, `MeshJoin`
and `InboundEvent`, `DurableAssumption`,
`FinalizationAssumption`, `EffectAssumption`): positive time-outs, numeric
bounds, and the distinctness of "none" values.

`DurableRunProofs`. `RunInv` = `TypeOK`, `VersionNamesRow`, `ReadsDecided`,
`OwnersUnique`, `RowConsistent`, `DeadLetterMatches`, `AttemptCeiling`,
`OnlyChatWaits` (only a Chat run waits for its dead letter). The
version check protects an operator call only because equal versions mean equal
rows, for every row some caller holds (`VersionNamesRow`), and only because the
caller had decided on that row (`ReadsDecided`: a pending pause saw a pausable
status, and so on). `OwnersUnique` says that owner ids of executions in
progress differ and are not younger than the row; it gives `SingleCommitter`.
Every action is first shown to have one of a few effects on the row
(`RowEffect`), each an abstract step of `DurableLifecycle`, which gives the
refinement; then each conjunct is shown to survive each effect.

`LinkedFinalizationProofs`. `FinInv` = `TypeOK`, `ReadsFaithful`, `AllProgress`
and `ClearedMeansMarked`. `AllProgress` ties each stage of a finalization to
what is already true: a process at `"marked"` or `"clear"` works on an epoch
that is in `linked`, and a claim id is on the row only under the version it was
written with.

`ExternalSideEffectProofs`. `DispatchInv` = `TypeOK`, `LedgerExists`,
`TokensIssued`, and, when the provider does not deduplicate, `OneCrossing` (at
most one attempt is between boundary and settlement, and it is the only one
that could own the row), `CrossedIsMarked` (an effect that was or may be sent
has a mutation row that refuses every later claim) and `sends <= 1`. `AgreeInv`
adds, for strict callers, what their attempts look like and `LedgersAgree`;
`RecoveryInv` adds that the ledger is beyond the boundary once the effect
crossed, and that only the one attempt which proved it did not call may take
it back.

`OneEffectProofs`, on top of these. `OnePayload` is not inductive: whether a call
carries the row's payload depends on attempts that crossed earlier and on rows that
were dropped and claimed anew. `PayloadInv` says that the ledger lets only attempts
of its own payload execute (`LedgerPayload`), that an owner and every attempt at or
beyond the boundary have the row's payload (`OwnerPayload`, `CrossingPayload`), that
what may be reconciled has a ledger row of the same payload (`DispatchedLedger`),
and, as the heart of it, that the first owner of a row before the boundary knows
that nothing was sent and nobody is crossing (`FirstUnsent`): only that owner may
drop the row and free the key for another payload. The refinement needs two more
facts (`SentInv`): an attempt that waits for an answer made a call, and without
deduplication nobody is about to call once the key is completed. Each step of an
attempt is then shown to change the row in one of a few ways (`RowStep`), each an
abstract step or a stutter; `Send` is `Call`, `Reconcile` is `Confirm`. Both results
hold for strict callers and for those without a transaction, with and without a
deduplicating provider.

`MeshLeaseProofs`. `SerialInv` under `OneProcessOneTtl` (calls serialised, one
TTL): what a call saw is still in the table when it writes, a node with a live
record owns a row that lives at least as long, and no row outlives the TTL.
Without the first assumption the property is false (`mesh_lease_shared`); with
several TTLs a renewal may shorten a lease its holder still believes in. What
gateways on one database keep is the order of the tokens: `TokensNameHolders` and
`TokensGrow` need neither assumption, only that no row is deleted (`RowsKept`).
`FenceInv` says that every record read from the table, returned or in flight, is not
ahead of the row and agrees with it on the holder of the same token. The condition
is needed, with one gateway too: `releaseLease` deletes the row, the next
`acquireLease` inserts token 1, and a record that an earlier holder still keeps may
carry the same token.

`MeshSessionOwnerProofs`. `OwnerInv` = `TypeOK`, `ReadsFaithful`,
`OneOwnerPerEpoch`, `ClaimsDecided`: every record read from the table, returned
or still in flight, is a past or the present row and past rows have smaller
epochs, so the epoch that a write compares names the row its claim decided on.
The same invariant gives `EpochsForward`: whatever a node is told is the present
row, and no record is ahead of it.

`MeshJoinProofs`. `JoinOK` = `TypeOK`, `JoinInv`, `UseInv`. The two promises about
the running gateway are not inductive by themselves: `JoinInv` says for each phase
of a settings change what is in memory, in the rows and in the handle (`PhaseInv`),
that the rows of the previous options are present throughout, and that the
snapshot a rollback would write back does not take them away (`Spares`). `UseInv`
counts: a token's uses are the times it was reopened, plus one if it is used now.

`InboundEventProofs`. A first layer shows what each step does: a handler touches
its own event only (`Frame`), a fenced step finds the claim it needs (`FencedStep`),
an unfenced one leaves the rows alone (`UnfencedStep`), the queue's steps keep
settled rows. Each property then has an invariant of one event.
`LaneInv`: rows are accepted in sequence, and `LaneOrder`; with `ClaimCounted` (a
claimed row has been counted) it gives `LanesExclusive`, one claimed row per lane.
The refinement of `LaneQueue` needs types only: `Accept` is `Offer`, `ClaimDue` is
`Take`, and every other step changes claimed rows only, to a status that is not
absent, which is `Release` (`ReleaseStep`). `BotAt`: at most one
handler is about to charge the guard, and only before it was charged; whoever
passed the guard has the stored permission. `AnswerAt`: a handler about to answer
or stop has the marked approval, and only the owner of an unmarked row may mark.
`ErrandInv`: no approval was asked by an errand younger than itself; so a STOP,
which stops the errand of the marked approval, never ends one begun after it arrived,
although it may end a later approval of the same errand.
`CommandAt`: executions done plus handlers about to execute are covered by
takeovers plus the one crossing the row records. `DoneAt` and `ReplyAt`: what each
place of a handler implies about recorded messages, executed commands and enqueued
replies; for a reply, that a turn was launched means that no approval it could
have answered was pending and none can become so, since approvals asked later are
younger than the message (`PlainKept`).

Only model-checked: the liveness properties (`OrphanReclaimed`,
`SwitchedOffRunResumes`, `FinalizationCompletes`, `EventuallySettled`), since
fairness is out of the prover's reach. Only proved, and in no run: `SerialInv` and
the other inductive invariants, `OneClaimPerLane`, `EpochsForward`, the two results
on fencing tokens, and the refinement of `OneEffect` with a deduplicating provider or
callers without a transaction. Every safety property of a passing run is a
theorem; `TokenSingleUse`, `CommandOnce` and the shared instance of
`NoLiveLeaseClobbered` are false of the code (section 4).

## 7. What is not modelled

- Quarantine of queued `chat.turn.execute.v1` rows: no code of this release
  writes such a row.
- Chat post-commit effects, turn admissions, fan-out children, checkpoints and
  their pruning, timeline and realtime events, notifications: outside the state
  the present properties are about; the first two are planned.
- Durable runs: `updateRun` refuses `queued` and `running` while a governed
  remediation of the run is reserved (`durable-run-repo.ts:303-308`); for an operator
  call that is `LoseCall`, a worker's claim would find nothing to do. A dead-lettered
  Chat run that was recovered is treated like any other run, although the code refuses
  some of its later writes as conflicting with its terminal evidence. A Chat run's
  dead letter also waits for its post-commit effects and its admission hand-off; the
  model has it wait for the finalization only. One projection of a dead letter runs
  at a time: a second one that read the run before the first finished could write the
  letter again after it was resolved, since `upsertDeadLetter` is not fenced. A
  recovery pass may observe any leased run, not only one that was listed as expired
  before it was read; the write checks the lease either way. The orchestration
  service fails a paused run of its own (`orchestration-lifecycle-service.ts:1076`),
  a step that the status diagram does not have.
- Delays: the worker loop is serial, so a process that executes a run reclaims
  nothing meanwhile, and a reused process id makes an exited owner look alive until
  its lease expires. Both only postpone what `OrphanReclaimed` promises.
- Linked records are marked by a finalizer that may ignore its abort signal and
  write late; the model marks in one step.
- External side effects: callers that disable the claim lease, `commitCompleted`
  variants, callers without a transaction that still require claim ownership,
  stores without `markDispatched`, callbacks that dispatch before they mark the
  boundary, the manual reconciliation of approved runtime effects, audit-only
  intents. A provider's proof that nothing was dispatched is taken at its word.
  `Reconcile` is one step, although the code asks or calls the provider before it
  settles the two rows (`external-side-effect-reconciliation.ts:67-115`).
- Mesh: the content of node rows, the mTLS requirement (a condition on the
  request), readiness diagnostics, other processes that change mesh options on
  the same database, capability publication and invocation. `MeshJoin` lets a settings
  change begin only in a running gateway. That is so for the default start; with
  `GOATCITADEL_GATEWAY_SUPERVISED=1` (`plugins/storage.ts:90-101`) HTTP listens before
  the mesh is initialised (`gateway-service.ts:4324`), and `commitUnderLock` itself
  does not check.
- Configuration files: staging, mirrors, damaged files.
- Inbound events: voice transcription, activity signals, the delivery and wording
  of the reply to an errand answer, near-miss hints, the Telegram poll cursor, the
  repository's `release` and `attachLinkage` (no code of the gateway calls them).
  The Chat turn, the approval and the outbox are abstracted to what the queue sees;
  an approval counts as asked when its message has reached the conversation. The
  lookup of the waiting approval may miss when a message is accepted, but is exact
  when a handler asks again (`confirmDelivery` in `browser-errand-service.ts:140-156`
  would count a failed lookup as nothing pending). The search for the canonical turn
  and the admission of a new one are one step (in `gateway-service.ts:4934-4962` two
  claimants may both find none, and the second ends with a terminal error); the
  fencing and the withdrawal of `BrowserErrandService.stop` are one step; a reply is
  always typed to an agent, although one that arrives as `record_only` may answer an
  errand too (`inbound-channel-event-service.ts:588`); and an error of a waiting
  handler that has lost its claim comes after its turn.
- Approvals, scheduler, orchestration engine, remote workers, HTTP idempotency,
  mesh replication: stateful components that later modules of the plan are for.
- Policy resolution, memory ranking, SQL dialects and migrations, user
  interfaces: pure configuration logic, floating-point text ranking, I/O or
  presentation, with no interleaving of their own to check.
