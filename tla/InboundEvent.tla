----------------------------- MODULE InboundEvent -----------------------------
(****************************************************************************)
(* The durable queue of inbound channel events of one gateway process:      *)
(* InboundChannelEventRepository (rows, lanes, claims) and the drain passes *)
(* and handlers of InboundChannelEventService.  Several passes run at once  *)
(* (the main loop, the control loop, the maintenance tick); a pass recovers *)
(* expired claims once, then claims a batch of due events, handles each in  *)
(* a handler of its own and goes round until nothing is due.  A message that *)
(* answers the approval a browser errand waits for is queued apart from its  *)
(* conversation, because the turn that runs the errand is still in flight.   *)
(*                                                                          *)
(* Time is not a number: a row carries whether its claim has expired and    *)
(* whether its retry is due.  A claim token is the pass that claimed: a     *)
(* pass never claims an event again while its handler of it still runs.     *)
(* Accepting a duplicate returns the stored row and changes nothing.        *)
(****************************************************************************)
EXTENDS Naturals, FiniteSets

CONSTANTS MaxEvents,   \* bound on the events accepted; an event is its sequence
          Lanes,       \* lane keys; a lane is one Chat session
          Scenarios,   \* the kind and the lane of each event, and how many crashes,
                       \* errors, stalls and foreign turns may happen
          Passes,      \* drain passes that can be in flight
          ControlPasses, \* those of the control loop
          Limit,       \* batch limit of a pass
          MaxAsks,     \* bound on the approvals errands ask for
          MaxAttempts, \* MAX_ATTEMPTS
          MaxFaults,   \* bound on the faults of a scenario
          NoOwner      \* claim_token IS NULL

Events == 1..MaxEvents

Terminal == {"completed", "suppressed", "failed", "manual_reconciliation_required"}

Claimed == {"processing", "message_recorded", "command_execution_started",
            "turn_admitted", "waiting", "reply_enqueued"}

Status == Terminal \cup Claimed \cup {"absent", "accepted", "retry_wait"}

Commands == {"command", "approval"}   \* dispatchKind "command"

Replies == {"reply", "stop"}   \* APPROVE or DENY, and STOP, as a whole message

Kinds == Commands \cup Replies \cup {"record_only", "agent_turn", "desk"}

Steps == {"none", "open", "mark", "answer", "ingest", "record", "start", "execute", "guard", "decide",
          "allowed", "barred", "recover", "suppress", "busy", "respond",
          "admit", "await", "reply", "enqueued", "settle"}

(* awaited: an approval button or command, or an exact reply that arrived  *)
(* while an errand waited; asks: the approvals asked for until then; mark: *)
(* the approval this event answers (its errand-reply marker), 0 for none.  *)
Row == [status : Status, kind : Kinds, lane : Lanes, owner : Passes \cup {NoOwner},
        expired : BOOLEAN, due : BOOLEAN, attempts : 0..MaxAttempts,
        awaited : BOOLEAN, asks : 0..MaxAsks, mark : 0..MaxAsks,
        bot : {"unset", "evaluating", "allow", "suppress"}]

ASSUME ConstantsAssumption ==
    /\ MaxEvents \in Nat \ {0} /\ Limit \in Nat \ {0} /\ MaxAsks \in Nat
    /\ MaxAttempts \in Nat \ {0} /\ MaxFaults \in Nat
    /\ Scenarios \subseteq [event : [Events -> [kind : Kinds, lane : Lanes]],
                             faults : 0..MaxFaults]
    /\ ControlPasses \subseteq Passes /\ IsFiniteSet(Passes) /\ NoOwner \notin Passes

VARIABLES row,        \* inbound_channel_events by sequence
          pass,       \* the drain passes: idle, looping or rejected
          handler,    \* handler[p][e]: the next step of pass p's handler of e, and
                      \* the approval it is about to answer
          asked,      \* the approval the errand of a conversation waits for
          asks,       \* approvals asked for so far
          active,     \* the errand that runs for a conversation, named by the first
                      \* approval it asked for; 0 for none
          askedBy,    \* the errand that asked for an approval
          answers,    \* who answered what: <<event, approval>>
          stops,      \* who stopped what: <<event, errand>>
          turn,       \* the durable Chat turn with e's deterministic identity
          ingested,   \* the Chat messages recorded under an event's identity
          delivered,  \* the replies handed to the delivery outbox
          executed,   \* how often executeInboundCommand ran for an event
          charged,    \* how often the in-memory bot-loop guard was charged
          taken,      \* history: claims of a row whose command had started
          faults      \* faults that may still happen

errand == <<asked, asks, active, askedBy, answers, stops>>

vars == <<row, pass, handler, errand, turn, ingested, delivered, executed,
          charged, taken, faults>>

effects == <<errand, turn, ingested, delivered, executed, charged>>

Absent == "absent"

(* A handler's next step, which is about no approval. *)
Do(step) == [at |-> step, approval |-> 0]

Init ==
    /\ \E s \in Scenarios :
           /\ row = [e \in Events |->
                  [status |-> Absent, kind |-> s.event[e].kind, lane |-> s.event[e].lane,
                   owner |-> NoOwner, expired |-> FALSE, due |-> TRUE, attempts |-> 0,
                   awaited |-> FALSE, asks |-> 0, mark |-> 0, bot |-> "unset"]]
           /\ faults = s.faults
    /\ pass = [p \in Passes |-> "idle"]
    /\ handler = [p \in Passes |-> [e \in Events |-> Do("none")]]
    /\ asked = [l \in Lanes |-> 0] /\ asks = 0
    /\ active = [l \in Lanes |-> 0] /\ askedBy = [n \in 1..MaxAsks |-> 0]
    /\ answers = {} /\ stops = {}
    /\ turn = [e \in Events |-> "none"]
    /\ ingested = {} /\ delivered = {}
    /\ executed = [e \in Events |-> 0]
    /\ charged = [e \in Events |-> 0]
    /\ taken = [e \in Events |-> 0]

Fault == faults > 0 /\ faults' = faults - 1

IsTerminal(e) == row[e].status \in Terminal

(* Mutant: every event is queued in its conversation. *)
OneLane(r) == FALSE

(* resolveInboundLaneKey: the conversation's lane or its control lane.     *)
ControlLane(r) == r.awaited

(* An approval button or command, and a reply its errand waits for.        *)
Awaited(e) ==
    \/ row[e].kind = "approval"
    \/ row[e].kind \in Replies /\ asked[row[e].lane] # 0

(* Mutant: a redelivered event is queued again, by what is awaited now. *)
AcceptUpserts(e, awaited) ==
    /\ row[e].status \in {Absent, "accepted"}
    /\ \A d \in 1..(e - 1) : row[d].status # Absent
    /\ awaited = Awaited(e)
    /\ row' = [row EXCEPT ![e].status = "accepted", ![e].awaited = awaited, ![e].asks = asks]
    /\ UNCHANGED <<pass, handler, effects, taken, faults>>

(* acceptNormalized's INSERT takes the next sequence number.  awaitsAnswer *)
(* that fails or cannot read the delivery leaves a reply in its            *)
(* conversation's lane.                                                    *)
Accept(e, awaited) ==
    /\ row[e].status = Absent
    /\ \A d \in 1..(e - 1) : row[d].status # Absent
    /\ awaited => Awaited(e)
    /\ row[e].kind = "approval" => awaited
    /\ row' = [row EXCEPT ![e].status = "accepted", ![e].awaited = awaited, ![e].asks = asks]
    /\ UNCHANGED <<pass, handler, effects, taken, faults>>

-----------------------------------------------------------------------------
(* The drain pass.                                                         *)

Expired(e) == row[e].status \in Claimed /\ row[e].expired

(* ORDER BY sequence ASC LIMIT @limit *)
FirstOf(S) == {e \in S : Cardinality({d \in S : d < e}) < Limit}

(* Mutant: an expired command is retried like any other event. *)
RecoveredRetried(r) ==
    [r EXCEPT !.status = "retry_wait", !.owner = NoOwner, !.expired = FALSE, !.due = TRUE]

(* recoverExpiredStmt: a command that crossed its side-effect boundary is  *)
(* not retried.                                                            *)
Recovered(r) ==
    [r EXCEPT !.status = IF @ = "command_execution_started"
                         THEN "manual_reconciliation_required" ELSE "retry_wait",
              !.owner = NoOwner, !.expired = FALSE, !.due = TRUE]

(* drainAdmitted up to its loop: recoverExpiredClaims, one transaction,    *)
(* over every lane whatever lanes the pass serves.                         *)
StartDrain(p) ==
    /\ pass[p] = "idle"
    /\ pass' = [pass EXCEPT ![p] = "loops"]
    /\ LET lost == FirstOf({e \in Events : Expired(e)}) IN
       row' = [e \in Events |-> IF e \in lost THEN Recovered(row[e]) ELSE row[e]]
    /\ UNCHANGED <<handler, effects, taken, faults>>

SameLane(d, e) ==
    row[d].lane = row[e].lane /\ ControlLane(row[d]) = ControlLane(row[e])

(* Mutant: only a predecessor that is being handled holds its lane. *)
LaneClearOfClaims(e) ==
    \A d \in 1..(e - 1) : SameLane(d, e) => row[d].status \notin Claimed

(* No unsettled event of the lane with a smaller sequence.                 *)
LaneClear(e) ==
    \A d \in 1..(e - 1) : SameLane(d, e) => IsTerminal(d)

(* listDueSql, of all lanes or of the control lanes. *)
Due(e, p) ==
    /\ p \in ControlPasses => ControlLane(row[e])
    /\ \/ row[e].status \in {"accepted", "retry_wait"} /\ row[e].due
       \/ Expired(e)
    /\ LaneClear(e)

(* claimStmt.  attempts only meets attemptCount >= MAX_ATTEMPTS, so it     *)
(* stops there.                                                            *)
ClaimedBy(r, p) ==
    [r EXCEPT !.status = "processing", !.owner = p, !.expired = FALSE, !.due = TRUE,
              !.attempts = IF @ < MaxAttempts THEN @ + 1 ELSE @]

(* The pass waits for none of its handlers.                                *)
Settled(p) == \A e \in Events : handler[p][e].at = "none"

(* claimDue, one transaction, and the handlers of the batch.               *)
ClaimDue(p) ==
    /\ pass[p] = "loops" /\ Settled(p)
    /\ LET batch == FirstOf({e \in Events : Due(e, p)}) IN
       /\ batch # {}
       /\ row' = [e \in Events |-> IF e \in batch THEN ClaimedBy(row[e], p) ELSE row[e]]
       /\ handler' = [handler EXCEPT ![p] =
              [e \in Events |-> Do(IF e \in batch THEN "open" ELSE "none")]]
       /\ taken' = [e \in Events |->
              IF e \in batch /\ row[e].status = "command_execution_started"
              THEN taken[e] + 1 ELSE taken[e]]
    /\ UNCHANGED <<pass, effects, faults>>

(* Nothing is due.  A pass ends as well when a handler of its batch        *)
(* rejects; its other handlers run on, and this stays their pass until     *)
(* they end, while the loop goes on with another one.                      *)
EndDrain(p) ==
    /\ Settled(p)
    /\ \/ pass[p] = "loops" /\ \A e \in Events : ~Due(e, p)
       \/ pass[p] = "rejected"
    /\ pass' = [pass EXCEPT ![p] = "idle"]
    /\ UNCHANGED <<row, handler, effects, taken, faults>>

-----------------------------------------------------------------------------
(* The handler of a claimed event.                                         *)

(* Mutant: a write matches the event, not the claim. *)
HoldsByEvent(p, e) == ~row[e].expired

(* WHERE claim_token = @claimToken AND claim_expires_at > @now AND status  *)
(* IN (claimed statuses): what every claimed write demands.                *)
Holds(p, e) ==
    row[e].status \in Claimed /\ row[e].owner = p /\ ~row[e].expired

At(p, e, step) == handler[p][e].at = step

Goto(p, e, step) == handler' = [handler EXCEPT ![p][e] = Do(step)]

GotoAbout(p, e, step, n) ==
    handler' = [handler EXCEPT ![p][e] = [at |-> step, approval |-> n]]

StageOrder(s) ==
    CASE s = "processing" -> 0
      [] s = "message_recorded" -> 1
      [] s \in {"command_execution_started", "turn_admitted"} -> 2
      [] s = "waiting" -> 3
      [] OTHER -> 4

(* canTransitionClaimed: no stage is undone under one claim.               *)
CanTransitionClaimed(from, to) ==
    to \in Terminal \cup {"retry_wait"} \/ StageOrder(from) <= StageOrder(to)

(* transitionStmt: a retry or a terminal status releases the claim.        *)
Moved(r, status) ==
    IF status \in Terminal \cup {"retry_wait"}
    THEN [r EXCEPT !.status = status, !.owner = NoOwner, !.expired = FALSE,
                   !.due = (status # "retry_wait")]
    ELSE [r EXCEPT !.status = status]

(* transitionClaimed by a handler whose claim is current, then its next    *)
(* step.                                                                   *)
Transition(p, e, step, status, next) ==
    /\ At(p, e, step) /\ Holds(p, e)
    /\ CanTransitionClaimed(row[e].status, status)
    /\ row' = [row EXCEPT ![e] = Moved(@, status)]
    /\ Goto(p, e, next)

(* The connection was disabled, or the desk question's binding changed.    *)
Refuse(p, e) ==
    /\ Transition(p, e, "open", "suppressed", "none")
    /\ UNCHANGED <<pass, effects, taken, faults>>

(* pendingDeliveryFor: the approval the conversation's errand waits for,   *)
(* if it was asked for before the message arrived; else 0.                 *)
PendingFor(e) ==
    IF asked[row[e].lane] <= row[e].asks THEN asked[row[e].lane] ELSE 0

(* Mutant: a reply is marked although no approval waits. *)
PickUnchecked(p, e) ==
    /\ At(p, e, "open") /\ row[e].kind \in Replies
    /\ IF row[e].mark = 0
       THEN GotoAbout(p, e, "mark", PendingFor(e))
       ELSE GotoAbout(p, e, "answer", row[e].mark)
    /\ UNCHANGED <<row, pass, effects, taken, faults>>

(* answerErrandReply up to its first write.  A marked reply is retried on  *)
(* its own approval only; a reply in the control lane never becomes Chat;  *)
(* one of somebody who is not the owner is refused.                        *)
Pick(p, e) ==
    /\ At(p, e, "open") /\ row[e].kind \in Replies
    /\ \/ /\ row[e].mark # 0 /\ PendingFor(e) = row[e].mark
          /\ GotoAbout(p, e, "answer", row[e].mark) \/ Goto(p, e, "settle")
       \/ /\ row[e].mark # 0 /\ PendingFor(e) # row[e].mark
          /\ Goto(p, e, "settle")
       \/ /\ row[e].mark = 0 /\ PendingFor(e) # 0
          /\ GotoAbout(p, e, "mark", PendingFor(e)) \/ Goto(p, e, "settle")
       \/ /\ row[e].mark = 0 /\ PendingFor(e) = 0
          /\ Goto(p, e, IF ControlLane(row[e]) THEN "settle" ELSE "ingest")
    /\ UNCHANGED <<row, pass, effects, taken, faults>>

(* recordAnswer: the marker, before anything is resolved.                  *)
Mark(p, e) ==
    /\ At(p, e, "mark") /\ Holds(p, e)
    /\ CanTransitionClaimed(row[e].status, "message_recorded")
    /\ row' = [row EXCEPT ![e] =
           [Moved(@, "message_recorded") EXCEPT !.mark = handler[p][e].approval]]
    /\ GotoAbout(p, e, "answer", handler[p][e].approval)
    /\ UNCHANGED <<pass, effects, taken, faults>>

(* APPROVE and DENY: resolveApproval, which changes nothing of an approval *)
(* that is no longer pending.  No claim guards it.                         *)
Answer(p, e) ==
    /\ At(p, e, "answer") /\ row[e].kind = "reply" /\ Goto(p, e, "settle")
    /\ IF asked[row[e].lane] = handler[p][e].approval
       THEN /\ asked' = [asked EXCEPT ![row[e].lane] = 0]
            /\ answers' = answers \cup {<<e, handler[p][e].approval>>}
       ELSE UNCHANGED <<asked, answers>>
    /\ UNCHANGED <<row, pass, asks, active, askedBy, stops, turn, ingested, delivered,
                   executed, charged, taken, faults>>

(* Mutant: the errand that runs now is stopped, whichever that is. *)
StopRunning(p, e) ==
    /\ At(p, e, "answer") /\ row[e].kind = "stop" /\ Goto(p, e, "settle")
    /\ IF active[row[e].lane] # 0
       THEN /\ active' = [active EXCEPT ![row[e].lane] = 0]
            /\ asked' = [asked EXCEPT ![row[e].lane] = 0]
            /\ stops' = stops \cup {<<e, active[row[e].lane]>>}
       ELSE UNCHANGED <<active, asked, stops>>
    /\ UNCHANGED <<row, pass, asks, askedBy, answers, turn, ingested, delivered,
                   executed, charged, taken, faults>>

(* STOP: stopErrand of the errand whose approval was looked up, if that    *)
(* still runs.  It ends together with whatever approval it waits for now.  *)
Stop(p, e) ==
    /\ At(p, e, "answer") /\ row[e].kind = "stop" /\ Goto(p, e, "settle")
    /\ IF active[row[e].lane] # 0 /\ active[row[e].lane] = askedBy[handler[p][e].approval]
       THEN /\ active' = [active EXCEPT ![row[e].lane] = 0]
            /\ asked' = [asked EXCEPT ![row[e].lane] = 0]
            /\ stops' = stops \cup {<<e, active[row[e].lane]>>}
       ELSE UNCHANGED <<active, asked, stops>>
    /\ UNCHANGED <<row, pass, asks, askedBy, answers, turn, ingested, delivered,
                   executed, charged, taken, faults>>

(* ingestChannelMessage records the message under the event's identity;    *)
(* no claim guards it.                                                     *)
Ingest(p, e) ==
    /\ At(p, e, IF row[e].kind \in Replies THEN "ingest" ELSE "open")
    /\ Goto(p, e, "record")
    /\ ingested' = ingested \cup {e}
    /\ UNCHANGED <<row, pass, errand, turn, delivered, executed, charged,
                   taken, faults>>

Dispatch(kind) ==
    CASE kind = "record_only" -> "settle"
      [] kind \in Commands -> "start"
      [] kind \in Replies \cup {"agent_turn"} -> "guard"
      [] kind = "desk" -> "busy"

Record(p, e) ==
    /\ Transition(p, e, "record", "message_recorded", Dispatch(row[e].kind))
    /\ UNCHANGED <<pass, effects, taken, faults>>

Start(p, e) ==
    /\ Transition(p, e, "start", "command_execution_started", "execute")
    /\ UNCHANGED <<pass, effects, taken, faults>>

(* executeInboundCommand; nothing guards it after the transition before.   *)
Execute(p, e) ==
    /\ At(p, e, "execute") /\ Goto(p, e, "settle")
    /\ executed' = [executed EXCEPT ![e] = @ + 1]
    /\ UNCHANGED <<row, pass, errand, turn, ingested, delivered, charged, taken, faults>>

(* The last transition of a record, a command and an answered turn.        *)
Settle(p, e) ==
    /\ Transition(p, e, "settle", "completed", "none")
    /\ UNCHANGED <<pass, effects, taken, faults>>

(* Mutant: an evaluation left open is evaluated again. *)
GuardAgain(p, e) ==
    /\ At(p, e, "guard") /\ Holds(p, e)
    /\ row' = [row EXCEPT ![e].bot = IF @ = "unset" THEN "evaluating" ELSE @]
    /\ Goto(p, e, CASE row[e].bot \in {"unset", "evaluating"} -> "decide"
                    [] row[e].bot = "allow" -> "busy"
                    [] row[e].bot = "suppress" -> "suppress")
    /\ UNCHANGED <<pass, effects, taken, faults>>

(* beginBotLoopEvaluation, and what resolveBotLoopDecision does with a     *)
(* decision it finds.                                                      *)
Guard(p, e) ==
    /\ At(p, e, "guard") /\ Holds(p, e)
    /\ row' = [row EXCEPT ![e].bot = IF @ = "unset" THEN "evaluating" ELSE @]
    /\ Goto(p, e, CASE row[e].bot = "unset" -> "decide"
                    [] row[e].bot = "evaluating" -> "recover"
                    [] row[e].bot = "allow" -> "busy"
                    [] row[e].bot = "suppress" -> "suppress")
    /\ UNCHANGED <<pass, effects, taken, faults>>

(* decideBotLoop charges its in-memory bucket and answers.                 *)
Decide(p, e) ==
    /\ At(p, e, "decide")
    /\ \E verdict \in {"allowed", "barred"} : Goto(p, e, verdict)
    /\ charged' = [charged EXCEPT ![e] = @ + 1]
    /\ UNCHANGED <<row, pass, errand, turn, ingested, delivered, executed, taken, faults>>

(* completeBotLoopEvaluation: of a verdict, or the recovered "allow".      *)
Decided(p, e) ==
    /\ handler[p][e].at \in {"allowed", "barred", "recover"} /\ Holds(p, e)
    /\ row[e].bot = "evaluating"
    /\ row' = [row EXCEPT ![e].bot = IF At(p, e, "barred") THEN "suppress" ELSE "allow"]
    /\ Goto(p, e, IF At(p, e, "barred") THEN "suppress" ELSE "busy")
    /\ UNCHANGED <<pass, effects, taken, faults>>

Suppress(p, e) ==
    /\ Transition(p, e, "suppress", "suppressed", "none")
    /\ UNCHANGED <<pass, effects, taken, faults>>

(* hasRunningTurn of the lane's session; a turn waiting for an approval    *)
(* is active.                                                              *)
SessionActive(lane) ==
    \E d \in Events : row[d].lane = lane /\ turn[d] \in {"running", "waiting"}

(* The session has an active turn, of an event or (a fault) of somebody    *)
(* else: the event waits for its turn in the lane.                         *)
Busy(p, e) ==
    /\ Transition(p, e, "busy", "retry_wait", "none")
    /\ \/ SessionActive(row[e].lane) /\ UNCHANGED faults
       \/ Fault
    /\ UNCHANGED <<pass, effects, taken>>

Free(p, e) ==
    /\ At(p, e, "busy") /\ ~SessionActive(row[e].lane) /\ Goto(p, e, "respond")
    /\ UNCHANGED <<row, pass, effects, taken, faults>>

(* respondToExistingChatMessage: the canonical turn when there is one,     *)
(* else a new durable turn with the event's identity.  A canonical turn    *)
(* that is still running throws: that is Fail.                             *)
Respond(p, e) ==
    /\ At(p, e, "respond")
    /\ turn[e] \notin {"running", "failed"}
    /\ turn' = [turn EXCEPT ![e] = IF @ = "none" THEN "running" ELSE @]
    /\ Goto(p, e, "admit")
    /\ UNCHANGED <<row, pass, errand, ingested, delivered, executed, charged, taken,
                   faults>>

(* onDurableRunLaunched *)
Admit(p, e) ==
    /\ Transition(p, e, "admit", "turn_admitted", "await")
    /\ UNCHANGED <<pass, effects, taken, faults>>

(* The turn waits for an approval: the handler ends, its claim is left to  *)
(* expire.                                                                 *)
Park(p, e) ==
    /\ turn[e] = "waiting"
    /\ Transition(p, e, "await", "waiting", "none")
    /\ UNCHANGED <<pass, effects, taken, faults>>

(* Mutant: the row is settled although the reply was not enqueued. *)
ReplyAssumed(p, e) ==
    /\ At(p, e, "await") /\ turn[e] = "answered" /\ Goto(p, e, "enqueued")
    /\ UNCHANGED <<row, pass, effects, taken, faults>>

(* commsSend enqueues the answer under the event's delivery key.           *)
Reply(p, e) ==
    /\ At(p, e, "await") /\ turn[e] = "answered" /\ Goto(p, e, "enqueued")
    /\ delivered' = delivered \cup {e}
    /\ UNCHANGED <<row, pass, errand, turn, ingested, executed, charged, taken, faults>>

(* onDeliveryEnqueued *)
Enqueued(p, e) ==
    /\ Transition(p, e, "enqueued", "reply_enqueued", "settle")
    /\ UNCHANGED <<pass, effects, taken, faults>>

(* InboundChannelTurnTerminalError: the turn settled without an answer, or *)
(* (a fault) it failed before a durable run took it over.                  *)
TurnFailed(p, e) ==
    /\ \/ /\ turn[e] = "failed"
          /\ \E step \in {"respond", "await"} : Transition(p, e, step, "failed", "none")
          /\ UNCHANGED faults
       \/ /\ turn[e] = "none"
          /\ Transition(p, e, "respond", "failed", "none")
          /\ Fault
    /\ UNCHANGED <<pass, effects, taken>>

-----------------------------------------------------------------------------
(* What goes wrong.                                                        *)

(* processClaimSafely's catch while the claim is current: an error of an   *)
(* awaited call.  A delivery error may be ambiguous.                       *)
Outcome(p, e, ambiguous) ==
    IF row[e].status = "command_execution_started" \/ ambiguous
    THEN "manual_reconciliation_required"
    ELSE IF row[e].attempts >= MaxAttempts THEN "failed" ELSE "retry_wait"

(* An error is a fault, but for the one that says the canonical turn is    *)
(* still running.                                                          *)
Fail(p, e) ==
    /\ ~At(p, e, "none")
    /\ IF At(p, e, "respond") /\ turn[e] = "running" THEN UNCHANGED faults ELSE Fault
    /\ \E ambiguous \in {FALSE} \cup {At(p, e, "enqueued")} :
           Transition(p, e, handler[p][e].at, Outcome(p, e, ambiguous), "none")
    /\ UNCHANGED <<pass, effects, taken>>

(* A handler that lost its claim ends at its next claimed write, or before *)
(* at an assertCurrent once its heartbeat noticed; an error on the way     *)
(* whose settlement is refused rejects the whole batch.  Neither the step  *)
(* into the command nor the one into the guard checks the claim, and one   *)
(* that waits for its turn only does once that turn ended.                 *)
Quit(p, e) ==
    /\ handler[p][e].at \notin {"none", "execute", "decide"}
    /\ At(p, e, "await") => turn[e] # "running"
    /\ ~Holds(p, e)
    /\ Goto(p, e, "none")
    /\ \/ UNCHANGED pass
       \/ pass' = [pass EXCEPT ![p] = "rejected"]
    /\ UNCHANGED <<row, effects, taken, faults>>

(* The process stalls beyond a lease: the claim expires under its handler. *)
Stall(e) ==
    /\ row[e].status \in Claimed /\ ~row[e].expired
    /\ ~At(row[e].owner, e, "none")
    /\ Fault
    /\ row' = [row EXCEPT ![e].expired = TRUE]
    /\ UNCHANGED <<pass, handler, effects, taken>>

(* The process ends; its passes, its handlers and its errand are gone.     *)
Crash ==
    /\ Fault
    /\ \E p \in Passes : pass[p] # "idle"
    /\ pass' = [p \in Passes |-> "idle"]
    /\ handler' = [p \in Passes |-> [e \in Events |-> Do("none")]]
    /\ asked' = [l \in Lanes |-> 0] /\ active' = [l \in Lanes |-> 0]
    /\ UNCHANGED <<row, asks, askedBy, answers, stops, turn, ingested, delivered, executed,
                   charged, taken>>

-----------------------------------------------------------------------------
(* Time, and the durable Chat turns this queue launches.                   *)

(* Nobody renews the claim of a handler that is gone.                      *)
Lapse(e) ==
    /\ row[e].status \in Claimed /\ ~row[e].expired
    /\ At(row[e].owner, e, "none")
    /\ row' = [row EXCEPT ![e].expired = TRUE]
    /\ UNCHANGED <<pass, handler, effects, taken, faults>>

BecomeDue(e) ==
    /\ row[e].status = "retry_wait" /\ ~row[e].due
    /\ row' = [row EXCEPT ![e].due = TRUE]
    /\ UNCHANGED <<pass, handler, effects, taken, faults>>

(* A turn's errand, the one that runs or a new one, asks for an approval   *)
(* and tells the conversation.  One errand runs at a time.                 *)
Ask(e) ==
    LET l == row[e].lane
        id == IF active[l] = 0 THEN asks + 1 ELSE active[l] IN
    /\ turn[e] = "running" /\ asks < MaxAsks /\ asked[l] = 0
    /\ \A k \in Lanes \ {l} : active[k] = 0
    /\ asks' = asks + 1
    /\ asked' = [asked EXCEPT ![l] = asks + 1]
    /\ active' = [active EXCEPT ![l] = id]
    /\ askedBy' = [askedBy EXCEPT ![asks + 1] = id]
    /\ UNCHANGED <<row, pass, handler, answers, stops, turn, ingested, delivered, executed,
                   charged, taken, faults>>

(* The approval is decided in Mission Control, expires or is withdrawn.    *)
AnsweredElsewhere(l) ==
    /\ asked[l] # 0
    /\ asked' = [asked EXCEPT ![l] = 0]
    /\ UNCHANGED <<row, pass, handler, asks, active, askedBy, answers, stops, turn, ingested,
                   delivered, executed, charged, taken, faults>>

(* An errand that waits for nothing comes to its end.                      *)
EndErrand(l) ==
    /\ active[l] # 0 /\ asked[l] = 0
    /\ active' = [active EXCEPT ![l] = 0]
    /\ UNCHANGED <<row, pass, handler, asked, asks, askedBy, answers, stops, turn, ingested,
                   delivered, executed, charged, taken, faults>>

(* A turn without an errand is answered, fails, or parks once for an       *)
(* approval of its own, which is decided or expires.                       *)
TurnStep(e) ==
    /\ turn[e] \in {"running", "waiting"}
    /\ turn[e] = "running" => active[row[e].lane] = 0
    /\ \E t \in {"answered", "failed", "waiting"} \ {turn[e]} :
           turn' = [turn EXCEPT ![e] = t]
    /\ UNCHANGED <<row, pass, handler, errand, ingested, delivered, executed, charged,
                   taken, faults>>

-----------------------------------------------------------------------------
HandlerStep(p, e) ==
    \/ Refuse(p, e) \/ Pick(p, e) \/ Mark(p, e)
    \/ Answer(p, e) \/ Stop(p, e) \/ Ingest(p, e) \/ Record(p, e)
    \/ Start(p, e) \/ Execute(p, e) \/ Settle(p, e)
    \/ Guard(p, e) \/ Decide(p, e) \/ Decided(p, e) \/ Suppress(p, e)
    \/ Busy(p, e) \/ Free(p, e) \/ Respond(p, e) \/ Admit(p, e) \/ Park(p, e)
    \/ Reply(p, e) \/ Enqueued(p, e) \/ TurnFailed(p, e)
    \/ Fail(p, e) \/ Quit(p, e)

PassStep(p) == StartDrain(p) \/ ClaimDue(p) \/ EndDrain(p)

(* Time passes for a row. *)
Wait(e) == Lapse(e) \/ BecomeDue(e)

Next ==
    \/ \E e \in Events, awaited \in BOOLEAN : Accept(e, awaited)
    \/ \E e \in Events : Stall(e) \/ Wait(e) \/ Ask(e) \/ TurnStep(e)
    \/ \E l \in Lanes : AnsweredElsewhere(l) \/ EndErrand(l)
    \/ \E p \in Passes : PassStep(p)
    \/ \E p \in Passes, e \in Events : HandlerStep(p, e)
    \/ Crash

Spec == Init /\ [][Next]_vars

(* A pass goes on: it has no handler and takes a step of its own, or an    *)
(* awaited call of one of its handlers returns without a fault.            *)
Works(p) == PassStep(p) \/ \E e \in Events : HandlerStep(p, e) /\ faults' = faults

(* Both loops and the maintenance tick start passes for ever, a handler's  *)
(* awaited calls return, leases lapse and retries fall due with time, and  *)
(* durable Chat turns and errands that wait for nothing come to an end.    *)
(* Nobody has to answer an errand, and nothing has to fail.                *)
Fairness ==
    /\ \A p \in Passes : WF_vars(Works(p))
    /\ \A e \in Events : WF_vars(Wait(e)) /\ WF_vars(TurnStep(e))
    /\ WF_vars(\E l \in Lanes : EndErrand(l))

FairSpec == Spec /\ Fairness

-----------------------------------------------------------------------------
TypeOK ==
    /\ row \in [Events -> Row]
    /\ pass \in [Passes -> {"idle", "loops", "rejected"}]
    /\ handler \in [Passes -> [Events -> [at : Steps, approval : 0..MaxAsks]]]
    /\ asked \in [Lanes -> 0..MaxAsks] /\ asks \in 0..MaxAsks
    /\ active \in [Lanes -> 0..MaxAsks] /\ askedBy \in [1..MaxAsks -> 0..MaxAsks]
    /\ answers \in SUBSET (Events \X (1..MaxAsks))
    /\ stops \in SUBSET (Events \X (1..MaxAsks))
    /\ turn \in [Events -> {"none", "running", "waiting", "answered", "failed"}]
    /\ ingested \in SUBSET Events /\ delivered \in SUBSET Events
    /\ executed \in [Events -> Nat] /\ charged \in [Events -> Nat]
    /\ taken \in [Events -> Nat]
    /\ faults \in 0..MaxFaults

(* Lane order: an event that was ever claimed has only settled             *)
(* predecessors in its lane, whatever crashed or stalled since.            *)
LaneOrder ==
    \A d, e \in Events : d < e /\ SameLane(d, e) /\ row[e].attempts > 0 => IsTerminal(d)

(* What the row says happened, happened: a completed message is recorded   *)
(* or was a reply to an errand, a completed command ran, and whatever ran  *)
(* as a turn has its reply enqueued.                                       *)
CompletedMeansDone ==
    \A e \in Events : row[e].status = "completed" =>
        /\ e \in ingested \/ row[e].kind \in Replies
        /\ row[e].kind \in Commands => executed[e] > 0
        /\ row[e].kind \in {"agent_turn", "desk"} \/ turn[e] # "none" => e \in delivered

(* A command runs once, and once more for each time claimDue took over a   *)
(* row whose command had already started.                                  *)
CommandOncePerClaim ==
    \A e \in Events : executed[e] <= 1 + taken[e]

(* The side-effect boundary of a command is crossed at most once.          *)
CommandOnce == \A e \in Events : executed[e] <= 1

(* The bot-loop guard is charged at most once for an event, and a turn     *)
(* runs only when the stored decision allows it.                           *)
BotLoopDecided ==
    \A e \in Events :
        /\ charged[e] <= 1
        /\ row[e].kind # "desk" /\ turn[e] # "none" => row[e].bot = "allow"

(* A settled row never changes again: late writes of a handler that lost   *)
(* its claim are refused.                                                  *)
SettledIsFinal ==
    [][\A e \in Events : IsTerminal(e) => row'[e] = row[e]]_vars

(* A reply acts on the approval it was marked with before anything was     *)
(* resolved, hence on one approval however often it is retried, and never  *)
(* on one that was asked for after it arrived.  An APPROVE or DENY answers *)
(* that approval; a STOP ends the errand that asked for it, with whatever  *)
(* approval that waits for by then, and never an errand begun later.       *)
AnswersItsOwn ==
    /\ \A a \in answers :
           row[a[1]].kind = "reply" /\ row[a[1]].mark = a[2] /\ a[2] <= row[a[1]].asks
    /\ \A s \in stops :
           /\ row[s[1]].kind = "stop" /\ row[s[1]].mark \in 1..row[s[1]].asks
           /\ askedBy[row[s[1]].mark] = s[2] /\ s[2] <= row[s[1]].asks

(* Every accepted event is settled, unless the errand of its conversation  *)
(* waits for an answer.  An errand that nobody answers holds up no other   *)
(* conversation, although it keeps the pass that handles its turn for      *)
(* ever; and an awaited answer is settled even when nothing else ever ends *)
(* that wait: it does not queue behind the turn that it would release.     *)
EventuallySettled ==
    \A e \in Events : row[e].status = "accepted" ~>
        \/ IsTerminal(e)
        \/ ~row[e].awaited /\ asked[row[e].lane] # 0

(* What a sender sees of a row. *)
QueueState(r) ==
    IF r.status = Absent THEN "absent"
    ELSE IF r.status \in Terminal THEN "settled"
    ELSE IF r.status \in Claimed THEN "taken"
    ELSE "queued"

Stages == [e \in Events |-> QueueState(row[e])]

LaneOf == [e \in Events |-> <<row[e].lane, ControlLane(row[e])>>]

Queue == INSTANCE LaneQueue
    WITH LaneKeys <- Lanes \X BOOLEAN, state <- Stages, lane <- LaneOf

(* The rows, passes and handlers implement one ordered queue per lane:     *)
(* claims, expired claims, recoveries, retries and late writes only ever   *)
(* take the first unsettled event of a lane, give back or settle what was  *)
(* taken, and neither lose an event nor move it to another lane.           *)
ImplementsLaneQueue == Queue!Spec
=============================================================================
