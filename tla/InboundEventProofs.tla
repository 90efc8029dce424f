-------------------------- MODULE InboundEventProofs --------------------------
(****************************************************************************)
(* The inbound queue, for any number of events, lanes, passes, batch sizes, *)
(* faults and approvals.  A step of a handler touches its own event only,   *)
(* and the row of it only under a claim that is current (HandlerFrame);     *)
(* each property adds what the steps that matter to it do.                  *)
(****************************************************************************)
EXTENDS InboundEvent, FiniteSetTheorems, TLAPS

(* What every step of p's handler of e keeps. *)
Frame(p, e) ==
    /\ \A q \in Passes, d \in Events : q # p \/ d # e => handler'[q][d] = handler[q][d]
    /\ \A d \in Events : d # e => row'[d] = row[d]
    /\ row'[e].kind = row[e].kind /\ row'[e].lane = row[e].lane
    /\ row'[e].awaited = row[e].awaited /\ row'[e].asks = row[e].asks
    /\ row'[e].attempts = row[e].attempts
    /\ row'[e].owner \in {row[e].owner, NoOwner}
    /\ row'[e] # row[e] => Holds(p, e) /\ row'[e].status # Absent

(* The handler moved to a step, about an approval or about none. *)
Moves(p, e, step, n) ==
    /\ handler' \in [Passes -> [Events -> [at : Steps, approval : 0..MaxAsks]]]
    /\ handler'[p][e].at = step /\ handler'[p][e].approval = n
    /\ \A q \in Passes, d \in Events : q # p \/ d # e => handler'[q][d] = handler[q][d]

LEMMA AboutMoves ==
    ASSUME TypeOK, NEW p \in Passes, NEW e \in Events, NEW step \in Steps,
           NEW n \in 0..MaxAsks, GotoAbout(p, e, step, n)
    PROVE  Moves(p, e, step, n)
<1> DEFINE h == [at |-> step, approval |-> n]
<1>1. h \in [at : Steps, approval : 0..MaxAsks]
  OBVIOUS
<1>2. handler' = [handler EXCEPT ![p] = [handler[p] EXCEPT ![e] = h]]
  BY DEF GotoAbout
<1>3. handler' \in [Passes -> [Events -> [at : Steps, approval : 0..MaxAsks]]]
  BY <1>1, <1>2 DEF TypeOK
<1>4. /\ handler'[p][e] = h
      /\ \A q \in Passes, d \in Events : q # p \/ d # e => handler'[q][d] = handler[q][d]
  BY <1>2 DEF TypeOK
<1> QED BY <1>3, <1>4 DEF Moves

LEMMA GotoMoves ==
    ASSUME TypeOK, NEW p \in Passes, NEW e \in Events, NEW step \in Steps, Goto(p, e, step)
    PROVE  Moves(p, e, step, 0)
<1>1. GotoAbout(p, e, step, 0) /\ 0 \in 0..MaxAsks
  BY ConstantsAssumption DEF Goto, GotoAbout, Do
<1> QED BY <1>1, AboutMoves

(* transitionStmt writes a row of the table. *)
LEMMA MovedRow ==
    ASSUME NEW r \in Row, NEW status \in Status
    PROVE  /\ Moved(r, status) \in Row
           /\ Moved(r, status).status = status
           /\ Moved(r, status).kind = r.kind /\ Moved(r, status).lane = r.lane
           /\ Moved(r, status).awaited = r.awaited /\ Moved(r, status).asks = r.asks
           /\ Moved(r, status).attempts = r.attempts
           /\ Moved(r, status).mark = r.mark /\ Moved(r, status).bot = r.bot
           /\ Moved(r, status).owner \in {r.owner, NoOwner}
BY DEF Moved, Row

(* transitionClaimed. *)
LEMMA TransitionStep ==
    ASSUME TypeOK, NEW p \in Passes, NEW e \in Events, NEW step \in Steps, NEW next \in Steps,
           NEW status \in Status \ {Absent}, Transition(p, e, step, status, next)
    PROVE  /\ Frame(p, e) /\ row' \in [Events -> Row]
           /\ handler' \in [Passes -> [Events -> [at : Steps, approval : 0..MaxAsks]]]
           /\ handler[p][e].at = step /\ handler'[p][e].at = next
           /\ Holds(p, e) /\ CanTransitionClaimed(row[e].status, status)
           /\ row'[e].status = status
           /\ row'[e].mark = row[e].mark /\ row'[e].bot = row[e].bot
<1>1. Moves(p, e, next, 0)
  BY GotoMoves DEF Transition
<1>2. row' = [row EXCEPT ![e] = Moved(row[e], status)] /\ row[e] \in Row
  BY DEF Transition, TypeOK
<1>3. row' \in [Events -> Row] /\ row'[e] = Moved(row[e], status)
      /\ \A d \in Events : d # e => row'[d] = row[d]
  BY <1>2, MovedRow DEF TypeOK
<1>4. Holds(p, e) /\ handler[p][e].at = step /\ CanTransitionClaimed(row[e].status, status)
  BY DEF Transition, At
<1> QED BY <1>1, <1>2, <1>3, <1>4, MovedRow DEF Frame, Moves

LEMMA TransitionType ==
    ASSUME TypeOK, NEW p \in Passes, NEW e \in Events, NEW step \in Steps, NEW next \in Steps,
           NEW status \in Status \ {Absent}, Transition(p, e, step, status, next),
           UNCHANGED <<pass, effects, taken>>, faults' \in 0..MaxFaults
    PROVE  TypeOK' /\ Frame(p, e)
BY TransitionStep DEF TypeOK, effects, errand

LEMMA DispatchStep ==
    ASSUME NEW kind \in Kinds
    PROVE  /\ Dispatch(kind) \in {"settle", "start", "guard", "busy"}
           /\ Dispatch(kind) = "start" <=> kind \in Commands
           /\ Dispatch(kind) = "busy" <=> kind = "desk"
           /\ Dispatch(kind) = "guard" <=> kind \in Replies \cup {"agent_turn"}
           /\ Dispatch(kind) = "settle" <=> kind = "record_only"
BY DEF Dispatch, Kinds, Commands, Replies

LEMMA FailStep ==
    ASSUME TypeOK, NEW p \in Passes, NEW e \in Events, Fail(p, e)
    PROVE  /\ TypeOK' /\ Frame(p, e)
           /\ UNCHANGED <<pass, effects, taken>>
           /\ Holds(p, e) /\ handler[p][e].at # "none" /\ handler'[p][e].at = "none"
           /\ row'[e].status \in {"manual_reconciliation_required", "failed", "retry_wait"}
           /\ row[e].status = "command_execution_started" =>
                  row'[e].status = "manual_reconciliation_required"
           /\ row'[e].mark = row[e].mark /\ row'[e].bot = row[e].bot
<1> DEFINE s == handler[p][e].at
<1>1. s \in Steps /\ "none" \in Steps /\ s # "none"
  BY DEF Fail, TypeOK, At, Steps
<1>2. PICK ambiguous \in {FALSE} \cup {At(p, e, "enqueued")} :
          Transition(p, e, s, Outcome(p, e, ambiguous), "none")
  BY DEF Fail
<1> DEFINE o == Outcome(p, e, ambiguous)
<1>3. /\ o \in {"manual_reconciliation_required", "failed", "retry_wait"}
      /\ row[e].status = "command_execution_started" => o = "manual_reconciliation_required"
  BY DEF Outcome
<1>4. o \in Status \ {Absent}
  BY <1>3 DEF Status, Terminal, Claimed, Absent
<1>5. UNCHANGED <<pass, effects, taken>> /\ faults' \in 0..MaxFaults
  BY ConstantsAssumption DEF Fail, Fault, TypeOK
<1> HIDE DEF s, o
<1>6. TypeOK' /\ Frame(p, e)
  BY <1>1, <1>2, <1>4, <1>5, TransitionType DEF o
<1>7. /\ Holds(p, e) /\ handler'[p][e].at = "none" /\ row'[e].status = o
      /\ row'[e].mark = row[e].mark /\ row'[e].bot = row[e].bot
  BY <1>1, <1>2, <1>4, TransitionStep DEF o
<1> QED BY <1>1, <1>3, <1>5, <1>6, <1>7 DEF s

(* A step that leaves the rows alone and moves its handler. *)
LEMMA MoveOnly ==
    ASSUME TypeOK, NEW p \in Passes, NEW e \in Events, NEW step, NEW n, Moves(p, e, step, n),
           UNCHANGED row
    PROVE  /\ Frame(p, e)
           /\ row' \in [Events -> Row]
           /\ handler' \in [Passes -> [Events -> [at : Steps, approval : 0..MaxAsks]]]
BY DEF Frame, Moves, TypeOK

LEMMA PickStep ==
    ASSUME TypeOK, NEW p \in Passes, NEW e \in Events, Pick(p, e)
    PROVE  /\ TypeOK' /\ Frame(p, e) /\ UNCHANGED <<row, pass, effects, taken, faults>>
           /\ handler[p][e].at = "open" /\ row[e].kind \in Replies
           /\ \/ /\ handler'[p][e].at = "answer" /\ handler'[p][e].approval = row[e].mark
                 /\ row[e].mark # 0
              \/ /\ handler'[p][e].at = "mark" /\ handler'[p][e].approval = PendingFor(e)
                 /\ row[e].mark = 0 /\ PendingFor(e) # 0
              \/ /\ handler'[p][e].at = "settle"
                 /\ row[e].mark # 0 \/ PendingFor(e) # 0 \/ ControlLane(row[e])
              \/ /\ handler'[p][e].at = "ingest"
                 /\ row[e].mark = 0 /\ PendingFor(e) = 0 /\ ~ControlLane(row[e])
<1>1. {"answer", "mark", "settle", "ingest"} \subseteq Steps
  BY DEF Steps
<1>2. row[e].mark \in 0..MaxAsks /\ PendingFor(e) \in 0..MaxAsks /\ 0 \in 0..MaxAsks
  BY ConstantsAssumption DEF TypeOK, Row, PendingFor
<1>3. /\ \A s \in {"answer", "mark", "settle", "ingest"}, n \in 0..MaxAsks :
             GotoAbout(p, e, s, n) => Moves(p, e, s, n)
      /\ \A s \in {"answer", "mark", "settle", "ingest"} : Goto(p, e, s) => Moves(p, e, s, 0)
  BY <1>1, AboutMoves, GotoMoves
<1>4. UNCHANGED <<row, pass, effects, taken, faults>>
      /\ handler[p][e].at = "open" /\ row[e].kind \in Replies
  BY DEF Pick, At
<1>5. \/ Moves(p, e, "answer", row[e].mark) /\ row[e].mark # 0
      \/ Moves(p, e, "mark", PendingFor(e)) /\ row[e].mark = 0 /\ PendingFor(e) # 0
      \/ /\ Moves(p, e, "settle", 0)
         /\ row[e].mark # 0 \/ PendingFor(e) # 0 \/ ControlLane(row[e])
      \/ /\ Moves(p, e, "ingest", 0)
         /\ row[e].mark = 0 /\ PendingFor(e) = 0 /\ ~ControlLane(row[e])
  BY <1>2, <1>3 DEF Pick
<1>6. \E s, n : Moves(p, e, s, n)
  BY <1>5
<1>7. TypeOK' /\ Frame(p, e)
  BY <1>4, <1>6, MoveOnly DEF TypeOK, effects, errand
<1> QED BY <1>4, <1>5, <1>7 DEF Moves

LEMMA MarkStep ==
    ASSUME TypeOK, NEW p \in Passes, NEW e \in Events, Mark(p, e)
    PROVE  /\ TypeOK' /\ Frame(p, e) /\ UNCHANGED <<pass, effects, taken, faults>>
           /\ Holds(p, e) /\ handler[p][e].at = "mark"
           /\ row[e].status # "command_execution_started"
           /\ handler'[p][e].at = "answer"
           /\ handler'[p][e].approval = handler[p][e].approval
           /\ row'[e].mark = handler[p][e].approval
           /\ row'[e].status = "message_recorded" /\ row'[e].bot = row[e].bot
<1> DEFINE n == handler[p][e].approval
           m == Moved(row[e], "message_recorded")
           r == [m EXCEPT !.mark = n]
<1>1. "answer" \in Steps /\ "message_recorded" \in Status
  BY DEF Steps, Status, Claimed
<1>2. n \in 0..MaxAsks /\ row[e] \in Row
  BY DEF TypeOK
<1>3. Moves(p, e, "answer", n)
  BY <1>1, <1>2, AboutMoves DEF Mark
<1>4. m \in Row /\ m.status = "message_recorded" /\ m.kind = row[e].kind
      /\ m.lane = row[e].lane /\ m.awaited = row[e].awaited /\ m.asks = row[e].asks
      /\ m.attempts = row[e].attempts /\ m.bot = row[e].bot
      /\ m.owner \in {row[e].owner, NoOwner}
  BY <1>1, <1>2, MovedRow
<1>5. row' = [row EXCEPT ![e] = r]
  BY DEF Mark
<1> HIDE DEF m
<1>6. r \in Row /\ r.status = "message_recorded" /\ r.kind = row[e].kind
      /\ r.lane = row[e].lane /\ r.awaited = row[e].awaited /\ r.asks = row[e].asks
      /\ r.attempts = row[e].attempts /\ r.bot = row[e].bot
      /\ r.owner \in {row[e].owner, NoOwner} /\ r.mark = n
  BY <1>2, <1>4 DEF Row
<1> HIDE DEF r, n
<1>7. row' \in [Events -> Row] /\ row'[e] = r /\ \A d \in Events : d # e => row'[d] = row[d]
  BY <1>5, <1>6 DEF TypeOK
<1>8. UNCHANGED <<pass, effects, taken, faults>> /\ Holds(p, e) /\ handler[p][e].at = "mark"
      /\ row[e].status # "command_execution_started"
  BY DEF Mark, At, CanTransitionClaimed, StageOrder, Terminal
<1>9. Frame(p, e)
  BY <1>3, <1>6, <1>7, <1>8 DEF Frame, Moves, Absent
<1>10. TypeOK'
  BY <1>3, <1>7, <1>8 DEF TypeOK, effects, errand, Moves
<1> QED BY <1>3, <1>6, <1>7, <1>8, <1>9, <1>10 DEF Moves, n

(* The two writes of the bot-loop decision keep everything but bot. *)
LEMMA BotWrite ==
    ASSUME TypeOK, NEW p \in Passes, NEW e \in Events, NEW step, Moves(p, e, step, 0),
           NEW b \in {"unset", "evaluating", "allow", "suppress"}, Holds(p, e),
           row' = [row EXCEPT ![e].bot = b], UNCHANGED <<pass, effects, taken, faults>>
    PROVE  /\ TypeOK' /\ Frame(p, e)
           /\ row'[e].bot = b /\ row'[e].mark = row[e].mark
           /\ row'[e].status = row[e].status /\ row'[e].owner = row[e].owner
<1> DEFINE r == [row[e] EXCEPT !.bot = b]
<1>1. row' = [row EXCEPT ![e] = r] /\ row[e] \in Row
  BY DEF TypeOK
<1>2. r \in Row /\ r.status = row[e].status /\ r.kind = row[e].kind
      /\ r.lane = row[e].lane /\ r.awaited = row[e].awaited /\ r.asks = row[e].asks
      /\ r.attempts = row[e].attempts /\ r.bot = b /\ r.mark = row[e].mark
      /\ r.owner = row[e].owner
  BY <1>1 DEF Row
<1> HIDE DEF r
<1>3. row' \in [Events -> Row] /\ row'[e] = r /\ \A d \in Events : d # e => row'[d] = row[d]
  BY <1>1, <1>2 DEF TypeOK
<1>4. row[e].status # Absent
  BY DEF Holds, Claimed, Absent
<1>5. Frame(p, e)
  BY <1>2, <1>3, <1>4 DEF Frame, Moves
<1>6. TypeOK'
  BY <1>3 DEF TypeOK, effects, errand, Moves
<1> QED BY <1>2, <1>3, <1>5, <1>6

LEMMA GuardStep ==
    ASSUME TypeOK, NEW p \in Passes, NEW e \in Events, Guard(p, e)
    PROVE  /\ TypeOK' /\ Frame(p, e) /\ UNCHANGED <<pass, effects, taken, faults>>
           /\ Holds(p, e) /\ handler[p][e].at = "guard"
           /\ \/ handler'[p][e].at = "decide" /\ row[e].bot = "unset" /\ row'[e].bot = "evaluating"
              \/ handler'[p][e].at = "busy" /\ row[e].bot = "allow" /\ row'[e].bot = "allow"
              \/ handler'[p][e].at \in {"recover", "suppress"} /\ row'[e].bot = row[e].bot
           /\ row'[e].mark = row[e].mark
           /\ row'[e].status = row[e].status /\ row'[e].owner = row[e].owner
<1> DEFINE b == IF row[e].bot = "unset" THEN "evaluating" ELSE row[e].bot
           t == CASE row[e].bot = "unset" -> "decide"
                  [] row[e].bot = "evaluating" -> "recover"
                  [] row[e].bot = "allow" -> "busy"
                  [] row[e].bot = "suppress" -> "suppress"
<1>1. row[e].bot \in {"unset", "evaluating", "allow", "suppress"}
  BY DEF TypeOK, Row
<1>2. /\ b \in {"unset", "evaluating", "allow", "suppress"} /\ t \in Steps
      /\ \/ t = "decide" /\ row[e].bot = "unset" /\ b = "evaluating"
         \/ t = "busy" /\ row[e].bot = "allow" /\ b = "allow"
         \/ t \in {"recover", "suppress"} /\ b = row[e].bot
  BY <1>1 DEF Steps
<1>3. row' = [row EXCEPT ![e].bot = b] /\ Goto(p, e, t) /\ Holds(p, e)
      /\ handler[p][e].at = "guard" /\ UNCHANGED <<pass, effects, taken, faults>>
  BY DEF Guard, At, TypeOK
<1> HIDE DEF b, t
<1>4. Moves(p, e, t, 0)
  BY <1>2, <1>3, GotoMoves
<1>5. TypeOK' /\ Frame(p, e) /\ row'[e].bot = b /\ row'[e].mark = row[e].mark
      /\ row'[e].status = row[e].status /\ row'[e].owner = row[e].owner
  BY <1>2, <1>3, <1>4, BotWrite
<1> QED BY <1>2, <1>3, <1>4, <1>5 DEF Moves

LEMMA DecidedStep ==
    ASSUME TypeOK, NEW p \in Passes, NEW e \in Events, Decided(p, e)
    PROVE  /\ TypeOK' /\ Frame(p, e) /\ UNCHANGED <<pass, effects, taken, faults>>
           /\ Holds(p, e) /\ handler[p][e].at \in {"allowed", "barred", "recover"}
           /\ row[e].bot = "evaluating"
           /\ \/ handler'[p][e].at = "busy" /\ row'[e].bot = "allow"
              \/ handler'[p][e].at = "suppress" /\ row'[e].bot = "suppress"
           /\ row'[e].mark = row[e].mark
           /\ row'[e].status = row[e].status /\ row'[e].owner = row[e].owner
<1> DEFINE b == IF At(p, e, "barred") THEN "suppress" ELSE "allow"
           t == IF At(p, e, "barred") THEN "suppress" ELSE "busy"
<1>1. /\ b \in {"unset", "evaluating", "allow", "suppress"} /\ t \in Steps
      /\ \/ t = "busy" /\ b = "allow"
         \/ t = "suppress" /\ b = "suppress"
  BY DEF Steps
<1>2. row' = [row EXCEPT ![e].bot = b] /\ Goto(p, e, t) /\ Holds(p, e) /\ row[e].bot = "evaluating"
      /\ handler[p][e].at \in {"allowed", "barred", "recover"}
      /\ UNCHANGED <<pass, effects, taken, faults>>
  BY DEF Decided
<1> HIDE DEF b, t
<1>3. Moves(p, e, t, 0)
  BY <1>1, <1>2, GotoMoves
<1>4. TypeOK' /\ Frame(p, e) /\ row'[e].bot = b /\ row'[e].mark = row[e].mark
      /\ row'[e].status = row[e].status /\ row'[e].owner = row[e].owner
  BY <1>1, <1>2, <1>3, BotWrite
<1> QED BY <1>1, <1>2, <1>3, <1>4 DEF Moves

(* A handler at these steps is about an approval. *)
AboutSome ==
    \A p \in Passes, e \in Events :
        handler[p][e].at \in {"mark", "answer"} => handler[p][e].approval # 0

(* The steps that leave the rows alone. *)
LEMMA UnfencedStep ==
    ASSUME TypeOK, AboutSome, NEW p \in Passes, NEW e \in Events,
           \/ Answer(p, e) \/ Stop(p, e) \/ Ingest(p, e) \/ Execute(p, e) \/ Decide(p, e)
           \/ Free(p, e) \/ Respond(p, e) \/ Reply(p, e) \/ Quit(p, e)
    PROVE  /\ TypeOK' /\ Frame(p, e) /\ UNCHANGED row
           /\ Answer(p, e) \/ Stop(p, e) => handler'[p][e].at = "settle"
           /\ Ingest(p, e) => handler'[p][e].at = "record"
           /\ Execute(p, e) => handler'[p][e].at = "settle"
           /\ Decide(p, e) => handler'[p][e].at \in {"allowed", "barred"}
           /\ Free(p, e) => handler'[p][e].at = "respond"
           /\ Respond(p, e) => handler'[p][e].at = "admit"
           /\ Reply(p, e) => handler'[p][e].at = "enqueued"
           /\ Quit(p, e) => handler'[p][e].at = "none"
<1> DEFINE S == {"settle", "record", "allowed", "barred", "respond", "admit", "enqueued", "none"}
           Moved1(s) == /\ Frame(p, e) /\ row' \in [Events -> Row]
                        /\ handler' \in [Passes -> [Events -> [at : Steps, approval : 0..MaxAsks]]]
                        /\ handler'[p][e].at = s
<1>1. S \subseteq Steps
  BY DEF Steps
<1>2. ASSUME NEW s \in S, Goto(p, e, s), UNCHANGED row
      PROVE  Moved1(s)
  BY <1>1, <1>2, GotoMoves, MoveOnly DEF Moves
<1> HIDE DEF Moved1
<1>3. ASSUME Answer(p, e)
      PROVE  TypeOK' /\ Moved1("settle") /\ UNCHANGED row
  <2>1. Moved1("settle") /\ UNCHANGED row
    BY <1>2, <1>3 DEF Answer
  <2>2. handler[p][e].approval \in 1..MaxAsks /\ row[e].lane \in Lanes
    BY <1>3 DEF TypeOK, AboutSome, Answer, At, Row
  <2>3. asked' \in [Lanes -> 0..MaxAsks] /\ answers' \in SUBSET (Events \X (1..MaxAsks))
    <3>1. asked \in [Lanes -> 0..MaxAsks] /\ answers \in SUBSET (Events \X (1..MaxAsks))
      BY DEF TypeOK
    <3>2. \/ /\ asked' = [asked EXCEPT ![row[e].lane] = 0]
             /\ answers' = answers \cup {<<e, handler[p][e].approval>>}
          \/ UNCHANGED <<asked, answers>>
      BY <1>3 DEF Answer
    <3>3. [asked EXCEPT ![row[e].lane] = 0] \in [Lanes -> 0..MaxAsks]
      BY <2>2, <3>1, ConstantsAssumption
    <3>4. <<e, handler[p][e].approval>> \in Events \X (1..MaxAsks)
      BY <2>2
    <3> QED BY <3>1, <3>2, <3>3, <3>4
  <2> QED BY <1>3, <2>1, <2>3 DEF Answer, TypeOK, Moved1
<1>11. ASSUME Stop(p, e)
      PROVE  TypeOK' /\ Moved1("settle") /\ UNCHANGED row
  <2>1. Moved1("settle") /\ UNCHANGED row
    BY <1>2, <1>11 DEF Stop
  <2>2. row[e].lane \in Lanes /\ active[row[e].lane] \in 0..MaxAsks
    BY DEF TypeOK, Row
  <2>3. /\ active' \in [Lanes -> 0..MaxAsks] /\ asked' \in [Lanes -> 0..MaxAsks]
        /\ stops' \in SUBSET (Events \X (1..MaxAsks))
    <3> DEFINE n == active[row[e].lane]
    <3>1. /\ active \in [Lanes -> 0..MaxAsks] /\ asked \in [Lanes -> 0..MaxAsks]
          /\ stops \in SUBSET (Events \X (1..MaxAsks))
      BY DEF TypeOK
    <3>2. \/ /\ active' = [active EXCEPT ![row[e].lane] = 0]
             /\ asked' = [asked EXCEPT ![row[e].lane] = 0]
             /\ stops' = stops \cup {<<e, n>>} /\ n # 0
          \/ UNCHANGED <<active, asked, stops>>
      BY <1>11 DEF Stop
    <3>3. /\ [active EXCEPT ![row[e].lane] = 0] \in [Lanes -> 0..MaxAsks]
          /\ [asked EXCEPT ![row[e].lane] = 0] \in [Lanes -> 0..MaxAsks]
      BY <2>2, <3>1, ConstantsAssumption
    <3>4. n # 0 => <<e, n>> \in Events \X (1..MaxAsks)
      BY <2>2, ConstantsAssumption
    <3> HIDE DEF n
    <3> QED BY <3>1, <3>2, <3>3, <3>4
  <2> QED BY <1>11, <2>1, <2>3 DEF Stop, TypeOK, Moved1
<1>4. ASSUME Ingest(p, e)
      PROVE  TypeOK' /\ Moved1("record") /\ UNCHANGED row
  BY <1>2, <1>4 DEF Ingest, TypeOK, errand, Moved1
<1>5. ASSUME Execute(p, e)
      PROVE  TypeOK' /\ Moved1("settle") /\ UNCHANGED row
  BY <1>2, <1>5 DEF Execute, TypeOK, errand, Moved1
<1>6. ASSUME Decide(p, e)
      PROVE  TypeOK' /\ (Moved1("allowed") \/ Moved1("barred")) /\ UNCHANGED row
  <2>1. (Moved1("allowed") \/ Moved1("barred")) /\ UNCHANGED row
    BY <1>2, <1>6 DEF Decide
  <2>2. charged' \in [Events -> Nat]
    BY <1>6 DEF Decide, TypeOK
  <2> QED BY <1>6, <2>1, <2>2 DEF Decide, TypeOK, errand, Moved1
<1>7. ASSUME Free(p, e)
      PROVE  TypeOK' /\ Moved1("respond") /\ UNCHANGED row
  BY <1>2, <1>7 DEF Free, TypeOK, effects, errand, Moved1
<1>8. ASSUME Respond(p, e)
      PROVE  TypeOK' /\ Moved1("admit") /\ UNCHANGED row
  BY <1>2, <1>8 DEF Respond, TypeOK, errand, Moved1
<1>9. ASSUME Reply(p, e)
      PROVE  TypeOK' /\ Moved1("enqueued") /\ UNCHANGED row
  BY <1>2, <1>9 DEF Reply, TypeOK, errand, Moved1
<1>10. ASSUME Quit(p, e)
      PROVE  TypeOK' /\ Moved1("none") /\ UNCHANGED row
  BY <1>2, <1>10 DEF Quit, TypeOK, effects, errand, Moved1
<1> QED BY <1>3, <1>4, <1>5, <1>6, <1>7, <1>8, <1>9, <1>10, <1>11 DEF Moved1

(* The handler takes a claimed step from one place to another. *)
Claims(p, e, step, status, next) ==
    /\ Holds(p, e) /\ handler[p][e].at = step /\ handler'[p][e].at = next
    /\ row'[e].status = status

FencedAction(p, e) ==
    \/ Refuse(p, e) \/ Record(p, e) \/ Start(p, e) \/ Settle(p, e) \/ Suppress(p, e)
    \/ Busy(p, e) \/ Admit(p, e) \/ Park(p, e) \/ Enqueued(p, e) \/ TurnFailed(p, e)

LEMMA FencedStep ==
    ASSUME TypeOK, NEW p \in Passes, NEW e \in Events, FencedAction(p, e)
    PROVE  /\ TypeOK' /\ Frame(p, e) /\ UNCHANGED <<pass, effects, taken>>
           /\ row'[e].mark = row[e].mark /\ row'[e].bot = row[e].bot
           /\ Record(p, e) => /\ Claims(p, e, "record", "message_recorded", Dispatch(row[e].kind))
                              /\ row[e].status # "command_execution_started"
           /\ Refuse(p, e) => Claims(p, e, "open", "suppressed", "none")
           /\ Start(p, e) => Claims(p, e, "start", "command_execution_started", "execute")
           /\ Settle(p, e) => Claims(p, e, "settle", "completed", "none")
           /\ Suppress(p, e) => Claims(p, e, "suppress", "suppressed", "none")
           /\ Busy(p, e) => Claims(p, e, "busy", "retry_wait", "none")
           /\ Admit(p, e) => Claims(p, e, "admit", "turn_admitted", "await")
           /\ Park(p, e) => Claims(p, e, "await", "waiting", "none")
           /\ Enqueued(p, e) => Claims(p, e, "enqueued", "reply_enqueued", "settle")
           /\ TurnFailed(p, e) => \/ Claims(p, e, "respond", "failed", "none")
                                  \/ Claims(p, e, "await", "failed", "none")
<1> DEFINE Done(step, status, next) ==
        /\ TypeOK' /\ Frame(p, e) /\ Claims(p, e, step, status, next)
        /\ row'[e].mark = row[e].mark /\ row'[e].bot = row[e].bot
        /\ CanTransitionClaimed(row[e].status, status)
<1>1. UNCHANGED <<pass, effects, taken>> /\ faults' \in 0..MaxFaults
  BY ConstantsAssumption DEF FencedAction, Refuse, Record, Start, Settle, Suppress, Busy,
     Admit, Park, Enqueued, TurnFailed, Fault, TypeOK
<1>2. ASSUME NEW step \in Steps, NEW next \in Steps, NEW status \in Status \ {Absent},
             Transition(p, e, step, status, next)
      PROVE  Done(step, status, next)
  BY <1>1, <1>2, TransitionStep, TransitionType DEF Claims
<1> HIDE DEF Done
<1>3. ASSUME Record(p, e)
      PROVE  /\ Done("record", "message_recorded", Dispatch(row[e].kind))
             /\ row[e].status # "command_execution_started"
  <2>1. Dispatch(row[e].kind) \in Steps /\ "record" \in Steps
        /\ "message_recorded" \in Status \ {Absent}
    BY DispatchStep DEF TypeOK, Row, Steps, Status, Claimed, Absent
  <2>2. Transition(p, e, "record", "message_recorded", Dispatch(row[e].kind))
    BY <1>3 DEF Record
  <2>3. Done("record", "message_recorded", Dispatch(row[e].kind))
    BY <1>2, <2>1, <2>2
  <2> QED BY <2>3 DEF Done, CanTransitionClaimed, StageOrder, Terminal
<1>4. ASSUME Refuse(p, e)
      PROVE  Done("open", "suppressed", "none")
  BY <1>2, <1>4 DEF Refuse, Steps, Status, Terminal, Claimed, Absent
<1>5. ASSUME Start(p, e)
      PROVE  Done("start", "command_execution_started", "execute")
  BY <1>2, <1>5 DEF Start, Steps, Status, Terminal, Claimed, Absent
<1>6. ASSUME Settle(p, e)
      PROVE  Done("settle", "completed", "none")
  BY <1>2, <1>6 DEF Settle, Steps, Status, Terminal, Claimed, Absent
<1>7. ASSUME Suppress(p, e)
      PROVE  Done("suppress", "suppressed", "none")
  BY <1>2, <1>7 DEF Suppress, Steps, Status, Terminal, Claimed, Absent
<1>8. ASSUME Busy(p, e)
      PROVE  Done("busy", "retry_wait", "none")
  BY <1>2, <1>8 DEF Busy, Steps, Status, Terminal, Claimed, Absent
<1>9. ASSUME Admit(p, e)
      PROVE  Done("admit", "turn_admitted", "await")
  BY <1>2, <1>9 DEF Admit, Steps, Status, Terminal, Claimed, Absent
<1>10. ASSUME Park(p, e)
      PROVE  Done("await", "waiting", "none")
  BY <1>2, <1>10 DEF Park, Steps, Status, Terminal, Claimed, Absent
<1>11. ASSUME Enqueued(p, e)
      PROVE  Done("enqueued", "reply_enqueued", "settle")
  BY <1>2, <1>11 DEF Enqueued, Steps, Status, Terminal, Claimed, Absent
<1>12. ASSUME TurnFailed(p, e)
      PROVE  Done("respond", "failed", "none") \/ Done("await", "failed", "none")
  BY <1>2, <1>12 DEF TurnFailed, Steps, Status, Terminal, Claimed, Absent
<1> QED BY <1>1, <1>3, <1>4, <1>5, <1>6, <1>7, <1>8, <1>9, <1>10, <1>11, <1>12 DEF FencedAction, Done

(* A step of a handler touches its own event only, and its row only under  *)
(* a current claim; types are kept.                                        *)
LEMMA HandlerFrame ==
    ASSUME TypeOK, AboutSome, NEW p \in Passes, NEW e \in Events, HandlerStep(p, e)
    PROVE  TypeOK' /\ AboutSome' /\ Frame(p, e)
<1> DEFINE Good == /\ TypeOK' /\ Frame(p, e)
                   /\ handler'[p][e].at \in {"mark", "answer"} => handler'[p][e].approval # 0
<1>1. ASSUME FencedAction(p, e)
      PROVE  Good
  <2>1. Dispatch(row[e].kind) \in {"settle", "start", "guard", "busy"}
    BY DispatchStep DEF TypeOK, Row
  <2>2. TypeOK' /\ Frame(p, e)
    BY <1>1, FencedStep
  <2>3. handler'[p][e].at \notin {"mark", "answer"}
    BY <1>1, <2>1, FencedStep DEF FencedAction, Claims
  <2> QED BY <2>2, <2>3
<1>2. ASSUME Pick(p, e)
      PROVE  Good
  BY <1>2, PickStep
<1>3. ASSUME Mark(p, e)
      PROVE  Good
  BY <1>3, MarkStep DEF AboutSome
<1>4. ASSUME Guard(p, e)
      PROVE  Good
  BY <1>4, GuardStep
<1>5. ASSUME Decided(p, e)
      PROVE  Good
  BY <1>5, DecidedStep
<1>6. ASSUME Fail(p, e)
      PROVE  Good
  BY <1>6, FailStep
<1>7. ASSUME \/ Answer(p, e) \/ Stop(p, e) \/ Ingest(p, e) \/ Execute(p, e) \/ Decide(p, e)
             \/ Free(p, e) \/ Respond(p, e) \/ Reply(p, e) \/ Quit(p, e)
      PROVE  Good
  BY <1>7, UnfencedStep
<1>8. Good
  BY <1>1, <1>2, <1>3, <1>4, <1>5, <1>6, <1>7 DEF HandlerStep, FencedAction
<1>9. AboutSome'
  BY <1>8 DEF AboutSome, Frame
<1> QED BY <1>8, <1>9

-----------------------------------------------------------------------------
(* The steps of the queue.                                                 *)

(* What no step of the queue but acceptance changes in a row. *)
Keeps(d) ==
    /\ row'[d].kind = row[d].kind /\ row'[d].lane = row[d].lane
    /\ row'[d].awaited = row[d].awaited /\ row'[d].asks = row[d].asks
    /\ row'[d].mark = row[d].mark /\ row'[d].bot = row[d].bot

LEMMA AcceptStep ==
    ASSUME TypeOK, NEW e \in Events, NEW awaited \in BOOLEAN, Accept(e, awaited)
    PROVE  /\ TypeOK' /\ UNCHANGED <<handler, effects, taken>>
           /\ row[e].status = Absent /\ row'[e].status = "accepted"
           /\ \A d \in 1..(e - 1) : row[d].status # Absent
           /\ row'[e].kind = row[e].kind /\ row'[e].attempts = row[e].attempts
           /\ row'[e].owner = row[e].owner /\ row'[e].mark = row[e].mark
           /\ row'[e].bot = row[e].bot /\ row'[e].lane = row[e].lane
           /\ \A d \in Events : d # e => row'[d] = row[d]
<1> DEFINE r == [row[e] EXCEPT !.status = "accepted", !.awaited = awaited, !.asks = asks]
<1>1. row[e] \in Row /\ asks \in 0..MaxAsks /\ "accepted" \in Status
  BY DEF TypeOK, Status
<1>2. /\ r \in Row /\ r.status = "accepted" /\ r.kind = row[e].kind /\ r.attempts = row[e].attempts
      /\ r.owner = row[e].owner /\ r.mark = row[e].mark /\ r.bot = row[e].bot
      /\ r.lane = row[e].lane
  BY <1>1 DEF Row
<1>3. row' = [row EXCEPT ![e] = r] /\ UNCHANGED <<pass, handler, effects, taken>>
      /\ row[e].status = Absent /\ \A d \in 1..(e - 1) : row[d].status # Absent
  BY <1>1 DEF Accept, TypeOK
<1>4. faults' \in 0..MaxFaults
  BY ConstantsAssumption DEF Accept, TypeOK
<1> HIDE DEF r
<1>5. row' \in [Events -> Row] /\ row'[e] = r /\ \A d \in Events : d # e => row'[d] = row[d]
  BY <1>2, <1>3 DEF TypeOK
<1>6. TypeOK'
  BY <1>3, <1>4, <1>5 DEF TypeOK, effects, errand
<1> QED BY <1>2, <1>3, <1>5, <1>6

LEMMA RecoveredRow ==
    ASSUME NEW r \in Row
    PROVE  /\ Recovered(r) \in Row /\ Recovered(r).owner = NoOwner
           /\ Recovered(r).status = IF r.status = "command_execution_started"
                                    THEN "manual_reconciliation_required" ELSE "retry_wait"
           /\ Recovered(r).kind = r.kind /\ Recovered(r).lane = r.lane
           /\ Recovered(r).awaited = r.awaited /\ Recovered(r).asks = r.asks
           /\ Recovered(r).mark = r.mark /\ Recovered(r).bot = r.bot
           /\ Recovered(r).attempts = r.attempts
BY DEF Recovered, Row, Status, Terminal

(* recoverExpiredClaims. *)
LEMMA StartDrainStep ==
    ASSUME TypeOK, NEW p \in Passes, StartDrain(p)
    PROVE  /\ TypeOK' /\ UNCHANGED <<handler, effects, taken>>
           /\ \A d \in Events :
                 /\ Keeps(d) /\ row'[d].attempts = row[d].attempts
                 /\ \/ row'[d] = row[d]
                    \/ /\ Expired(d) /\ row'[d].owner = NoOwner
                       /\ row'[d].status = IF row[d].status = "command_execution_started"
                                           THEN "manual_reconciliation_required" ELSE "retry_wait"
<1> DEFINE lost == FirstOf({e \in Events : Expired(e)})
<1>1. /\ row' = [e \in Events |-> IF e \in lost THEN Recovered(row[e]) ELSE row[e]]
      /\ pass' = [pass EXCEPT ![p] = "loops"] /\ UNCHANGED <<handler, effects, taken, faults>>
  BY DEF StartDrain
<1>2. \A e \in lost : Expired(e)
  BY DEF FirstOf
<1> HIDE DEF lost
<1>3. \A d \in Events : row[d] \in Row
  BY DEF TypeOK
<1>4. row' \in [Events -> Row]
  BY <1>1, <1>3, RecoveredRow
<1>5. TypeOK'
  BY <1>1, <1>4 DEF TypeOK, effects, errand
<1>6. ASSUME NEW d \in Events
      PROVE  /\ Keeps(d) /\ row'[d].attempts = row[d].attempts
             /\ \/ row'[d] = row[d]
                \/ /\ Expired(d) /\ row'[d].owner = NoOwner
                   /\ row'[d].status = IF row[d].status = "command_execution_started"
                                       THEN "manual_reconciliation_required" ELSE "retry_wait"
  <2>1. CASE d \in lost
    BY <1>1, <1>2, <1>3, <2>1, RecoveredRow DEF Keeps
  <2>2. CASE d \notin lost
    BY <1>1, <2>2 DEF Keeps
  <2> QED BY <2>1, <2>2
<1> QED BY <1>1, <1>5, <1>6

LEMMA ClaimedRow ==
    ASSUME NEW r \in Row, NEW p \in Passes
    PROVE  /\ ClaimedBy(r, p) \in Row /\ ClaimedBy(r, p).owner = p
           /\ ClaimedBy(r, p).status = "processing" /\ ClaimedBy(r, p).attempts > 0
           /\ ClaimedBy(r, p).kind = r.kind /\ ClaimedBy(r, p).lane = r.lane
           /\ ClaimedBy(r, p).awaited = r.awaited /\ ClaimedBy(r, p).asks = r.asks
           /\ ClaimedBy(r, p).mark = r.mark /\ ClaimedBy(r, p).bot = r.bot
<1> DEFINE a == IF r.attempts < MaxAttempts THEN r.attempts + 1 ELSE r.attempts
<1>1. a \in 0..MaxAttempts /\ a > 0
  BY ConstantsAssumption DEF Row
<1>2. ClaimedBy(r, p) = [r EXCEPT !.status = "processing", !.owner = p, !.expired = FALSE,
                                  !.due = TRUE, !.attempts = a]
  BY DEF ClaimedBy, Row
<1> HIDE DEF a
<1> QED BY <1>1, <1>2 DEF Row, Status, Claimed

(* claimDue. *)
LEMMA ClaimDueStep ==
    ASSUME TypeOK, NEW p \in Passes, ClaimDue(p)
    PROVE  /\ TypeOK' /\ UNCHANGED effects
           /\ \A d \in Events : handler[p][d].at = "none"
           /\ \A q \in Passes, d \in Events : q # p => handler'[q][d] = handler[q][d]
           /\ \A d \in Events :
                 /\ Keeps(d)
                 /\ \/ /\ row'[d] = row[d] /\ taken'[d] = taken[d]
                       /\ handler'[p][d].at = "none"
                    \/ /\ Due(d, p) /\ handler'[p][d].at = "open"
                       /\ row'[d].status = "processing" /\ row'[d].owner = p
                       /\ row'[d].attempts > 0
                       /\ taken'[d] = IF row[d].status = "command_execution_started"
                                      THEN taken[d] + 1 ELSE taken[d]
<1> DEFINE batch == FirstOf({e \in Events : Due(e, p)})
           h == [e \in Events |-> Do(IF e \in batch THEN "open" ELSE "none")]
<1>1. /\ row' = [e \in Events |-> IF e \in batch THEN ClaimedBy(row[e], p) ELSE row[e]]
      /\ handler' = [handler EXCEPT ![p] = h]
      /\ taken' = [e \in Events |-> IF e \in batch /\ row[e].status = "command_execution_started"
                                    THEN taken[e] + 1 ELSE taken[e]]
      /\ UNCHANGED <<pass, effects, faults>> /\ Settled(p)
  BY DEF ClaimDue
<1>2. \A e \in batch : Due(e, p)
  BY DEF FirstOf
<1> HIDE DEF batch
<1>3. \A d \in Events : row[d] \in Row /\ h[d].at = IF d \in batch THEN "open" ELSE "none"
  BY DEF TypeOK, Do
<1>4. h \in [Events -> [at : Steps, approval : 0..MaxAsks]]
  BY ConstantsAssumption DEF Do, Steps
<1> HIDE DEF h
<1>5. row' \in [Events -> Row] /\ taken' \in [Events -> Nat]
  BY <1>1, <1>3, ClaimedRow DEF TypeOK
<1>6. /\ handler' \in [Passes -> [Events -> [at : Steps, approval : 0..MaxAsks]]]
      /\ handler'[p] = h /\ \A q \in Passes : q # p => handler'[q] = handler[q]
  BY <1>1, <1>4 DEF TypeOK
<1>7. TypeOK'
  BY <1>1, <1>5, <1>6 DEF TypeOK, effects, errand
<1>8. ASSUME NEW d \in Events
      PROVE  /\ Keeps(d)
             /\ \/ /\ row'[d] = row[d] /\ taken'[d] = taken[d]
                   /\ handler'[p][d].at = "none"
                \/ /\ Due(d, p) /\ handler'[p][d].at = "open"
                   /\ row'[d].status = "processing" /\ row'[d].owner = p
                   /\ row'[d].attempts > 0
                   /\ taken'[d] = IF row[d].status = "command_execution_started"
                                  THEN taken[d] + 1 ELSE taken[d]
  <2>1. CASE d \in batch
    BY <1>1, <1>2, <1>3, <1>6, <2>1, ClaimedRow DEF Keeps
  <2>2. CASE d \notin batch
    BY <1>1, <1>3, <1>6, <2>2 DEF Keeps
  <2> QED BY <2>1, <2>2
<1> QED BY <1>1, <1>6, <1>7, <1>8 DEF Settled

(* Time for a row, and a stall: only its flags change. *)
LEMMA ClockStep ==
    ASSUME TypeOK, NEW e \in Events, Stall(e) \/ Lapse(e) \/ BecomeDue(e)
    PROVE  /\ TypeOK' /\ UNCHANGED <<handler, effects, taken>>
           /\ row[e].status \in Claimed \cup {"retry_wait"}
           /\ \A d \in Events : d # e => row'[d] = row[d]
           /\ Keeps(e) /\ row'[e].attempts = row[e].attempts
           /\ row'[e].status = row[e].status /\ row'[e].owner = row[e].owner
<1> DEFINE x == [row[e] EXCEPT !.expired = TRUE]
           y == [row[e] EXCEPT !.due = TRUE]
<1>1. row[e] \in Row
  BY DEF TypeOK
<1>2. ASSUME NEW r \in {x, y}
      PROVE  /\ r \in Row /\ r.kind = row[e].kind /\ r.lane = row[e].lane
             /\ r.awaited = row[e].awaited /\ r.asks = row[e].asks /\ r.mark = row[e].mark
             /\ r.bot = row[e].bot /\ r.attempts = row[e].attempts
             /\ r.status = row[e].status /\ r.owner = row[e].owner
  <2>1. CASE r = x
    BY <1>1, <2>1 DEF Row
  <2>2. CASE r = y
    BY <1>1, <2>2 DEF Row
  <2> QED BY <2>1, <2>2
<1>3. /\ row' = [row EXCEPT ![e] = x] \/ row' = [row EXCEPT ![e] = y]
      /\ UNCHANGED <<pass, handler, effects, taken>>
      /\ row[e].status \in Claimed \cup {"retry_wait"}
  BY DEF Stall, Lapse, BecomeDue, TypeOK
<1>4. faults' \in 0..MaxFaults
  BY ConstantsAssumption DEF Stall, Fault, Lapse, BecomeDue, TypeOK
<1> HIDE DEF x, y
<1>5. PICK r \in {x, y} : row' = [row EXCEPT ![e] = r]
  BY <1>3
<1>6. row' \in [Events -> Row] /\ row'[e] = r /\ \A d \in Events : d # e => row'[d] = row[d]
  BY <1>2, <1>5 DEF TypeOK
<1>7. TypeOK'
  BY <1>3, <1>4, <1>6 DEF TypeOK, effects, errand
<1> QED BY <1>2, <1>3, <1>6, <1>7 DEF Keeps

(* A pass that ends, and what happens in the conversation. *)
Outside ==
    \/ \E p \in Passes : EndDrain(p)
    \/ \E e \in Events : Ask(e) \/ TurnStep(e)
    \/ \E l \in Lanes : AnsweredElsewhere(l) \/ EndErrand(l)

LEMMA OutsideStep ==
    ASSUME TypeOK, Outside
    PROVE  /\ TypeOK'
           /\ UNCHANGED <<row, handler, answers, stops, ingested, delivered, executed, charged, taken>>
           /\ \A e \in Events : turn[e] = "none" => turn'[e] = "none"
<1>1. CASE \E p \in Passes : EndDrain(p)
  BY <1>1 DEF EndDrain, TypeOK, effects, errand
<1>2. ASSUME NEW e \in Events, Ask(e)
      PROVE  /\ TypeOK' /\ UNCHANGED <<row, handler, answers, stops, turn, ingested, delivered,
                                       executed, charged, taken>>
  <2> DEFINE id == IF active[row[e].lane] = 0 THEN asks + 1 ELSE active[row[e].lane]
  <2>1. row[e].lane \in Lanes /\ asks + 1 \in 1..MaxAsks /\ id \in 0..MaxAsks
    BY <1>2, ConstantsAssumption DEF Ask, TypeOK, Row
  <2>2. /\ asked' = [asked EXCEPT ![row[e].lane] = asks + 1] /\ asks' = asks + 1
        /\ active' = [active EXCEPT ![row[e].lane] = id]
        /\ askedBy' = [askedBy EXCEPT ![asks + 1] = id]
        /\ UNCHANGED <<row, pass, handler, answers, stops, turn, ingested, delivered,
                       executed, charged, taken, faults>>
    BY <1>2 DEF Ask
  <2> HIDE DEF id
  <2>3. /\ asked' \in [Lanes -> 0..MaxAsks] /\ asks' \in 0..MaxAsks
        /\ active' \in [Lanes -> 0..MaxAsks] /\ askedBy' \in [1..MaxAsks -> 0..MaxAsks]
    <3>1. /\ asked \in [Lanes -> 0..MaxAsks] /\ active \in [Lanes -> 0..MaxAsks]
          /\ askedBy \in [1..MaxAsks -> 0..MaxAsks] /\ asks + 1 \in 0..MaxAsks
      BY <2>1, ConstantsAssumption DEF TypeOK
    <3> QED BY <2>1, <2>2, <3>1
  <2> QED BY <2>2, <2>3 DEF TypeOK
<1>3. ASSUME NEW e \in Events, TurnStep(e)
      PROVE  /\ TypeOK' /\ UNCHANGED <<row, handler, answers, stops, ingested, delivered,
                                       executed, charged, taken>>
             /\ \A d \in Events : turn[d] = "none" => turn'[d] = "none"
  <2>1. PICK t \in {"answered", "failed", "waiting"} : turn' = [turn EXCEPT ![e] = t]
    BY <1>3 DEF TurnStep
  <2>2. /\ turn[e] # "none"
        /\ UNCHANGED <<row, pass, handler, errand, ingested, delivered, executed, charged,
                       taken, faults>>
    BY <1>3 DEF TurnStep
  <2>3. /\ turn' \in [Events -> {"none", "running", "waiting", "answered", "failed"}]
        /\ \A d \in Events : turn[d] = "none" => turn'[d] = "none"
    BY <2>1, <2>2 DEF TypeOK
  <2> QED BY <2>2, <2>3 DEF TypeOK, errand
<1>4. ASSUME NEW l \in Lanes, AnsweredElsewhere(l)
      PROVE  /\ TypeOK' /\ UNCHANGED <<row, handler, answers, stops, turn, ingested, delivered,
                                       executed, charged, taken>>
  BY <1>4, ConstantsAssumption DEF AnsweredElsewhere, TypeOK
<1>5. ASSUME NEW l \in Lanes, EndErrand(l)
      PROVE  /\ TypeOK' /\ UNCHANGED <<row, handler, answers, stops, turn, ingested, delivered,
                                       executed, charged, taken>>
  BY <1>5, ConstantsAssumption DEF EndErrand, TypeOK
<1> QED BY <1>1, <1>2, <1>3, <1>4, <1>5 DEF Outside

LEMMA CrashStep ==
    ASSUME TypeOK, Crash
    PROVE  /\ TypeOK'
           /\ UNCHANGED <<row, answers, stops, turn, ingested, delivered, executed, charged, taken>>
           /\ \A p \in Passes, e \in Events : handler'[p][e].at = "none"
<1>1. /\ faults' \in 0..MaxFaults /\ asked' \in [Lanes -> 0..MaxAsks]
      /\ active' \in [Lanes -> 0..MaxAsks]
  BY ConstantsAssumption DEF Crash, Fault, TypeOK
<1>2. handler' \in [Passes -> [Events -> [at : Steps, approval : 0..MaxAsks]]]
      /\ \A p \in Passes, e \in Events : handler'[p][e].at = "none"
  BY ConstantsAssumption DEF Crash, Do, Steps
<1> QED BY <1>1, <1>2 DEF Crash, TypeOK

LEMMA NextCases ==
    ASSUME Next
    PROVE  \/ \E e \in Events, awaited \in BOOLEAN : Accept(e, awaited)
           \/ \E e \in Events : Stall(e) \/ Lapse(e) \/ BecomeDue(e)
           \/ \E p \in Passes : StartDrain(p)
           \/ \E p \in Passes : ClaimDue(p)
           \/ \E p \in Passes, e \in Events : HandlerStep(p, e)
           \/ Crash
           \/ Outside
BY DEF Next, Outside, PassStep, Wait

LEMMA Stutter ==
    ASSUME UNCHANGED vars
    PROVE  UNCHANGED <<row, pass, handler, asked, asks, active, askedBy, answers, stops, turn, ingested, delivered,
                       executed, charged, taken, faults>>
BY DEF vars, errand

-----------------------------------------------------------------------------
(* Types.                                                                  *)

LEMMA TypeInit == Init => TypeOK /\ AboutSome
<1> SUFFICES ASSUME Init PROVE TypeOK /\ AboutSome
  OBVIOUS
<1>1. row \in [Events -> Row] /\ faults \in 0..MaxFaults
  BY ConstantsAssumption DEF Init, Row, Status, Absent
<1>2. handler \in [Passes -> [Events -> [at : Steps, approval : 0..MaxAsks]]]
  BY ConstantsAssumption DEF Init, Do, Steps
<1>3. AboutSome
  BY DEF Init, Do, AboutSome
<1> QED BY <1>1, <1>2, <1>3, ConstantsAssumption DEF Init, TypeOK

LEMMA TypeStep ==
    ASSUME TypeOK, AboutSome, [Next]_vars
    PROVE  TypeOK' /\ AboutSome'
<1>1. CASE UNCHANGED vars
  BY <1>1, Stutter DEF TypeOK, AboutSome
<1>2. CASE Next
  <2>1. CASE \E e \in Events, awaited \in BOOLEAN : Accept(e, awaited)
    <3>1. TypeOK' /\ UNCHANGED handler
      BY <2>1, AcceptStep
    <3> QED BY <3>1 DEF AboutSome
  <2>2. CASE \E e \in Events : Stall(e) \/ Lapse(e) \/ BecomeDue(e)
    <3>1. TypeOK' /\ UNCHANGED handler
      BY <2>2, ClockStep
    <3> QED BY <3>1 DEF AboutSome
  <2>3. CASE \E p \in Passes : StartDrain(p)
    <3>1. TypeOK' /\ UNCHANGED handler
      BY <2>3, StartDrainStep
    <3> QED BY <3>1 DEF AboutSome
  <2>4. CASE \E p \in Passes : ClaimDue(p)
    <3>1. PICK p \in Passes : ClaimDue(p)
      BY <2>4
    <3>2. TypeOK' /\ \A q \in Passes, d \in Events :
              handler'[q][d] = handler[q][d] \/ handler'[q][d].at \in {"none", "open"}
      BY <3>1, ClaimDueStep
    <3> QED BY <3>2 DEF AboutSome
  <2>5. CASE \E p \in Passes, e \in Events : HandlerStep(p, e)
    BY <2>5, HandlerFrame
  <2>6. CASE Crash
    <3>1. TypeOK' /\ \A p \in Passes, e \in Events : handler'[p][e].at = "none"
      BY <2>6, CrashStep
    <3> QED BY <3>1 DEF AboutSome
  <2>7. CASE Outside
    <3>1. TypeOK' /\ UNCHANGED handler
      BY <2>7, OutsideStep
    <3> QED BY <3>1 DEF AboutSome
  <2> QED BY <1>2, <2>1, <2>2, <2>3, <2>4, <2>5, <2>6, <2>7, NextCases
<1> QED BY <1>1, <1>2

LEMMA TypeAlways == Spec => [](TypeOK /\ AboutSome)
<1>1. Init => TypeOK /\ AboutSome
  BY TypeInit
<1>2. (TypeOK /\ AboutSome) /\ [Next]_vars => (TypeOK /\ AboutSome)'
  BY TypeStep
<1> QED BY <1>1, <1>2, PTL DEF Spec

(* The rows, passes and handlers keep their types whatever interleaves:    *)
(* above all, an approval that a handler answers is one that was asked     *)
(* for (answerErrandReply).                                                *)
THEOREM InboundTypeCorrect == Spec => []TypeOK
BY TypeAlways, PTL

LEMMA SettledStep ==
    ASSUME TypeOK, AboutSome, Next, NEW e \in Events, IsTerminal(e)
    PROVE  row'[e] = row[e]
<1>0. row[e].status \notin Claimed \cup {Absent, "accepted", "retry_wait"}
  BY DEF IsTerminal, Terminal, Claimed, Absent
<1>1. ASSUME NEW d \in Events, NEW awaited \in BOOLEAN, Accept(d, awaited)
      PROVE  row'[e] = row[e]
  BY <1>0, <1>1, AcceptStep
<1>2. ASSUME NEW d \in Events, Stall(d) \/ Lapse(d) \/ BecomeDue(d)
      PROVE  row'[e] = row[e]
  BY <1>0, <1>2, ClockStep
<1>3. ASSUME NEW p \in Passes, StartDrain(p)
      PROVE  row'[e] = row[e]
  BY <1>0, <1>3, StartDrainStep DEF Expired
<1>4. ASSUME NEW p \in Passes, ClaimDue(p)
      PROVE  row'[e] = row[e]
  BY <1>0, <1>4, ClaimDueStep DEF Expired, Due
<1>5. ASSUME NEW p \in Passes, NEW d \in Events, HandlerStep(p, d)
      PROVE  row'[e] = row[e]
  BY <1>0, <1>5, HandlerFrame DEF Frame, Holds
<1>6. CASE Crash
  BY <1>6, CrashStep
<1>7. CASE Outside
  BY <1>7, OutsideStep
<1> QED BY <1>1, <1>2, <1>3, <1>4, <1>5, <1>6, <1>7, NextCases

(* A settled row is final: every write of a handler demands a current      *)
(* claim, recovery and claiming only find claimed or waiting rows.         *)
THEOREM SettledStaysSettled == Spec => SettledIsFinal
<1>1. TypeOK /\ AboutSome /\ [Next]_vars =>
          [\A e \in Events : IsTerminal(e) => row'[e] = row[e]]_vars
  BY SettledStep
<1> QED BY <1>1, TypeAlways, PTL DEF Spec, SettledIsFinal

-----------------------------------------------------------------------------
(* Lane order.  Rows are accepted in sequence, and a claimed row stays      *)
(* accepted.                                                               *)

LaneInv ==
    /\ \A d, e \in Events : d < e /\ row[e].status # Absent => row[d].status # Absent
    /\ \A e \in Events : row[e].attempts > 0 => row[e].status # Absent
    /\ LaneOrder

(* What a step does to the lane of a row. *)
LaneStep(d) ==
    /\ row'[d].lane = row[d].lane
    /\ row[d].status # Absent => row'[d].status # Absent /\ row'[d].awaited = row[d].awaited
    /\ row[d].status = Absent /\ row'[d].status # Absent =>
           \A c \in 1..(d - 1) : row[c].status # Absent
    /\ row'[d].attempts > 0 =>
           row[d].attempts > 0 \/ (row[d].status # Absent /\ LaneClear(d))

LEMMA LaneSteps ==
    ASSUME TypeOK, AboutSome, Next, NEW d \in Events
    PROVE  LaneStep(d)
<1>1. ASSUME NEW e \in Events, NEW awaited \in BOOLEAN, Accept(e, awaited)
      PROVE  LaneStep(d)
  BY <1>1, AcceptStep DEF LaneStep
<1>2. ASSUME NEW e \in Events, Stall(e) \/ Lapse(e) \/ BecomeDue(e)
      PROVE  LaneStep(d)
  BY <1>2, ClockStep DEF LaneStep, Keeps
<1>3. ASSUME NEW p \in Passes, StartDrain(p)
      PROVE  LaneStep(d)
  BY <1>3, StartDrainStep DEF LaneStep, Keeps, Absent, Expired, Claimed
<1>4. ASSUME NEW p \in Passes, ClaimDue(p)
      PROVE  LaneStep(d)
  BY <1>4, ClaimDueStep DEF LaneStep, Keeps, Absent, Due, Expired, Claimed
<1>5. ASSUME NEW p \in Passes, NEW e \in Events, HandlerStep(p, e)
      PROVE  LaneStep(d)
  BY <1>5, HandlerFrame DEF LaneStep, Frame, Holds, Absent, Claimed
<1>6. CASE Crash
  BY <1>6, CrashStep DEF LaneStep
<1>7. CASE Outside
  BY <1>7, OutsideStep DEF LaneStep
<1> QED BY <1>1, <1>2, <1>3, <1>4, <1>5, <1>6, <1>7, NextCases

LEMMA LaneStepInv ==
    ASSUME TypeOK, AboutSome, LaneInv, [Next]_vars
    PROVE  LaneInv'
<1>1. CASE UNCHANGED vars
  <2>1. UNCHANGED row
    BY <1>1, Stutter
  <2> QED BY <2>1 DEF LaneInv, LaneOrder, SameLane, ControlLane, IsTerminal
<1>2. CASE Next
  <2>1. \A d \in Events : LaneStep(d)
    BY <1>2, LaneSteps
  <2>2. \A d \in Events : IsTerminal(d) => row'[d] = row[d]
    BY <1>2, SettledStep
  <2>3. \A c, d \in Events : c < d => c \in 1..(d - 1)
    BY ConstantsAssumption DEF Events
  <2>4. \A e \in Events : row'[e].attempts > 0 => row[e].status # Absent
    BY <2>1 DEF LaneInv, LaneStep
  <2>5. ASSUME NEW d \in Events, NEW e \in Events, d < e, row'[e].attempts > 0,
               SameLane(d, e)'
        PROVE  IsTerminal(d)'
    <3>1. row[e].status # Absent /\ row[d].status # Absent
      BY <2>4, <2>5 DEF LaneInv
    <3>2. SameLane(d, e)
      BY <2>1, <2>5, <3>1 DEF LaneStep, SameLane, ControlLane
    <3>3. IsTerminal(d)
      BY <2>1, <2>3, <2>5, <3>2 DEF LaneInv, LaneOrder, LaneStep, LaneClear
    <3> QED BY <2>2, <3>3 DEF IsTerminal
  <2>6. LaneOrder'
    BY <2>5 DEF LaneOrder
  <2>7. \A d, e \in Events : d < e /\ row'[e].status # Absent => row'[d].status # Absent
    BY <2>1, <2>3 DEF LaneInv, LaneStep
  <2>8. \A e \in Events : row'[e].attempts > 0 => row'[e].status # Absent
    BY <2>1, <2>4 DEF LaneStep
  <2> QED BY <2>6, <2>7, <2>8 DEF LaneInv, Absent
<1> QED BY <1>1, <1>2

(* Events of a lane are handled one at a time and in the order they were   *)
(* accepted, for any number of passes that claim, stall, crash and recover *)
(* (listDueSql, claimDue, recoverExpiredClaims).                           *)
THEOREM LaneOrderHolds == Spec => []LaneOrder
<1>1. Init => LaneInv
  BY DEF Init, LaneInv, LaneOrder
<1>2. TypeOK /\ AboutSome /\ LaneInv /\ [Next]_vars => LaneInv'
  BY LaneStepInv
<1>3. LaneInv => LaneOrder
  BY DEF LaneInv
<1> QED BY <1>1, <1>2, <1>3, TypeAlways, PTL DEF Spec

(* A claimed row has been counted as claimed. *)
ClaimCounted == \A e \in Events : row[e].status \in Claimed => row[e].attempts > 0

LEMMA ClaimCountedStep ==
    ASSUME TypeOK, AboutSome, ClaimCounted, [Next]_vars
    PROVE  ClaimCounted'
<1> SUFFICES ASSUME NEW d \in Events, row'[d].status \in Claimed
             PROVE  row'[d].attempts > 0
  BY DEF ClaimCounted
<1>0. row[d].status \in Claimed => row[d].attempts > 0
  BY DEF ClaimCounted
<1>1. CASE UNCHANGED vars
  BY <1>0, <1>1, Stutter
<1>2. ASSUME NEW e \in Events, NEW awaited \in BOOLEAN, Accept(e, awaited)
      PROVE  row'[d].attempts > 0
  BY <1>0, <1>2, AcceptStep DEF Claimed
<1>3. ASSUME NEW e \in Events, Stall(e) \/ Lapse(e) \/ BecomeDue(e)
      PROVE  row'[d].attempts > 0
  BY <1>0, <1>3, ClockStep
<1>4. ASSUME NEW p \in Passes, StartDrain(p)
      PROVE  row'[d].attempts > 0
  BY <1>0, <1>4, StartDrainStep DEF Claimed
<1>5. ASSUME NEW p \in Passes, ClaimDue(p)
      PROVE  row'[d].attempts > 0
  BY <1>0, <1>5, ClaimDueStep
<1>6. ASSUME NEW p \in Passes, NEW e \in Events, HandlerStep(p, e)
      PROVE  row'[d].attempts > 0
  BY <1>0, <1>6, HandlerFrame DEF Frame, Holds
<1>7. CASE Crash
  BY <1>0, <1>7, CrashStep
<1>8. CASE Outside
  BY <1>0, <1>8, OutsideStep
<1> QED BY <1>1, <1>2, <1>3, <1>4, <1>5, <1>6, <1>7, <1>8, NextCases

(* At most one row of a lane is claimed at any time, its claim live or     *)
(* expired.                                                                *)
OneClaimPerLane ==
    \A d, e \in Events :
        row[d].status \in Claimed /\ row[e].status \in Claimed /\ SameLane(d, e) => d = e

(* However many passes claim (claimDue) while others recover expired       *)
(* claims, no two events of one lane are ever claimed together.            *)
THEOREM LanesExclusive == Spec => []OneClaimPerLane
<1>1. Init => ClaimCounted
  BY DEF Init, ClaimCounted, Absent, Claimed
<1>2. TypeOK /\ AboutSome /\ ClaimCounted /\ [Next]_vars => ClaimCounted'
  BY ClaimCountedStep
<1>3. ClaimCounted /\ LaneOrder => OneClaimPerLane
  <2> SUFFICES ASSUME ClaimCounted, LaneOrder, NEW d \in Events, NEW e \in Events,
                      row[d].status \in Claimed, row[e].status \in Claimed, SameLane(d, e)
               PROVE  d = e
    BY DEF OneClaimPerLane
  <2>1. ~ IsTerminal(d) /\ ~ IsTerminal(e)
    BY DEF IsTerminal, Terminal, Claimed
  <2>2. ~ (d < e) /\ ~ (e < d)
    BY <2>1 DEF ClaimCounted, LaneOrder, SameLane, ControlLane
  <2> QED BY <2>2, ConstantsAssumption DEF Events
<1> QED BY <1>1, <1>2, <1>3, TypeAlways, LaneOrderHolds, PTL DEF Spec

-----------------------------------------------------------------------------
(* The queue a sender sees.  A step offers one event, takes first events,  *)
(* or releases taken ones.                                                 *)

LEMMA StageTypes ==
    ASSUME TypeOK
    PROVE  /\ Stages \in [Events -> {"absent", "queued", "taken", "settled"}]
           /\ LaneOf \in [Events -> Lanes \X BOOLEAN]
           /\ \A e \in Events : Stages[e] = QueueState(row[e])
           /\ \A d, e \in Events : LaneOf[d] = LaneOf[e] <=> SameLane(d, e)
BY DEF Stages, LaneOf, QueueState, ControlLane, SameLane, TypeOK, Row

(* The status of a row, by its stage. *)
LEMMA StageOf ==
    ASSUME NEW r
    PROVE  /\ QueueState(r) = "absent" <=> r.status = Absent
           /\ QueueState(r) = "settled" <=> r.status \in Terminal
           /\ QueueState(r) = "taken" <=> r.status \in Claimed
           /\ QueueState(r) = "queued" <=>
                  r.status \notin Terminal \cup Claimed \cup {Absent}
BY DEF QueueState, Absent, Terminal, Claimed

(* No lane changes, and only taken events do. *)
LEMMA ReleaseStep ==
    ASSUME TypeOK, TypeOK',
           \A e \in Events : /\ row'[e].lane = row[e].lane /\ row'[e].awaited = row[e].awaited
                             /\ \/ QueueState(row'[e]) = QueueState(row[e])
                                \/ row[e].status \in Claimed /\ row'[e].status # Absent
    PROVE  Queue!Release
<1> DEFINE S == {e \in Events : Stages[e] = "taken"}
           outcome == [e \in {e \in S : Stages'[e] # "taken"} |-> Stages'[e]]
<1>1. UNCHANGED LaneOf
  BY DEF LaneOf, ControlLane
<1>2. \A e \in Events : Stages[e] = QueueState(row[e]) /\ Stages'[e] = QueueState(row'[e])
  BY DEF Stages
<1>3. /\ Stages' \in [Events -> {"absent", "queued", "taken", "settled"}]
      /\ Stages' = [e \in Events |-> Stages'[e]]
  BY DEF Stages, QueueState
<1>4. \A e \in Events : Stages'[e] = Stages[e]
          \/ (e \in S /\ Stages'[e] \in {"queued", "taken", "settled"})
  BY <1>2, <1>3, StageOf
<1>5. {e \in S : Stages'[e] # "taken"} \in SUBSET S
  OBVIOUS
<1>6. outcome \in [{e \in S : Stages'[e] # "taken"} -> {"queued", "settled"}]
  BY <1>4
<1>7. Stages' = [e \in Events |-> IF e \in {e1 \in S : Stages'[e1] # "taken"}
                                  THEN outcome[e] ELSE Stages[e]]
  BY <1>3, <1>4
<1> HIDE DEF outcome
<1> QED BY <1>1, <1>5, <1>6, <1>7 DEF Queue!Release

(* claimDue takes first events; a claim it takes over stays taken. *)
LEMMA ClaimTakes ==
    ASSUME TypeOK, NEW p \in Passes, ClaimDue(p)
    PROVE  Queue!Take
<1> DEFINE S == {e \in Events : Stages[e] = "queued" /\ Stages'[e] # Stages[e]}
<1>1. /\ TypeOK' /\ \A d \in Events : Keeps(d)
      /\ \A d \in Events : row'[d] = row[d] \/ (Due(d, p) /\ row'[d].status = "processing")
  BY ClaimDueStep
<1>2. UNCHANGED LaneOf
  <2>1. \A d \in Events : row'[d].lane = row[d].lane /\ row'[d].awaited = row[d].awaited
    BY <1>1 DEF Keeps
  <2> QED BY <2>1 DEF LaneOf, ControlLane
<1>3. \A e \in Events : Stages[e] = QueueState(row[e]) /\ Stages'[e] = QueueState(row'[e])
  BY DEF Stages
<1>4. Stages' = [e \in Events |-> Stages'[e]]
  BY DEF Stages
<1>5. ASSUME NEW e \in Events, Stages'[e] # Stages[e]
      PROVE  e \in S /\ Stages'[e] = "taken" /\ Queue!First(e)
  <2>1. Due(e, p) /\ row'[e].status = "processing"
    BY <1>1, <1>3, <1>5
  <2>2. Stages'[e] = "taken"
    BY <1>3, <2>1, StageOf DEF Claimed
  <2>3. row[e].status \notin Claimed
    BY <1>3, <1>5, <2>2, StageOf
  <2>4. Stages[e] = "queued" /\ row[e].status # Absent
    BY <1>3, <2>1, <2>3, StageOf DEF Due, Expired, Absent, Terminal, Claimed
  <2>5. ASSUME NEW d \in Events, d < e, LaneOf[d] = LaneOf[e]
        PROVE  Stages[d] = "settled"
    <3>1. d \in 1..(e - 1) /\ SameLane(d, e)
      BY <2>5, StageTypes, ConstantsAssumption DEF Events
    <3> QED BY <1>3, <2>1, <3>1, StageOf DEF Due, LaneClear, IsTerminal
  <2> QED BY <1>5, <2>2, <2>4, <2>5 DEF Queue!First
<1>6. S \in SUBSET {e \in Events : Stages[e] = "queued" /\ Queue!First(e)}
  BY <1>5
<1>7. Stages' = [e \in Events |-> IF e \in S THEN "taken" ELSE Stages[e]]
  BY <1>4, <1>5
<1> QED BY <1>2, <1>6, <1>7 DEF Queue!Take

(* acceptNormalized offers the next event, to the lane it resolved. *)
LEMMA AcceptOffers ==
    ASSUME TypeOK, NEW e \in Events, NEW awaited \in BOOLEAN, Accept(e, awaited)
    PROVE  Queue!Offer(e)
<1>1. /\ TypeOK' /\ row[e].status = Absent /\ row'[e].status = "accepted"
      /\ \A d \in 1..(e - 1) : row[d].status # Absent
      /\ \A d \in Events : d # e => row'[d] = row[d]
  BY AcceptStep
<1>2. /\ Stages \in [Events -> {"absent", "queued", "taken", "settled"}]
      /\ Stages' \in [Events -> {"absent", "queued", "taken", "settled"}]
      /\ LaneOf \in [Events -> Lanes \X BOOLEAN]
      /\ LaneOf' \in [Events -> Lanes \X BOOLEAN]
  BY <1>1 DEF Stages, LaneOf, QueueState, ControlLane, TypeOK, Row
<1>3. \A d \in Events : Stages[d] = QueueState(row[d]) /\ Stages'[d] = QueueState(row'[d])
  BY DEF Stages
<1>4. Stages[e] = "absent" /\ Stages'[e] = "queued"
  BY <1>1, <1>3, StageOf DEF Absent, Terminal, Claimed
<1>5. \A d \in Events : d < e => Stages[d] # "absent"
  BY <1>1, <1>3, StageOf, ConstantsAssumption DEF Events
<1>6. Stages' = [Stages EXCEPT ![e] = "queued"]
  BY <1>1, <1>2, <1>3, <1>4
<1>7. \A d \in Events : d # e => LaneOf'[d] = LaneOf[d]
  BY <1>1 DEF LaneOf, ControlLane
<1>8. LaneOf' = [LaneOf EXCEPT ![e] = LaneOf'[e]] /\ LaneOf'[e] \in Lanes \X BOOLEAN
  BY <1>2, <1>7
<1> QED BY <1>4, <1>5, <1>6, <1>8 DEF Queue!Offer

(* The rows, the drain passes and their handlers implement one ordered     *)
(* queue per lane, for any number of events, lanes, passes and faults:     *)
(* whatever stalls, crashes, recovers or writes late, an event is taken    *)
(* only first in its lane and settled once, and none is lost or moved.     *)
THEOREM QueueIsOrdered == Spec => ImplementsLaneQueue
<1>1. Init => Queue!Init
  <2> SUFFICES ASSUME Init PROVE Queue!Init
    OBVIOUS
  <2>1. TypeOK
    BY TypeInit
  <2>2. Stages = [e \in Events |-> "absent"]
    BY DEF Init, Stages, QueueState
  <2> QED BY <2>1, <2>2, StageTypes DEF Queue!Init
<1>2. TypeOK /\ AboutSome /\ [Next]_vars => [Queue!Next]_<<Stages, LaneOf>>
  <2> SUFFICES ASSUME TypeOK, AboutSome, [Next]_vars
               PROVE  [Queue!Next]_<<Stages, LaneOf>>
    OBVIOUS
  <2>0. TypeOK'
    BY TypeStep
  <2>1. CASE UNCHANGED row
    BY <2>1 DEF Stages, LaneOf, ControlLane
  <2>2. CASE UNCHANGED vars
    BY <2>1, <2>2, Stutter
  <2>3. ASSUME NEW e \in Events, NEW awaited \in BOOLEAN, Accept(e, awaited)
        PROVE  Queue!Next
    BY <2>3, AcceptOffers DEF Queue!Next
  <2>4. ASSUME NEW e \in Events, Stall(e) \/ Lapse(e) \/ BecomeDue(e)
        PROVE  Queue!Next
    <3>1. \A d \in Events : row'[d].lane = row[d].lane /\ row'[d].awaited = row[d].awaited
                            /\ row'[d].status = row[d].status
      BY <2>4, ClockStep DEF Keeps
    <3> QED BY <2>0, <3>1, ReleaseStep DEF Queue!Next, QueueState
  <2>5. ASSUME NEW p \in Passes, StartDrain(p)
        PROVE  Queue!Next
    <3>1. \A d \in Events : /\ row'[d].lane = row[d].lane /\ row'[d].awaited = row[d].awaited
                            /\ \/ row'[d] = row[d]
                               \/ row[d].status \in Claimed /\ row'[d].status # Absent
      BY <2>5, StartDrainStep DEF Keeps, Expired, Absent
    <3>2. Queue!Release
      BY <2>0, <3>1, ReleaseStep
    <3> QED BY <3>2 DEF Queue!Next
  <2>6. ASSUME NEW p \in Passes, ClaimDue(p)
        PROVE  Queue!Next
    BY <2>6, ClaimTakes DEF Queue!Next
  <2>7. ASSUME NEW p \in Passes, NEW e \in Events, HandlerStep(p, e)
        PROVE  Queue!Next
    <3>1. \A d \in Events : /\ row'[d].lane = row[d].lane /\ row'[d].awaited = row[d].awaited
                            /\ \/ row'[d] = row[d]
                               \/ row[d].status \in Claimed /\ row'[d].status # Absent
      BY <2>7, HandlerFrame DEF Frame, Holds
    <3>2. Queue!Release
      BY <2>0, <3>1, ReleaseStep
    <3> QED BY <3>2 DEF Queue!Next
  <2>8. CASE Crash
    BY <2>1, <2>8, CrashStep
  <2>9. CASE Outside
    BY <2>1, <2>9, OutsideStep
  <2> QED BY <2>2, <2>3, <2>4, <2>5, <2>6, <2>7, <2>8, <2>9, NextCases
<1> QED BY <1>1, <1>2, TypeAlways, PTL DEF Spec, ImplementsLaneQueue, Queue!Spec

-----------------------------------------------------------------------------
(* Effects.  A handler has effects for its own event only, and each effect *)
(* has one step.                                                           *)

Unfenced(p, e) ==
    \/ Answer(p, e) \/ Stop(p, e) \/ Ingest(p, e) \/ Execute(p, e) \/ Decide(p, e)
    \/ Free(p, e) \/ Respond(p, e) \/ Reply(p, e) \/ Quit(p, e)

LEMMA HandlerCases ==
    ASSUME NEW p, NEW e, HandlerStep(p, e)
    PROVE  \/ FencedAction(p, e) \/ Unfenced(p, e) \/ Pick(p, e) \/ Mark(p, e)
           \/ Guard(p, e) \/ Decided(p, e) \/ Fail(p, e)
BY DEF HandlerStep, FencedAction, Unfenced

LEMMA EffectsOf ==
    ASSUME TypeOK, NEW p \in Passes, NEW e \in Events, HandlerStep(p, e)
    PROVE  /\ taken' = taken
           /\ ~Decide(p, e) => charged' = charged
           /\ ~Respond(p, e) => turn' = turn
           /\ ~Execute(p, e) => executed' = executed
           /\ ~Ingest(p, e) => ingested' = ingested
           /\ ~Reply(p, e) => delivered' = delivered
           /\ ~Answer(p, e) => answers' = answers
           /\ ~Stop(p, e) => stops' = stops
           /\ \A d \in Events \ {e} :
                 /\ charged'[d] = charged[d] /\ turn'[d] = turn[d] /\ executed'[d] = executed[d]
                 /\ d \in ingested' <=> d \in ingested
                 /\ d \in delivered' <=> d \in delivered
           /\ \A a \in answers' : a[1] # e => a \in answers
           /\ \A a \in stops' : a[1] # e => a \in stops
           /\ ingested \subseteq ingested' /\ delivered \subseteq delivered'
<1>1. CASE FencedAction(p, e)
  BY <1>1, FencedStep DEF effects, errand
<1>2. CASE Pick(p, e)
  BY <1>2 DEF Pick, effects, errand
<1>3. CASE Mark(p, e)
  BY <1>3 DEF Mark, effects, errand
<1>4. CASE Guard(p, e)
  BY <1>4 DEF Guard, effects, errand
<1>5. CASE Decided(p, e)
  BY <1>5 DEF Decided, effects, errand
<1>6. CASE Fail(p, e)
  BY <1>6 DEF Fail, effects, errand
<1>7. CASE Answer(p, e) \/ Stop(p, e)
  BY <1>7 DEF Answer, Stop
<1>8. CASE Ingest(p, e)
  BY <1>8 DEF Ingest, errand
<1>9. CASE Execute(p, e)
  BY <1>9 DEF Execute, errand, TypeOK
<1>10. CASE Decide(p, e)
  BY <1>10 DEF Decide, errand, TypeOK
<1>11. CASE Free(p, e)
  BY <1>11 DEF Free, effects, errand
<1>12. CASE Respond(p, e)
  BY <1>12 DEF Respond, errand, TypeOK
<1>13. CASE Reply(p, e)
  BY <1>13 DEF Reply, errand
<1>14. CASE Quit(p, e)
  BY <1>14 DEF Quit, effects, errand
<1> QED BY <1>1, <1>2, <1>3, <1>4, <1>5, <1>6, <1>7, <1>8, <1>9, <1>10, <1>11, <1>12, <1>13,
           <1>14, HandlerCases DEF Unfenced

-----------------------------------------------------------------------------
(* The bot-loop decision.  One handler at most is between the evaluation   *)
(* it opened and its charge.                                               *)

Allowed(e) == row[e].kind = "desk" \/ row[e].bot = "allow"

BotAt(e) ==
    /\ \A p \in Passes : handler[p][e].at = "decide" =>
           /\ charged[e] = 0 /\ row[e].bot # "unset"
           /\ \A q \in Passes : handler[q][e].at = "decide" => q = p
    /\ charged[e] <= 1
    /\ charged[e] > 0 => row[e].bot # "unset"
    /\ \A p \in Passes : handler[p][e].at \in {"busy", "respond"} => Allowed(e)
    /\ turn[e] # "none" => Allowed(e)

(* A step that neither opens, charges nor stores a decision about e. *)
BotQuiet(e) ==
    /\ row'[e].bot = row[e].bot /\ row'[e].kind = row[e].kind
    /\ charged'[e] = charged[e]
    /\ turn[e] = "none" => turn'[e] = "none"
    /\ \A p \in Passes : handler'[p][e].at \in {"decide", "busy", "respond"} =>
           handler'[p][e].at = handler[p][e].at

LEMMA BotKept ==
    ASSUME NEW e \in Events, BotAt(e), BotQuiet(e)
    PROVE  BotAt(e)'
BY DEF BotAt, BotQuiet, Allowed

LEMMA BotHandlerStep ==
    ASSUME TypeOK, AboutSome, NEW p \in Passes, NEW e \in Events, BotAt(e), HandlerStep(p, e)
    PROVE  BotAt(e)'
<1>1. TypeOK' /\ Frame(p, e)
  BY HandlerFrame
<1>2. \A q \in Passes : q # p => handler'[q][e] = handler[q][e]
  BY <1>1 DEF Frame
<1>3. row'[e].kind = row[e].kind
  BY <1>1 DEF Frame
<1>4. CASE Decide(p, e)
  <2>1. charged'[e] = charged[e] + 1 /\ handler[p][e].at = "decide" /\ turn' = turn
    BY <1>4 DEF Decide, TypeOK, At
  <2>2. UNCHANGED row /\ handler'[p][e].at \in {"allowed", "barred"}
    BY <1>4, UnfencedStep
  <2> QED BY <1>2, <2>1, <2>2 DEF BotAt, Allowed
<1>5. CASE Guard(p, e)
  <2>1. UNCHANGED <<charged, turn>>
    BY <1>5, GuardStep DEF effects
  <2>2. \/ handler'[p][e].at = "decide" /\ row[e].bot = "unset" /\ row'[e].bot = "evaluating"
        \/ handler'[p][e].at = "busy" /\ row[e].bot = "allow" /\ row'[e].bot = "allow"
        \/ handler'[p][e].at \in {"recover", "suppress"} /\ row'[e].bot = row[e].bot
    BY <1>5, GuardStep
  <2>3. charged[e] \in Nat
    BY DEF TypeOK
  <2> QED BY <1>2, <1>3, <2>1, <2>2, <2>3 DEF BotAt, Allowed
<1>6. CASE Decided(p, e)
  <2>1. UNCHANGED <<charged, turn>>
    BY <1>6, DecidedStep DEF effects
  <2>2. /\ row[e].bot = "evaluating"
        /\ \/ handler'[p][e].at = "busy" /\ row'[e].bot = "allow"
           \/ handler'[p][e].at = "suppress" /\ row'[e].bot = "suppress"
    BY <1>6, DecidedStep
  <2> QED BY <1>2, <1>3, <2>1, <2>2 DEF BotAt, Allowed
<1>7. CASE Record(p, e)
  <2>1. UNCHANGED <<charged, turn>> /\ row'[e].bot = row[e].bot
        /\ handler'[p][e].at = Dispatch(row[e].kind)
    BY <1>7, FencedStep DEF effects, FencedAction, Claims
  <2>2. /\ Dispatch(row[e].kind) \in {"settle", "start", "guard", "busy"}
        /\ Dispatch(row[e].kind) = "busy" => row[e].kind = "desk"
    BY DispatchStep DEF TypeOK, Row
  <2> QED BY <1>2, <1>3, <2>1, <2>2 DEF BotAt, Allowed
<1>8. CASE Free(p, e)
  <2>1. UNCHANGED <<row, charged, turn>> /\ handler[p][e].at = "busy"
    BY <1>8 DEF Free, effects, At
  <2>2. handler'[p][e].at = "respond"
    BY <1>8, UnfencedStep
  <2> QED BY <1>2, <2>1, <2>2 DEF BotAt, Allowed
<1>9. CASE Respond(p, e)
  <2>1. UNCHANGED <<row, charged>> /\ handler[p][e].at = "respond"
    BY <1>9 DEF Respond, At
  <2>2. handler'[p][e].at = "admit"
    BY <1>9, UnfencedStep
  <2> QED BY <1>2, <2>1, <2>2 DEF BotAt, Allowed
<1>10. ASSUME ~Decide(p, e), ~Guard(p, e), ~Decided(p, e), ~Record(p, e), ~Free(p, e),
              ~Respond(p, e)
       PROVE  BotQuiet(e)
  <2>1. charged' = charged /\ turn' = turn
    BY <1>10, EffectsOf
  <2>2. CASE FencedAction(p, e)
    BY <1>2, <1>3, <1>10, <2>1, <2>2, FencedStep DEF BotQuiet, FencedAction, Claims
  <2>3. CASE Unfenced(p, e)
    BY <1>2, <1>3, <1>10, <2>1, <2>3, UnfencedStep DEF BotQuiet, Unfenced
  <2>4. CASE Pick(p, e)
    BY <1>2, <1>3, <2>1, <2>4, PickStep DEF BotQuiet
  <2>5. CASE Mark(p, e)
    BY <1>2, <1>3, <2>1, <2>5, MarkStep DEF BotQuiet
  <2>6. CASE Fail(p, e)
    BY <1>2, <1>3, <2>1, <2>6, FailStep DEF BotQuiet
  <2> QED BY <1>10, <2>2, <2>3, <2>4, <2>5, <2>6, HandlerCases
<1> QED BY <1>4, <1>5, <1>6, <1>7, <1>8, <1>9, <1>10, BotKept

LEMMA BotStep ==
    ASSUME TypeOK, AboutSome, NEW e \in Events, BotAt(e), [Next]_vars
    PROVE  BotAt(e)'
<1>1. CASE UNCHANGED vars
  BY <1>1, Stutter DEF BotAt, Allowed
<1>2. ASSUME NEW d \in Events, NEW awaited \in BOOLEAN, Accept(d, awaited)
      PROVE  BotQuiet(e)
  BY <1>2, AcceptStep DEF BotQuiet, effects
<1>3. ASSUME NEW d \in Events, Stall(d) \/ Lapse(d) \/ BecomeDue(d)
      PROVE  BotQuiet(e)
  BY <1>3, ClockStep DEF BotQuiet, effects, Keeps
<1>4. ASSUME NEW p \in Passes, StartDrain(p)
      PROVE  BotQuiet(e)
  BY <1>4, StartDrainStep DEF BotQuiet, effects, Keeps
<1>5. ASSUME NEW p \in Passes, ClaimDue(p)
      PROVE  BotQuiet(e)
  BY <1>5, ClaimDueStep DEF BotQuiet, effects, Keeps
<1>6. ASSUME NEW p \in Passes, NEW d \in Events, HandlerStep(p, d), d # e
      PROVE  BotQuiet(e)
  BY <1>6, HandlerFrame, EffectsOf DEF BotQuiet, Frame
<1>7. CASE Crash
  <2> BotQuiet(e)
    BY <1>7, CrashStep DEF BotQuiet
  <2> QED BY BotKept
<1>8. CASE Outside
  <2> BotQuiet(e)
    BY <1>8, OutsideStep DEF BotQuiet
  <2> QED BY BotKept
<1> QED BY <1>1, <1>2, <1>3, <1>4, <1>5, <1>6, <1>7, <1>8, BotKept, BotHandlerStep, NextCases

(* The in-memory guard is charged once per event and a turn is launched    *)
(* only under a stored "allow", across lost claims, crashes between the    *)
(* decision and its record, and handlers that outlive their claim          *)
(* (beginBotLoopEvaluation, completeBotLoopEvaluation).                    *)
THEOREM BotLoopDecidedHolds == Spec => []BotLoopDecided
<1> DEFINE BotInv == \A e \in Events : BotAt(e)
<1>1. Init => BotInv
  BY DEF Init, BotAt, Do
<1>2. TypeOK /\ AboutSome /\ BotInv /\ [Next]_vars => BotInv'
  BY BotStep
<1>3. BotInv => BotLoopDecided
  BY DEF BotAt, BotLoopDecided, Allowed
<1> QED BY <1>1, <1>2, <1>3, TypeAlways, PTL DEF Spec

-----------------------------------------------------------------------------
(* Answers to errands.  Only the handler that owns the claim may mark, and *)
(* a mark never changes once it is there.                                  *)

LEMMA HandlerActive ==
    ASSUME NEW p, NEW e, HandlerStep(p, e)
    PROVE  handler[p][e].at # "none"
BY DEF HandlerStep, Refuse, Pick, Mark, Answer, Stop, Ingest, Record, Start, Execute, Settle, Guard,
       Decide, Decided, Suppress, Busy, Free, Respond, Admit, Park, Reply, Enqueued, TurnFailed,
       Fail, Quit, Transition, At

(* The errand of a conversation moves on to larger approvals only, and who *)
(* asked for an approval is settled when it is asked for.                  *)
ErrandMoves ==
    /\ asks <= asks'
    /\ \A l \in Lanes : asked'[l] \in {asked[l], 0} \/ asked'[l] > asks
    /\ \A n \in 1..MaxAsks : n <= asks => askedBy'[n] = askedBy[n]

LEMMA ErrandSteps ==
    ASSUME TypeOK, AboutSome, Next
    PROVE  ErrandMoves
<1>1. asks \in Nat /\ asks <= asks
  BY ConstantsAssumption DEF TypeOK
<1>2. ASSUME UNCHANGED <<asked, asks, askedBy>>
      PROVE  ErrandMoves
  BY <1>1, <1>2 DEF ErrandMoves
<1>3. ASSUME UNCHANGED effects
      PROVE  ErrandMoves
  BY <1>2, <1>3 DEF effects, errand
<1>4. ASSUME NEW p \in Passes, NEW e \in Events, HandlerStep(p, e)
      PROVE  ErrandMoves
  <2>1. CASE FencedAction(p, e)
    BY <1>3, <2>1, FencedStep
  <2>2. CASE Pick(p, e) \/ Mark(p, e) \/ Guard(p, e) \/ Decided(p, e) \/ Fail(p, e)
    BY <1>3, <2>2 DEF Pick, Mark, Guard, Decided, Fail
  <2>3. CASE Answer(p, e) \/ Stop(p, e)
    <3>1. /\ asks' = asks /\ askedBy' = askedBy
          /\ asked' = asked \/ asked' = [asked EXCEPT ![row[e].lane] = 0]
      BY <2>3 DEF Answer, Stop
    <3> QED BY <1>1, <3>1 DEF ErrandMoves, TypeOK
  <2>4. CASE Ingest(p, e) \/ Execute(p, e) \/ Decide(p, e) \/ Respond(p, e) \/ Reply(p, e)
    BY <1>2, <2>4 DEF Ingest, Execute, Decide, Respond, Reply, errand
  <2>5. CASE Free(p, e) \/ Quit(p, e)
    BY <1>3, <2>5 DEF Free, Quit
  <2> QED BY <1>4, <2>1, <2>2, <2>3, <2>4, <2>5, HandlerCases DEF Unfenced
<1>5. ASSUME NEW e \in Events, Ask(e)
      PROVE  ErrandMoves
  <2>1. /\ asks' = asks + 1 /\ asked' = [asked EXCEPT ![row[e].lane] = asks + 1]
        /\ \E id : askedBy' = [askedBy EXCEPT ![asks + 1] = id]
    BY <1>5 DEF Ask
  <2> QED BY <1>1, <2>1 DEF ErrandMoves, TypeOK
<1>6. ASSUME NEW l \in Lanes, AnsweredElsewhere(l) \/ EndErrand(l)
      PROVE  ErrandMoves
  BY <1>1, <1>6 DEF AnsweredElsewhere, EndErrand, ErrandMoves, TypeOK
<1>7. CASE Crash
  BY <1>1, <1>7 DEF Crash, ErrandMoves
<1>8. CASE Outside
  <2>1. ASSUME NEW p \in Passes, EndDrain(p)
        PROVE  ErrandMoves
    BY <1>3, <2>1 DEF EndDrain
  <2>2. ASSUME NEW e \in Events, TurnStep(e)
        PROVE  ErrandMoves
    BY <1>2, <2>2 DEF TurnStep, errand
  <2> QED BY <1>5, <1>6, <1>8, <2>1, <2>2 DEF Outside
<1>9. ASSUME \/ \E e \in Events, awaited \in BOOLEAN : Accept(e, awaited)
             \/ \E e \in Events : Stall(e) \/ Lapse(e) \/ BecomeDue(e)
             \/ \E p \in Passes : StartDrain(p) \/ ClaimDue(p)
      PROVE  ErrandMoves
  BY <1>3, <1>9 DEF Accept, Stall, Lapse, BecomeDue, StartDrain, ClaimDue
<1> QED BY <1>4, <1>7, <1>8, <1>9, NextCases

AnswerAt(e) ==
    /\ \A p \in Passes : handler[p][e].at = "mark" =>
           /\ handler[p][e].approval <= row[e].asks
           /\ row[e].owner = p => row[e].mark = 0
    /\ \A p \in Passes : handler[p][e].at = "answer" => handler[p][e].approval = row[e].mark
    /\ row[e].mark <= row[e].asks /\ row[e].asks <= asks
    /\ row[e].status = Absent =>
           row[e].mark = 0 /\ \A p \in Passes : handler[p][e].at = "none"
    /\ \A a \in answers : a[1] = e => row[e].kind = "reply" /\ a[2] = row[e].mark
    /\ \A a \in stops : a[1] = e =>
           row[e].kind = "stop" /\ row[e].mark # 0 /\ a[2] = askedBy[row[e].mark]

(* A step that neither marks nor answers for e. *)
AnswerQuiet(e) ==
    /\ row'[e].kind = row[e].kind
    /\ row'[e].mark = row[e].mark /\ row'[e].asks = row[e].asks
    /\ \A p \in Passes : handler'[p][e].at \in {"mark", "answer"} =>
           /\ handler'[p][e] = handler[p][e]
           /\ row'[e].owner = p => row[e].owner = p
    /\ row'[e].status = Absent =>
           row[e].status = Absent /\ \A p \in Passes : handler'[p][e].at = "none"
    /\ \A a \in answers' : a[1] = e => a \in answers
    /\ \A a \in stops' : a[1] = e => a \in stops

LEMMA AnswerKept ==
    ASSUME TypeOK, TypeOK', ErrandMoves, NEW e \in Events, AnswerAt(e), AnswerQuiet(e)
    PROVE  AnswerAt(e)'
<1>1. /\ asks \in Nat /\ asks' \in Nat /\ row[e].asks \in Nat
      /\ row[e].mark \in 0..MaxAsks /\ row[e].mark <= asks
  <2>1. row[e] \in Row /\ asks \in 0..MaxAsks /\ asks' \in 0..MaxAsks
    BY DEF TypeOK
  <2>2. row[e].mark \in 0..MaxAsks /\ row[e].asks \in 0..MaxAsks
    BY <2>1 DEF Row
  <2>3. row[e].mark <= row[e].asks /\ row[e].asks <= asks
    BY DEF AnswerAt
  <2> QED BY <2>1, <2>2, <2>3, ConstantsAssumption
<1>2. row'[e].asks <= asks'
  BY <1>1 DEF AnswerAt, AnswerQuiet, ErrandMoves
<1>3. row[e].mark # 0 => askedBy'[row[e].mark] = askedBy[row[e].mark]
  BY <1>1, ConstantsAssumption DEF ErrandMoves
<1> QED BY <1>2, <1>3 DEF AnswerAt, AnswerQuiet

LEMMA AnswerHandlerStep ==
    ASSUME TypeOK, AboutSome, NEW p \in Passes, NEW e \in Events, AnswerAt(e), HandlerStep(p, e),
           ErrandMoves
    PROVE  AnswerAt(e)'
<1>1. TypeOK' /\ Frame(p, e)
  BY HandlerFrame
<1>2. /\ \A q \in Passes : q # p => handler'[q][e] = handler[q][e]
      /\ row'[e].asks = row[e].asks /\ row'[e].kind = row[e].kind
      /\ \A q \in Passes : row'[e].owner = q => row[e].owner = q
  BY <1>1, ConstantsAssumption DEF Frame
<1>3. row[e].status # Absent /\ row'[e].status # Absent
  BY <1>1, HandlerActive DEF AnswerAt, Frame
<1>4. CASE Pick(p, e)
  <2>1. /\ UNCHANGED <<row, asks, askedBy, answers, stops>>
        /\ \/ /\ handler'[p][e].at = "answer" /\ handler'[p][e].approval = row[e].mark
           \/ /\ handler'[p][e].at = "mark" /\ handler'[p][e].approval = PendingFor(e)
              /\ row[e].mark = 0
           \/ handler'[p][e].at \in {"settle", "ingest"}
    BY <1>4, PickStep DEF effects, errand
  <2>2. PendingFor(e) <= row[e].asks
    BY ConstantsAssumption DEF PendingFor, TypeOK, Row
  <2> QED BY <1>2, <1>3, <2>1, <2>2 DEF AnswerAt
<1>5. CASE Mark(p, e)
  <2>1. /\ UNCHANGED <<asks, askedBy, answers, stops>>
        /\ row[e].owner = p /\ handler[p][e].at = "mark"
        /\ handler'[p][e].at = "answer" /\ handler'[p][e].approval = handler[p][e].approval
        /\ row'[e].mark = handler[p][e].approval
    BY <1>5, MarkStep DEF effects, errand, Holds
  <2>2. /\ row[e].mark = 0 /\ handler[p][e].approval <= row[e].asks /\ row[e].asks <= asks
    BY <2>1 DEF AnswerAt
  <2>3. \A q \in Passes : handler[q][e].at # "answer"
    BY <2>2 DEF AnswerAt, AboutSome
  <2>4. \A a \in answers \cup stops : a[1] # e
    BY <2>2 DEF AnswerAt, TypeOK
  <2>5. \A q \in Passes : q # p => row'[e].owner # q
    BY <1>2, <2>1
  <2> QED BY <1>2, <1>3, <2>1, <2>2, <2>3, <2>4, <2>5 DEF AnswerAt
<1>6. CASE Answer(p, e)
  <2>1. /\ UNCHANGED row /\ handler'[p][e].at = "settle"
    BY <1>6, UnfencedStep
  <2>2. /\ handler[p][e].at = "answer" /\ row[e].kind = "reply"
        /\ answers' = answers \/ answers' = answers \cup {<<e, handler[p][e].approval>>}
        /\ UNCHANGED <<asks, askedBy, stops>>
    BY <1>6 DEF Answer, At
  <2>3. \A a \in answers' : a[1] = e => row[e].kind = "reply" /\ a[2] = row[e].mark
    BY <2>2 DEF AnswerAt
  <2> QED BY <1>2, <1>3, <2>1, <2>2, <2>3 DEF AnswerAt
<1>7. CASE Stop(p, e)
  <2>1. /\ UNCHANGED row /\ handler'[p][e].at = "settle"
    BY <1>7, UnfencedStep
  <2>2. /\ handler[p][e].at = "answer" /\ row[e].kind = "stop"
        /\ \/ stops' = stops
           \/ stops' = stops \cup {<<e, askedBy[handler[p][e].approval]>>}
        /\ UNCHANGED <<asks, askedBy, answers>>
    BY <1>7 DEF Stop, At
  <2>3. handler[p][e].approval = row[e].mark /\ row[e].mark # 0
    BY <2>2 DEF AnswerAt, AboutSome
  <2>4. \A a \in stops' : a[1] = e =>
            row[e].kind = "stop" /\ row[e].mark # 0 /\ a[2] = askedBy[row[e].mark]
    BY <2>2, <2>3 DEF AnswerAt
  <2> QED BY <1>2, <1>3, <2>1, <2>2, <2>4 DEF AnswerAt
<1>8. ASSUME ~Pick(p, e), ~Mark(p, e), ~Answer(p, e), ~Stop(p, e)
      PROVE  AnswerQuiet(e)
  <2>1. answers' = answers /\ stops' = stops
    BY <1>8, EffectsOf
  <2>2. row'[e].mark = row[e].mark /\ handler'[p][e].at \notin {"mark", "answer"}
    <3>1. CASE FencedAction(p, e)
      <4>1. Dispatch(row[e].kind) \in {"settle", "start", "guard", "busy"}
        BY DispatchStep DEF TypeOK, Row
      <4> QED BY <3>1, <4>1, FencedStep DEF FencedAction, Claims
    <3>2. CASE Unfenced(p, e)
      BY <1>8, <3>2, UnfencedStep DEF Unfenced
    <3>3. CASE Guard(p, e)
      BY <3>3, GuardStep
    <3>4. CASE Decided(p, e)
      BY <3>4, DecidedStep
    <3>5. CASE Fail(p, e)
      BY <3>5, FailStep
    <3> QED BY <1>8, <3>1, <3>2, <3>3, <3>4, <3>5, HandlerCases
  <2> QED BY <1>2, <1>3, <2>1, <2>2 DEF AnswerQuiet
<1> QED BY <1>1, <1>4, <1>5, <1>6, <1>7, <1>8, AnswerKept

LEMMA AnswerStep ==
    ASSUME TypeOK, TypeOK', AboutSome, NEW e \in Events, AnswerAt(e), [Next]_vars
    PROVE  AnswerAt(e)'
<1>1. CASE UNCHANGED vars
  BY <1>1, Stutter DEF AnswerAt
<1>2. ASSUME NEW d \in Events, NEW awaited \in BOOLEAN, Accept(d, awaited), d # e
      PROVE  AnswerQuiet(e)
  BY <1>2, AcceptStep DEF AnswerQuiet, effects, errand, AnswerAt
<1>3. ASSUME NEW awaited \in BOOLEAN, Accept(e, awaited)
      PROVE  AnswerAt(e)'
  <2>1. /\ row[e].mark = 0 /\ \A p \in Passes : handler[p][e].at = "none"
        /\ row'[e].mark = 0 /\ row'[e].status # Absent /\ row'[e].kind = row[e].kind
        /\ UNCHANGED <<handler, asks, askedBy, answers, stops>>
    BY <1>3, AcceptStep DEF AnswerAt, effects, errand, Absent
  <2>2. row'[e].asks = asks /\ asks \in Nat
    BY <1>3, ConstantsAssumption DEF Accept, TypeOK, Row
  <2> QED BY <2>1, <2>2 DEF AnswerAt
<1>4. ASSUME NEW d \in Events, Stall(d) \/ Lapse(d) \/ BecomeDue(d)
      PROVE  AnswerQuiet(e)
  BY <1>4, ClockStep DEF AnswerQuiet, effects, errand, Keeps, AnswerAt
<1>5. ASSUME NEW p \in Passes, StartDrain(p)
      PROVE  AnswerQuiet(e)
  BY <1>5, StartDrainStep, ConstantsAssumption
  DEF AnswerQuiet, effects, errand, Keeps, AnswerAt, Expired, Claimed, Absent
<1>6. ASSUME NEW p \in Passes, ClaimDue(p)
      PROVE  AnswerQuiet(e)
  BY <1>6, ClaimDueStep DEF AnswerQuiet, effects, errand, Keeps, AnswerAt, Absent
<1>7. ASSUME NEW p \in Passes, NEW d \in Events, HandlerStep(p, d), d # e
      PROVE  AnswerQuiet(e)
  BY <1>7, HandlerFrame, EffectsOf DEF AnswerQuiet, Frame, AnswerAt
<1>8. CASE Crash
  <2> AnswerQuiet(e)
    BY <1>8, CrashStep DEF AnswerQuiet
  <2> QED BY <1>8, ErrandSteps, AnswerKept DEF Next
<1>9. CASE Outside
  <2> AnswerQuiet(e)
    BY <1>9, OutsideStep DEF AnswerQuiet, AnswerAt
  <2> QED BY <1>1, ErrandSteps, AnswerKept
<1>10. CASE Next
  <2>1. ErrandMoves
    BY <1>10, ErrandSteps
  <2>2. AnswerQuiet(e) => AnswerAt(e)'
    BY <2>1, AnswerKept
  <2> QED BY <1>2, <1>3, <1>4, <1>5, <1>6, <1>7, <1>8, <1>9, <1>10, <2>1, <2>2,
             AnswerHandlerStep, NextCases
<1> QED BY <1>1, <1>10

LEMMA AnswerInit == Init => \A e \in Events : AnswerAt(e)
BY ConstantsAssumption DEF Init, AnswerAt, Do

LEMMA AnswerAlways == Spec => [](\A e \in Events : AnswerAt(e))
<1> DEFINE AnswerInv == \A e \in Events : AnswerAt(e)
<1>1. TypeOK /\ TypeOK' /\ AboutSome /\ AnswerInv /\ [Next]_vars => AnswerInv'
  BY AnswerStep
<1> QED BY <1>1, AnswerInit, TypeAlways, PTL DEF Spec

(* An errand asked for its approvals after the first one, which names it.  *)
ErrandInv ==
    /\ \A l \in Lanes : active[l] <= asks
    /\ \A n \in 1..MaxAsks : askedBy[n] <= n

LEMMA ErrandInvStep ==
    ASSUME TypeOK, AboutSome, ErrandInv, [Next]_vars
    PROVE  ErrandInv'
<1>1. /\ asks \in Nat /\ \A l \in Lanes : active[l] \in Nat
  BY ConstantsAssumption DEF TypeOK
<1>2. ASSUME UNCHANGED <<asks, askedBy>>, \A l \in Lanes : active'[l] \in {active[l], 0}
      PROVE  ErrandInv'
  BY <1>1, <1>2 DEF ErrandInv
<1>3. ASSUME UNCHANGED errand
      PROVE  ErrandInv'
  BY <1>2, <1>3 DEF errand
<1>4. CASE UNCHANGED vars
  BY <1>3, <1>4 DEF vars
<1>5. ASSUME NEW p \in Passes, NEW e \in Events, HandlerStep(p, e)
      PROVE  ErrandInv'
  <2>1. CASE FencedAction(p, e)
    BY <1>3, <2>1, FencedStep DEF effects
  <2>2. CASE Pick(p, e) \/ Mark(p, e) \/ Guard(p, e) \/ Decided(p, e) \/ Fail(p, e)
    BY <1>3, <2>2 DEF Pick, Mark, Guard, Decided, Fail, effects
  <2>3. CASE Answer(p, e)
    BY <1>2, <2>3 DEF Answer
  <2>4. CASE Stop(p, e)
    <3>1. UNCHANGED <<asks, askedBy>>
          /\ (active' = active \/ active' = [active EXCEPT ![row[e].lane] = 0])
      BY <2>4 DEF Stop
    <3> QED BY <1>2, <3>1 DEF TypeOK
  <2>5. CASE Ingest(p, e) \/ Execute(p, e) \/ Decide(p, e) \/ Respond(p, e) \/ Reply(p, e)
    BY <1>3, <2>5 DEF Ingest, Execute, Decide, Respond, Reply
  <2>6. CASE Free(p, e) \/ Quit(p, e)
    BY <1>3, <2>6 DEF Free, Quit, effects
  <2> QED BY <1>5, <2>1, <2>2, <2>3, <2>4, <2>5, <2>6, HandlerCases DEF Unfenced
<1>6. ASSUME NEW e \in Events, Ask(e)
      PROVE  ErrandInv'
  <2> DEFINE id == IF active[row[e].lane] = 0 THEN asks + 1 ELSE active[row[e].lane]
  <2>1. row[e].lane \in Lanes /\ id <= asks + 1 /\ id \in Nat /\ asks + 1 \in 1..MaxAsks
    BY <1>1, <1>6, ConstantsAssumption DEF Ask, TypeOK, Row, ErrandInv
  <2>2. /\ asks' = asks + 1 /\ active' = [active EXCEPT ![row[e].lane] = id]
        /\ askedBy' = [askedBy EXCEPT ![asks + 1] = id]
    BY <1>6 DEF Ask
  <2> HIDE DEF id
  <2>3. \A l \in Lanes : active'[l] <= asks'
    BY <1>1, <2>1, <2>2 DEF TypeOK, ErrandInv
  <2>4. \A n \in 1..MaxAsks : askedBy'[n] <= n
    BY <1>1, <2>1, <2>2 DEF TypeOK, ErrandInv
  <2> QED BY <2>3, <2>4 DEF ErrandInv
<1>7. ASSUME NEW l \in Lanes, AnsweredElsewhere(l) \/ EndErrand(l)
      PROVE  ErrandInv'
  BY <1>2, <1>7 DEF AnsweredElsewhere, EndErrand, TypeOK
<1>8. CASE Crash
  BY <1>2, <1>8 DEF Crash
<1>9. CASE Outside
  <2>1. ASSUME NEW p \in Passes, EndDrain(p)
        PROVE  ErrandInv'
    BY <1>3, <2>1 DEF EndDrain, effects
  <2>2. ASSUME NEW e \in Events, TurnStep(e)
        PROVE  ErrandInv'
    BY <1>3, <2>2 DEF TurnStep
  <2> QED BY <1>6, <1>7, <1>9, <2>1, <2>2 DEF Outside
<1>10. ASSUME \/ \E e \in Events, awaited \in BOOLEAN : Accept(e, awaited)
              \/ \E e \in Events : Stall(e) \/ Lapse(e) \/ BecomeDue(e)
              \/ \E p \in Passes : StartDrain(p) \/ ClaimDue(p)
      PROVE  ErrandInv'
  BY <1>3, <1>10 DEF Accept, Stall, Lapse, BecomeDue, StartDrain, ClaimDue, effects
<1> QED BY <1>4, <1>5, <1>8, <1>9, <1>10, NextCases

(* A retried reply acts on the approval it was marked with, never on one   *)
(* the conversation came to wait for after it arrived: APPROVE and DENY    *)
(* answer that approval (resolveApproval), STOP ends the errand that asked *)
(* for it (stopErrand) and none that was begun later, for any number of    *)
(* passes, errands and approvals (answerErrandReply, pendingDeliveryFor).  *)
THEOREM AnswersItsOwnHolds == Spec => []AnswersItsOwn
<1> DEFINE Answering == \A e \in Events : AnswerAt(e)
<1>1. TypeOK /\ ErrandInv /\ Answering => AnswersItsOwn
  <2> SUFFICES ASSUME TypeOK, ErrandInv, Answering PROVE AnswersItsOwn
    OBVIOUS
  <2>1. \A a \in answers :
           row[a[1]].kind = "reply" /\ row[a[1]].mark = a[2] /\ a[2] <= row[a[1]].asks
    BY DEF AnswerAt, TypeOK
  <2>2. ASSUME NEW a \in stops
        PROVE  /\ row[a[1]].kind = "stop" /\ row[a[1]].mark \in 1..row[a[1]].asks
               /\ askedBy[row[a[1]].mark] = a[2] /\ a[2] <= row[a[1]].asks
    <3>1. PICK e \in Events : a[1] = e
      BY DEF TypeOK
    <3> DEFINE n == row[e].mark
    <3>2. /\ row[e].kind = "stop" /\ n # 0 /\ a[2] = askedBy[n] /\ n <= row[e].asks
          /\ n \in 0..MaxAsks /\ row[e].asks \in Nat
      <4>1. row[e] \in Row
        BY DEF TypeOK
      <4>2. n \in 0..MaxAsks /\ row[e].asks \in Nat
        BY <4>1, ConstantsAssumption DEF Row
      <4> QED BY <3>1, <4>2 DEF AnswerAt
    <3>3. n \in 1..MaxAsks /\ n \in 1..row[e].asks
      BY <3>2, ConstantsAssumption
    <3>4. askedBy[n] <= n /\ askedBy[n] \in Nat
      BY <3>3, ConstantsAssumption DEF ErrandInv, TypeOK
    <3> QED BY <3>1, <3>2, <3>3, <3>4
  <2> QED BY <2>1, <2>2 DEF AnswersItsOwn
<1>2. Init => ErrandInv
  BY ConstantsAssumption DEF Init, ErrandInv
<1>3. TypeOK /\ AboutSome /\ ErrandInv /\ [Next]_vars => ErrandInv'
  BY ErrandInvStep
<1> HIDE DEF Answering
<1>4. Spec => []Answering
  BY AnswerAlways DEF Answering
<1> QED BY <1>1, <1>2, <1>3, <1>4, TypeAlways, PTL DEF Spec

-----------------------------------------------------------------------------
(* Commands.  Every handler that is about to run the command of e crossed  *)
(* the boundary under a claim of its own; between two crossings the row was *)
(* claimed while its command had started.                                  *)

Executing(e) == {p \in Passes : handler[p][e].at = "execute"}

Crossed(e) == row[e].status \in Terminal \cup {"command_execution_started"}

CommandAt(e) ==
    /\ executed[e] + Cardinality(Executing(e)) <= taken[e] + (IF Crossed(e) THEN 1 ELSE 0)
    /\ \A p \in Passes : handler[p][e].at = "start" /\ row[e].owner = p =>
           row[e].status # "command_execution_started"
    /\ row[e].status = "command_execution_started" => row[e].kind \in Commands
    /\ \A p \in Passes :
           /\ row[e].kind \in Commands =>
                  handler[p][e].at \in {"none", "open", "record", "start", "execute", "settle"}
           /\ handler[p][e].at \in {"start", "execute"} => row[e].kind \in Commands

(* A step that starts and runs no command of e. *)
CommandQuiet(e) ==
    /\ executed'[e] = executed[e] /\ taken'[e] = taken[e]
    /\ row'[e].kind = row[e].kind
    /\ Crossed(e) => Crossed(e)'
    /\ row'[e].status = "command_execution_started" =>
           row[e].status = "command_execution_started"
    /\ \A p \in Passes :
           /\ handler'[p][e].at \in {"start", "execute"} =>
                  handler'[p][e] = handler[p][e] /\ (row'[e].owner = p => row[e].owner = p)
           /\ handler'[p][e].at # handler[p][e].at /\ row[e].kind \in Commands =>
                  handler'[p][e].at \in {"none", "open", "record", "settle"}

LEMMA FewerExecuting ==
    ASSUME NEW S \in SUBSET Passes, NEW T \in SUBSET S
    PROVE  Cardinality(S) \in Nat /\ Cardinality(T) \in Nat /\ Cardinality(T) <= Cardinality(S)
<1>1. IsFiniteSet(S) /\ IsFiniteSet(T)
  BY ConstantsAssumption, FS_Subset
<1> QED BY <1>1, FS_Subset, FS_CardinalityType

LEMMA CommandKept ==
    ASSUME TypeOK, NEW e \in Events, CommandAt(e), CommandQuiet(e)
    PROVE  CommandAt(e)'
<1>1. Executing(e)' \in SUBSET Executing(e) /\ Executing(e) \in SUBSET Passes
  BY DEF Executing, CommandQuiet
<1>2. Cardinality(Executing(e)') <= Cardinality(Executing(e))
      /\ Cardinality(Executing(e)') \in Nat /\ Cardinality(Executing(e)) \in Nat
  BY <1>1, FewerExecuting
<1>3. executed[e] \in Nat /\ taken[e] \in Nat
  BY DEF TypeOK
<1>4. (executed[e] + Cardinality(Executing(e)) <= taken[e] + (IF Crossed(e) THEN 1 ELSE 0))'
  BY <1>2, <1>3 DEF CommandAt, CommandQuiet
<1>5. \A p \in Passes : (handler[p][e].at = "start" /\ row[e].owner = p =>
           row[e].status # "command_execution_started")'
  BY DEF CommandAt, CommandQuiet
<1>6. (row[e].status = "command_execution_started" => row[e].kind \in Commands)'
  BY DEF CommandAt, CommandQuiet
<1>7. \A p \in Passes :
           /\ row'[e].kind \in Commands =>
                  handler'[p][e].at \in {"none", "open", "record", "start", "execute", "settle"}
           /\ handler'[p][e].at \in {"start", "execute"} => row'[e].kind \in Commands
  BY DEF CommandAt, CommandQuiet
<1> QED BY <1>4, <1>5, <1>6, <1>7 DEF CommandAt

LEMMA CommandHandlerStep ==
    ASSUME TypeOK, AboutSome, NEW p \in Passes, NEW e \in Events, CommandAt(e), HandlerStep(p, e)
    PROVE  CommandAt(e)'
<1>1. TypeOK' /\ Frame(p, e)
  BY HandlerFrame
<1>2. /\ \A q \in Passes : q # p => handler'[q][e] = handler[q][e]
      /\ row'[e].kind = row[e].kind
      /\ \A q \in Passes : row'[e].owner = q => row[e].owner = q
      /\ row'[e] # row[e] => Holds(p, e)
  BY <1>1, ConstantsAssumption DEF Frame
<1>3. executed[e] \in Nat /\ taken[e] \in Nat /\ taken' = taken
  BY EffectsOf DEF TypeOK
<1>4. Executing(e) \in SUBSET Passes /\ IsFiniteSet(Executing(e))
      /\ Cardinality(Executing(e)) \in Nat
  BY FewerExecuting, FS_Subset, ConstantsAssumption DEF Executing
<1>5. CASE Start(p, e)
  <2>1. /\ Holds(p, e) /\ handler[p][e].at = "start" /\ handler'[p][e].at = "execute"
        /\ row'[e].status = "command_execution_started"
    BY <1>5, FencedStep DEF FencedAction, Claims
  <2>2. executed' = executed
    BY <1>5, FencedStep DEF FencedAction, effects
  <2>3. row[e].status # "command_execution_started" /\ row[e].status \in Claimed
    BY <2>1 DEF CommandAt, Holds
  <2>4. ~Crossed(e) /\ Crossed(e)'
    BY <2>1, <2>3 DEF Crossed, Claimed, Terminal
  <2>5. Executing(e)' = Executing(e) \cup {p} /\ p \notin Executing(e)
    BY <1>2, <2>1 DEF Executing
  <2>6. Cardinality(Executing(e)') = Cardinality(Executing(e)) + 1
    BY <1>4, <2>5, FS_AddElement
  <2>7. (executed[e] + Cardinality(Executing(e)) <= taken[e] + (IF Crossed(e) THEN 1 ELSE 0))'
    BY <1>3, <1>4, <2>2, <2>4, <2>6 DEF CommandAt
  <2>8. \A q \in Passes : handler'[q][e].at = "start" => row'[e].owner # q
    BY <1>2, <2>1 DEF Holds
  <2> QED BY <1>2, <2>1, <2>7, <2>8 DEF CommandAt
<1>6. CASE Execute(p, e)
  <2>1. /\ UNCHANGED row /\ handler'[p][e].at = "settle"
    BY <1>6, UnfencedStep
  <2>2. handler[p][e].at = "execute" /\ executed'[e] = executed[e] + 1
    BY <1>6 DEF Execute, At, TypeOK
  <2>3. Executing(e)' = Executing(e) \ {p} /\ p \in Executing(e)
    BY <1>2, <2>1, <2>2 DEF Executing
  <2>4. Cardinality(Executing(e)') = Cardinality(Executing(e)) - 1
    BY <1>4, <2>3, FS_RemoveElement
  <2>5. Crossed(e)' <=> Crossed(e)
    BY <2>1 DEF Crossed
  <2>6. (executed[e] + Cardinality(Executing(e)) <= taken[e] + (IF Crossed(e) THEN 1 ELSE 0))'
    BY <1>3, <1>4, <2>2, <2>4, <2>5 DEF CommandAt
  <2> QED BY <1>2, <2>1, <2>6 DEF CommandAt
<1>7. CASE Record(p, e)
  <2>1. /\ Holds(p, e) /\ handler'[p][e].at = Dispatch(row[e].kind)
        /\ row'[e].status = "message_recorded" /\ row[e].status # "command_execution_started"
        /\ executed' = executed
    BY <1>7, FencedStep DEF FencedAction, Claims, effects
  <2>2. /\ Dispatch(row[e].kind) \in {"settle", "start", "guard", "busy"}
        /\ Dispatch(row[e].kind) = "start" <=> row[e].kind \in Commands
    BY DispatchStep DEF TypeOK, Row
  <2>3. ~Crossed(e) /\ ~Crossed(e)'
    BY <2>1 DEF Crossed, Holds, Claimed, Terminal
  <2>4. Executing(e)' \in SUBSET Executing(e)
    BY <1>2, <2>1, <2>2 DEF Executing
  <2>5. Cardinality(Executing(e)') <= Cardinality(Executing(e))
        /\ Cardinality(Executing(e)') \in Nat
    BY <1>4, <2>4, FewerExecuting
  <2>6. (executed[e] + Cardinality(Executing(e)) <= taken[e] + (IF Crossed(e) THEN 1 ELSE 0))'
    BY <1>3, <1>4, <2>1, <2>3, <2>5 DEF CommandAt
  <2> QED BY <1>2, <2>1, <2>2, <2>6 DEF CommandAt
<1>8. ASSUME ~Start(p, e), ~Execute(p, e), ~Record(p, e)
      PROVE  CommandQuiet(e)
  <2>1. executed' = executed
    BY <1>8, EffectsOf
  <2>2. /\ handler'[p][e].at \notin {"start", "execute"}
        /\ row[e].kind \in Commands => handler'[p][e].at \in {"none", "open", "record", "settle"}
        /\ row'[e].status = "command_execution_started" =>
               row[e].status = "command_execution_started"
        /\ row[e].status = "command_execution_started" =>
               row'[e].status \in Terminal \cup {"command_execution_started"}
    <3>1. CASE FencedAction(p, e)
      BY <1>8, <3>1, FencedStep DEF FencedAction, Claims, CommandAt, Terminal
    <3>2. CASE Unfenced(p, e)
      <4>1. /\ Free(p, e) => handler[p][e].at = "busy"
            /\ Respond(p, e) => handler[p][e].at = "respond"
            /\ Reply(p, e) => handler[p][e].at = "await"
            /\ Decide(p, e) => handler[p][e].at = "decide"
        BY DEF Free, Respond, Reply, Decide, At
      <4> QED BY <1>8, <3>2, <4>1, UnfencedStep DEF Unfenced, CommandAt
    <3>3. CASE Pick(p, e)
      BY <3>3, PickStep DEF Commands, Replies
    <3>4. CASE Mark(p, e)
      BY <3>4, MarkStep DEF CommandAt
    <3>5. CASE Guard(p, e)
      BY <3>5, GuardStep DEF CommandAt
    <3>6. CASE Decided(p, e)
      BY <3>6, DecidedStep DEF CommandAt
    <3>7. CASE Fail(p, e)
      BY <3>7, FailStep DEF Terminal
    <3> QED BY <1>8, <3>1, <3>2, <3>3, <3>4, <3>5, <3>6, <3>7, HandlerCases
  <2>3. Crossed(e) => Crossed(e)'
    BY <1>2, <2>2 DEF Crossed, Holds, Claimed, Terminal
  <2> QED BY <1>2, <1>3, <2>1, <2>2, <2>3 DEF CommandQuiet
<1> QED BY <1>5, <1>6, <1>7, <1>8, CommandKept

LEMMA CommandStep ==
    ASSUME TypeOK, AboutSome, NEW e \in Events, CommandAt(e), [Next]_vars
    PROVE  CommandAt(e)'
<1>1. CASE UNCHANGED vars
  BY <1>1, Stutter DEF CommandAt, Crossed, Executing
<1>2. ASSUME NEW d \in Events, NEW awaited \in BOOLEAN, Accept(d, awaited)
      PROVE  CommandQuiet(e)
  BY <1>2, AcceptStep DEF CommandQuiet, Crossed, effects, Absent, Terminal
<1>3. ASSUME NEW d \in Events, Stall(d) \/ Lapse(d) \/ BecomeDue(d)
      PROVE  CommandQuiet(e)
  BY <1>3, ClockStep DEF CommandQuiet, Crossed, effects, Keeps
<1>4. ASSUME NEW p \in Passes, StartDrain(p)
      PROVE  CommandQuiet(e)
  BY <1>4, StartDrainStep, ConstantsAssumption
  DEF CommandQuiet, Crossed, effects, Keeps, Expired, Claimed, Terminal
<1>5. ASSUME NEW p \in Passes, ClaimDue(p)
      PROVE  CommandAt(e)'
  <2>1. /\ Keeps(e) /\ UNCHANGED effects
        /\ handler[p][e].at = "none" /\ handler'[p][e].at \in {"none", "open"}
        /\ \A q \in Passes : q # p => handler'[q][e] = handler[q][e]
    BY <1>5, ClaimDueStep
  <2>2. CASE row'[e] = row[e] /\ taken'[e] = taken[e]
    <3> CommandQuiet(e)
      BY <2>1, <2>2 DEF CommandQuiet, Crossed, effects, Keeps
    <3> QED BY CommandKept
  <2>3. CASE ~(row'[e] = row[e] /\ taken'[e] = taken[e])
    <3>1. /\ Due(e, p) /\ row'[e].status = "processing" /\ row'[e].owner = p
          /\ taken'[e] = IF row[e].status = "command_execution_started"
                         THEN taken[e] + 1 ELSE taken[e]
      BY <1>5, <2>3, ClaimDueStep
    <3>2. Executing(e)' = Executing(e)
      BY <2>1 DEF Executing
    <3>3. Cardinality(Executing(e)) \in Nat /\ executed[e] \in Nat /\ taken[e] \in Nat
      BY FewerExecuting DEF Executing, TypeOK
    <3>4. ~Crossed(e)' /\ (Crossed(e) => row[e].status = "command_execution_started")
      BY <3>1 DEF Crossed, Due, Expired, Claimed, Terminal
    <3>5. (executed[e] + Cardinality(Executing(e)) <= taken[e] + (IF Crossed(e) THEN 1 ELSE 0))'
      BY <2>1, <3>1, <3>2, <3>3, <3>4 DEF CommandAt, effects
    <3> QED BY <2>1, <3>1, <3>5 DEF CommandAt, Keeps
  <2> QED BY <2>2, <2>3
<1>6. ASSUME NEW p \in Passes, NEW d \in Events, HandlerStep(p, d), d # e
      PROVE  CommandQuiet(e)
  BY <1>6, HandlerFrame, EffectsOf DEF CommandQuiet, Crossed, Frame
<1>7. CASE Crash
  <2> CommandQuiet(e)
    BY <1>7, CrashStep DEF CommandQuiet, Crossed
  <2> QED BY CommandKept
<1>8. CASE Outside
  <2> CommandQuiet(e)
    BY <1>8, OutsideStep DEF CommandQuiet, Crossed
  <2> QED BY CommandKept
<1> QED BY <1>1, <1>2, <1>3, <1>4, <1>5, <1>6, <1>7, <1>8, CommandKept, CommandHandlerStep, NextCases

LEMMA CommandInit == Init => \A e \in Events : CommandAt(e)
<1> SUFFICES ASSUME Init, NEW e \in Events PROVE CommandAt(e)
  OBVIOUS
<1>1. \A p \in Passes : handler[p][e].at = "none"
  BY DEF Init, Do
<1>2. Executing(e) = {}
  BY <1>1 DEF Executing
<1>3. Cardinality(Executing(e)) = 0
  BY <1>2, FS_EmptySet
<1>4. row[e].status = "absent" /\ executed[e] = 0 /\ taken[e] = 0
  BY DEF Init, Absent
<1> QED BY <1>1, <1>3, <1>4 DEF CommandAt, Crossed

LEMMA CommandAlways == Spec => [](\A e \in Events : CommandAt(e))
<1> DEFINE CommandInv == \A e \in Events : CommandAt(e)
<1>1. TypeOK /\ AboutSome /\ CommandInv /\ [Next]_vars => CommandInv'
  BY CommandStep
<1> QED BY <1>1, CommandInit, TypeAlways, PTL DEF Spec

(* A command runs at most once more than the times its row was claimed     *)
(* again after the side-effect boundary: recovery, errors and late         *)
(* handlers never repeat it (recoverExpiredStmt, processClaimSafely); the  *)
(* claim of an expired row by claimDue is the only way.                    *)
THEOREM CommandOncePerClaimHolds == Spec => []CommandOncePerClaim
<1>1. TypeOK /\ (\A e \in Events : CommandAt(e)) => CommandOncePerClaim
  <2> SUFFICES ASSUME TypeOK, NEW e \in Events, CommandAt(e)
               PROVE  executed[e] <= 1 + taken[e]
    BY DEF CommandOncePerClaim
  <2>1. Cardinality(Executing(e)) \in Nat /\ executed[e] \in Nat /\ taken[e] \in Nat
    BY FewerExecuting DEF Executing, TypeOK
  <2> QED BY <2>1 DEF CommandAt
<1> QED BY <1>1, CommandAlways, TypeAlways, PTL

-----------------------------------------------------------------------------
(* What a completed row stands for.                                        *)

TurnSteps == {"guard", "decide", "allowed", "barred", "recover", "suppress", "busy", "respond",
              "admit", "await", "enqueued"}

AfterIngest == TurnSteps \cup {"record", "start", "execute"}

TurnKinds == Replies \cup {"agent_turn", "desk"}

(* Where a handler comes from. *)
Flow(p, e) ==
    /\ handler'[p][e].at \in TurnSteps =>
           \/ handler[p][e].at \in TurnSteps
           \/ Record(p, e) /\ row[e].kind \in TurnKinds
    /\ handler'[p][e].at \in {"mark", "answer", "ingest"} => Pick(p, e) \/ Mark(p, e)
    /\ handler'[p][e].at = "mark" => Pick(p, e)
    /\ handler'[p][e].at = "ingest" => Pick(p, e)
    /\ handler'[p][e].at = "record" => Ingest(p, e)
    /\ handler'[p][e].at \in AfterIngest => handler[p][e].at \in AfterIngest \/ Ingest(p, e)
    /\ handler'[p][e].at = "settle" =>
           \/ Pick(p, e) \/ Answer(p, e) \/ Stop(p, e) \/ Execute(p, e) \/ Enqueued(p, e)
           \/ Record(p, e) /\ row[e].kind = "record_only"
    /\ handler'[p][e].at = "enqueued" => Reply(p, e)
    /\ row'[e].status = "completed" => Settle(p, e) \/ row'[e] = row[e]
    /\ row'[e].mark # row[e].mark => Mark(p, e)

LEMMA FlowStep ==
    ASSUME TypeOK, AboutSome, NEW p \in Passes, NEW e \in Events, HandlerStep(p, e)
    PROVE  Flow(p, e)
<1> USE DEF Flow
<1>1. CASE FencedAction(p, e)
  <2>1. /\ Dispatch(row[e].kind) \in {"settle", "start", "guard", "busy"}
        /\ Dispatch(row[e].kind) = "busy" <=> row[e].kind = "desk"
        /\ Dispatch(row[e].kind) = "guard" <=> row[e].kind \in Replies \cup {"agent_turn"}
        /\ Dispatch(row[e].kind) = "settle" <=> row[e].kind = "record_only"
    BY DispatchStep DEF TypeOK, Row
  <2>2. CASE Record(p, e)
    <3>1. /\ handler[p][e].at = "record" /\ row'[e].status = "message_recorded"
          /\ handler'[p][e].at = Dispatch(row[e].kind) /\ row'[e].mark = row[e].mark
      BY <1>1, <2>2, FencedStep DEF Claims
    <3> QED BY <2>1, <2>2, <3>1 DEF TurnSteps, AfterIngest, TurnKinds
  <2>3. CASE ~Record(p, e)
    BY <1>1, <2>3, FencedStep DEF FencedAction, Claims, TurnSteps, AfterIngest
  <2> QED BY <2>2, <2>3
<1>2. CASE Unfenced(p, e)
  <2>1. /\ Free(p, e) => handler[p][e].at = "busy"
        /\ Respond(p, e) => handler[p][e].at = "respond"
        /\ Reply(p, e) => handler[p][e].at = "await"
        /\ Decide(p, e) => handler[p][e].at = "decide"
    BY DEF Free, Respond, Reply, Decide, At
  <2> QED BY <1>2, <2>1, UnfencedStep DEF Unfenced, TurnSteps, AfterIngest
<1>3. CASE Pick(p, e)
  BY <1>3, PickStep DEF TurnSteps, AfterIngest
<1>4. CASE Mark(p, e)
  BY <1>4, MarkStep DEF TurnSteps, AfterIngest
<1>5. CASE Guard(p, e)
  <2>1. row'[e].status # "completed"
    BY <1>5, GuardStep DEF Holds, Claimed
  <2> QED BY <1>5, <2>1, GuardStep DEF TurnSteps, AfterIngest
<1>6. CASE Decided(p, e)
  <2>1. row'[e].status # "completed"
    BY <1>6, DecidedStep DEF Holds, Claimed
  <2> QED BY <1>6, <2>1, DecidedStep DEF TurnSteps, AfterIngest
<1>7. CASE Fail(p, e)
  BY <1>7, FailStep DEF TurnSteps, AfterIngest
<1> QED BY <1>1, <1>2, <1>3, <1>4, <1>5, <1>6, <1>7, HandlerCases

DoneAt(e) ==
    /\ \A p \in Passes :
           /\ handler[p][e].at \in {"mark", "answer", "ingest"} => row[e].kind \in Replies
           /\ handler[p][e].at \in TurnSteps => row[e].kind \in TurnKinds
           /\ handler[p][e].at \in AfterIngest => e \in ingested
           /\ handler[p][e].at = "enqueued" => e \in delivered
           /\ handler[p][e].at = "settle" =>
                  /\ row[e].kind \notin Replies => e \in ingested
                  /\ row[e].kind \in Commands => executed[e] > 0
                  /\ row[e].kind \in {"agent_turn", "desk"} => e \in delivered
    /\ turn[e] # "none" => row[e].kind \in TurnKinds
    /\ row[e].status = "completed" =>
           /\ e \in ingested \/ row[e].kind \in Replies
           /\ row[e].kind \in Commands => executed[e] > 0
           /\ row[e].kind \in {"agent_turn", "desk"} => e \in delivered

LEMMA DoneHandlerStep ==
    ASSUME TypeOK, AboutSome, NEW p \in Passes, NEW e \in Events, DoneAt(e), CommandAt(e),
           HandlerStep(p, e)
    PROVE  DoneAt(e)'
<1>1. Frame(p, e) /\ Flow(p, e)
  BY HandlerFrame, FlowStep
<1>2. /\ \A q \in Passes : q # p => handler'[q][e] = handler[q][e]
      /\ row'[e].kind = row[e].kind
  BY <1>1 DEF Frame
<1>3. executed[e] \in Nat /\ executed'[e] \in Nat /\ executed'[e] >= executed[e]
      /\ (Execute(p, e) => executed'[e] > 0)
  <2>1. CASE Execute(p, e)
    BY <2>1 DEF Execute, TypeOK
  <2>2. CASE ~Execute(p, e)
    <3>1. executed' = executed /\ executed[e] \in Nat
      BY <2>2, EffectsOf DEF TypeOK
    <3> QED BY <2>2, <3>1
  <2> QED BY <2>1, <2>2
<1>4. /\ e \in ingested => e \in ingested'
      /\ e \in delivered => e \in delivered'
      /\ Ingest(p, e) => e \in ingested'
      /\ Reply(p, e) => e \in delivered'
  BY EffectsOf DEF Ingest, Reply
<1>5. turn'[e] # "none" => turn[e] # "none" \/ handler[p][e].at = "respond"
  <2>1. CASE Respond(p, e)
    BY <2>1 DEF Respond, At
  <2>2. CASE ~Respond(p, e)
    BY <2>2, EffectsOf
  <2> QED BY <2>1, <2>2
<1>6. turn'[e] # "none" => row'[e].kind \in TurnKinds
  BY <1>2, <1>5 DEF DoneAt, TurnSteps
<1>7. /\ Pick(p, e) => row[e].kind \in Replies
      /\ Mark(p, e) => handler[p][e].at = "mark"
      /\ Answer(p, e) \/ Stop(p, e) => handler[p][e].at = "answer"
      /\ Execute(p, e) => handler[p][e].at = "execute"
      /\ Enqueued(p, e) => handler[p][e].at = "enqueued"
      /\ Settle(p, e) => handler[p][e].at = "settle"
      /\ Record(p, e) => handler[p][e].at = "record"
  BY DEF Pick, Mark, Answer, Stop, Execute, Enqueued, Settle, Record, Transition, At
<1>8. handler'[p][e].at \in {"mark", "answer", "ingest"} => row[e].kind \in Replies
  BY <1>1, <1>7 DEF Flow, DoneAt
<1>9. handler'[p][e].at \in TurnSteps => row[e].kind \in TurnKinds
  BY <1>1 DEF Flow, DoneAt
<1>10. handler'[p][e].at \in AfterIngest => e \in ingested'
  BY <1>1, <1>4 DEF Flow, DoneAt
<1>11. handler'[p][e].at = "enqueued" => e \in delivered'
  BY <1>1, <1>4 DEF Flow
<1>12. ASSUME handler'[p][e].at = "settle"
       PROVE  /\ row[e].kind \notin Replies => e \in ingested'
              /\ row[e].kind \in Commands => executed'[e] > 0
              /\ row[e].kind \in {"agent_turn", "desk"} => e \in delivered'
  <2>1. CASE Pick(p, e) \/ Answer(p, e) \/ Stop(p, e)
    BY <1>7, <2>1 DEF DoneAt, Commands, Replies
  <2>2. CASE Execute(p, e)
    <3>1. row[e].kind \in Commands /\ e \in ingested
      BY <1>7, <2>2 DEF CommandAt, DoneAt, AfterIngest
    <3> QED BY <1>3, <1>4, <2>2, <3>1 DEF Commands
  <2>3. CASE Enqueued(p, e)
    <3>1. row[e].kind \notin Commands /\ e \in ingested /\ e \in delivered
      BY <1>7, <2>3 DEF CommandAt, DoneAt, AfterIngest, TurnSteps
    <3> QED BY <1>4, <3>1
  <2>4. CASE Record(p, e) /\ row[e].kind = "record_only"
    BY <1>4, <1>7, <2>4 DEF DoneAt, AfterIngest, Commands
  <2> QED BY <1>1, <1>12, <2>1, <2>2, <2>3, <2>4 DEF Flow
<1>13. row'[e].status = "completed" =>
           /\ e \in ingested' \/ row[e].kind \in Replies
           /\ row[e].kind \in Commands => executed'[e] > 0
           /\ row[e].kind \in {"agent_turn", "desk"} => e \in delivered'
  BY <1>1, <1>3, <1>4, <1>7 DEF Flow, DoneAt
<1>14. ASSUME NEW q \in Passes, q # p
       PROVE  /\ handler'[q][e].at \in {"mark", "answer", "ingest"} => row'[e].kind \in Replies
              /\ handler'[q][e].at \in TurnSteps => row'[e].kind \in TurnKinds
              /\ handler'[q][e].at \in AfterIngest => e \in ingested'
              /\ handler'[q][e].at = "enqueued" => e \in delivered'
              /\ handler'[q][e].at = "settle" =>
                    /\ row'[e].kind \notin Replies => e \in ingested'
                    /\ row'[e].kind \in Commands => executed'[e] > 0
                    /\ row'[e].kind \in {"agent_turn", "desk"} => e \in delivered'
  BY <1>2, <1>3, <1>4, <1>14 DEF DoneAt
<1> QED BY <1>2, <1>6, <1>8, <1>9, <1>10, <1>11, <1>12, <1>13, <1>14 DEF DoneAt

(* A step that does nothing for e but move its row, or end or open its     *)
(* handlers.                                                               *)
DoneQuiet(e) ==
    /\ row'[e].kind = row[e].kind
    /\ row'[e].status = "completed" => row[e].status = "completed"
    /\ executed'[e] = executed[e]
    /\ e \in ingested' <=> e \in ingested
    /\ e \in delivered' <=> e \in delivered
    /\ turn[e] = "none" => turn'[e] = "none"
    /\ \A p \in Passes : handler'[p][e].at \in {"none", "open"} \/ handler'[p][e] = handler[p][e]

LEMMA DoneKept ==
    ASSUME NEW e \in Events, DoneAt(e), DoneQuiet(e)
    PROVE  DoneAt(e)'
BY DEF DoneAt, DoneQuiet, TurnSteps, AfterIngest

LEMMA QuietSteps ==
    ASSUME TypeOK, AboutSome, NEW e \in Events, Next
    PROVE  DoneQuiet(e) \/ \E p \in Passes : HandlerStep(p, e)
<1>1. ASSUME NEW d \in Events, NEW awaited \in BOOLEAN, Accept(d, awaited)
      PROVE  DoneQuiet(e)
  BY <1>1, AcceptStep DEF DoneQuiet, effects
<1>2. ASSUME NEW d \in Events, Stall(d) \/ Lapse(d) \/ BecomeDue(d)
      PROVE  DoneQuiet(e)
  BY <1>2, ClockStep DEF DoneQuiet, effects, Keeps
<1>3. ASSUME NEW p \in Passes, StartDrain(p)
      PROVE  DoneQuiet(e)
  BY <1>3, StartDrainStep DEF DoneQuiet, effects, Keeps
<1>4. ASSUME NEW p \in Passes, ClaimDue(p)
      PROVE  DoneQuiet(e)
  BY <1>4, ClaimDueStep DEF DoneQuiet, effects, Keeps
<1>5. ASSUME NEW p \in Passes, NEW d \in Events, HandlerStep(p, d), d # e
      PROVE  DoneQuiet(e)
  BY <1>5, HandlerFrame, EffectsOf DEF DoneQuiet, Frame
<1>6. CASE Crash
  BY <1>6, CrashStep DEF DoneQuiet
<1>7. CASE Outside
  BY <1>7, OutsideStep DEF DoneQuiet
<1> QED BY <1>1, <1>2, <1>3, <1>4, <1>5, <1>6, <1>7, NextCases

LEMMA DoneStep ==
    ASSUME TypeOK, AboutSome, NEW e \in Events, DoneAt(e), CommandAt(e), [Next]_vars
    PROVE  DoneAt(e)'
<1>1. CASE UNCHANGED vars
  BY <1>1, Stutter DEF DoneAt
<1>2. CASE Next
  BY <1>2, QuietSteps, DoneKept, DoneHandlerStep
<1> QED BY <1>1, <1>2

-----------------------------------------------------------------------------
(* Replies that became Chat.  A reply is an answer or a turn, never both:  *)
(* what makes it an answer cannot come true after it was recorded, because *)
(* an approval asked for later has a larger number.                        *)

(* An answer to no approval, in its conversation's lane. *)
Plain(e) == row[e].mark = 0 /\ PendingFor(e) = 0 /\ ~ControlLane(row[e])

(* A handler of e is on its way to a turn, or has been. *)
Launched(e) == turn[e] # "none" \/ \E p \in Passes : handler[p][e].at \in TurnSteps

ReplyAt(e) ==
    /\ row[e].asks <= asks
    /\ row[e].status = Absent => ~Launched(e)
    /\ row[e].kind \in Replies =>
           /\ Launched(e) =>
                  Plain(e) /\ \A p \in Passes : handler[p][e].at = "mark" => row[e].owner # p
           /\ \A p \in Passes : row[e].owner = p =>
                  /\ handler[p][e].at \in {"ingest", "record"} => Plain(e)
                  /\ handler[p][e].at = "settle" => e \in delivered \/ ~Launched(e)
           /\ row[e].status = "completed" => e \in delivered \/ ~Launched(e)

LEMMA PlainKept ==
    ASSUME TypeOK, TypeOK', NEW e \in Events, ErrandMoves, Plain(e), row[e].asks <= asks,
           row'[e].mark = row[e].mark, row'[e].asks = row[e].asks, row'[e].lane = row[e].lane,
           row'[e].awaited = row[e].awaited
    PROVE  Plain(e)'
<1> DEFINE a == asked[row[e].lane]
           b == asked'[row[e].lane]
<1>1. /\ a \in Nat /\ b \in Nat /\ row[e].asks \in Nat /\ asks \in Nat /\ row[e].lane \in Lanes
  BY ConstantsAssumption DEF TypeOK, Row
<1>2. b \in {a, 0} \/ b > asks
  BY <1>1 DEF ErrandMoves
<1>3. a = 0 \/ ~(a <= row[e].asks)
  BY DEF Plain, PendingFor
<1>4. b = 0 \/ ~(b <= row[e].asks)
  BY <1>1, <1>2, <1>3
<1>5. PendingFor(e)' = 0
  BY <1>4 DEF PendingFor
<1> QED BY <1>5 DEF Plain, ControlLane

(* A step of the queue, of the conversation or of another event's handler. *)
ReplyQuiet(e) ==
    /\ DoneQuiet(e)
    /\ row'[e].mark = row[e].mark /\ row'[e].asks = row[e].asks
    /\ row'[e].lane = row[e].lane /\ row'[e].awaited = row[e].awaited
    /\ row'[e].status = Absent => row[e].status = Absent
    /\ \A p \in Passes : row'[e].owner = p /\ handler'[p][e].at \notin {"none", "open"} =>
           row[e].owner = p

LEMMA ReplyKept ==
    ASSUME TypeOK, NEW e \in Events, ErrandMoves, TypeOK', ReplyAt(e), ReplyQuiet(e)
    PROVE  ReplyAt(e)'
<1>1. asks \in Nat /\ asks' \in Nat /\ row[e].asks \in Nat
  BY ConstantsAssumption DEF TypeOK, Row
<1>2. Launched(e)' => Launched(e)
  BY DEF Launched, ReplyQuiet, DoneQuiet, TurnSteps
<1>3. Plain(e) => Plain(e)'
  BY PlainKept DEF ReplyQuiet, ReplyAt
<1>4. row'[e].asks <= asks'
  BY <1>1 DEF ReplyQuiet, ReplyAt, ErrandMoves
<1> QED BY <1>2, <1>3, <1>4 DEF ReplyAt, ReplyQuiet, DoneQuiet

LEMMA ReplyHandlerStep ==
    ASSUME TypeOK, AboutSome, NEW p \in Passes, NEW e \in Events, HandlerStep(p, e), ErrandMoves,
           AnswerAt(e), CommandAt(e), DoneAt(e), ReplyAt(e)
    PROVE  ReplyAt(e)'
<1>1. Frame(p, e) /\ Flow(p, e) /\ TypeOK'
  BY HandlerFrame, FlowStep
<1>2. /\ \A q \in Passes : q # p => handler'[q][e] = handler[q][e]
      /\ row'[e].kind = row[e].kind /\ row'[e].lane = row[e].lane
      /\ row'[e].awaited = row[e].awaited /\ row'[e].asks = row[e].asks
      /\ \A q \in Passes : row'[e].owner = q => row[e].owner = q
      /\ row[e].status # Absent /\ row'[e].status # Absent
  BY <1>1, HandlerActive, ConstantsAssumption DEF Frame, AnswerAt
<1>3. /\ Pick(p, e) => UNCHANGED <<row, turn>>
      /\ Mark(p, e) => handler[p][e].at = "mark" /\ row[e].owner = p
      /\ Record(p, e) => handler[p][e].at = "record" /\ Holds(p, e) /\ row'[e].status \in Claimed
      /\ Settle(p, e) => handler[p][e].at = "settle" /\ row[e].owner = p
      /\ Enqueued(p, e) => handler[p][e].at = "enqueued"
      /\ Execute(p, e) => handler[p][e].at = "execute"
      /\ Answer(p, e) \/ Stop(p, e) => handler[p][e].at = "answer" /\ UNCHANGED row
      /\ Ingest(p, e) => UNCHANGED row /\ handler[p][e].at \in {"ingest", "open"}
      /\ Ingest(p, e) /\ row[e].kind \in Replies => handler[p][e].at = "ingest"
  <2>1. Record(p, e) => row'[e].status = "message_recorded"
    BY FencedStep DEF FencedAction, Claims
  <2>2. Pick(p, e) => UNCHANGED <<row, turn>>
    BY PickStep DEF effects
  <2> QED BY <2>1, <2>2 DEF Mark, Record, Settle, Enqueued, Execute, Answer, Stop, Ingest, Transition,
                            At, Holds, Claimed
<1>4. e \in delivered => e \in delivered'
  BY EffectsOf
<1>5. Launched(e)' => Launched(e) \/ Record(p, e)
  <2>1. turn'[e] # "none" => turn[e] # "none" \/ handler[p][e].at = "respond"
    <3>1. CASE Respond(p, e)
      BY <3>1 DEF Respond, At
    <3>2. CASE ~Respond(p, e)
      BY <3>2, EffectsOf
    <3> QED BY <3>1, <3>2
  <2> QED BY <1>1, <1>2, <2>1 DEF Launched, Flow, TurnSteps
<1>6. asks \in Nat /\ asks' \in Nat /\ row[e].asks \in Nat /\ row[e].asks <= asks
  BY <1>1, ConstantsAssumption DEF TypeOK, Row, ReplyAt
<1>7. row'[e].asks <= asks'
  BY <1>2, <1>6 DEF ErrandMoves
<1>8. CASE row[e].kind \notin Replies
  BY <1>2, <1>7, <1>8 DEF ReplyAt
<1>9. CASE row[e].kind \in Replies
  <2>1. Plain(e) /\ ~Mark(p, e) => Plain(e)'
    BY <1>1, <1>2, <1>6, PlainKept DEF Flow
  <2>2. Launched(e) => ~Mark(p, e)
    BY <1>3, <1>9 DEF ReplyAt
  <2>3. Record(p, e) => Plain(e) /\ ~Mark(p, e) /\ row[e].owner = p
    BY <1>3, <1>9 DEF ReplyAt, Holds
  <2>4. Launched(e)' => Plain(e) /\ Plain(e)'
    BY <1>5, <1>9, <2>1, <2>2, <2>3 DEF ReplyAt
  <2>5. ASSUME Launched(e)', NEW q \in Passes, handler'[q][e].at = "mark"
        PROVE  row'[e].owner # q
    <3>1. CASE q = p
      <4>1. Pick(p, e)
        BY <1>1, <2>5, <3>1 DEF Flow
      <4> QED BY <2>4, <2>5, <3>1, <4>1, PickStep DEF Plain
    <3>2. CASE q # p
      BY <1>2, <1>5, <1>9, <2>3, <2>5, <3>2 DEF ReplyAt
    <3> QED BY <3>1, <3>2
  <2>6. ASSUME NEW q \in Passes, row'[e].owner = q, handler'[q][e].at \in {"ingest", "record"}
        PROVE  Plain(e)'
    <3>1. CASE q = p
      <4>1. CASE Pick(p, e)
        <5>1. handler'[p][e].at = "ingest"
          BY <2>6, <3>1, <4>1, PickStep
        <5>2. Plain(e) /\ UNCHANGED effects
          BY <4>1, <5>1, PickStep DEF Plain
        <5> QED BY <1>3, <4>1, <5>2 DEF Plain, PendingFor, effects, errand
      <4>2. CASE Ingest(p, e)
        <5>1. handler[p][e].at = "ingest" /\ row[e].owner = p
          BY <1>2, <1>3, <1>9, <2>6, <3>1, <4>2
        <5>2. Plain(e) /\ ~Mark(p, e)
          BY <1>3, <1>9, <5>1 DEF ReplyAt
        <5> QED BY <2>1, <5>2
      <4> QED BY <1>1, <2>6, <3>1, <4>1, <4>2 DEF Flow
    <3>2. CASE q # p
      <4>1. Plain(e) /\ ~Mark(p, e)
        BY <1>2, <1>3, <1>9, <2>6, <3>2 DEF ReplyAt
      <4> QED BY <2>1, <4>1
    <3> QED BY <3>1, <3>2
  <2>7. ASSUME NEW q \in Passes, row'[e].owner = q, handler'[q][e].at = "settle"
        PROVE  e \in delivered' \/ ~Launched(e)'
    <3>1. CASE q = p
      <4>1. CASE Pick(p, e)
        <5>1. ~Plain(e)
          BY <2>7, <3>1, <4>1, PickStep DEF Plain
        <5> QED BY <2>4, <5>1
      <4>2. CASE Answer(p, e) \/ Stop(p, e)
        <5>1. row[e].mark # 0
          BY <1>3, <4>2 DEF AnswerAt, AboutSome
        <5> QED BY <2>4, <5>1 DEF Plain
      <4>3. CASE Enqueued(p, e)
        BY <1>3, <1>4, <4>3 DEF DoneAt
      <4>4. CASE Execute(p, e)
        BY <1>3, <1>9, <4>4 DEF CommandAt, Commands, Replies
      <4> QED BY <1>1, <1>9, <2>7, <3>1, <4>1, <4>2, <4>3, <4>4 DEF Flow, Replies
    <3>2. CASE q # p
      BY <1>2, <1>4, <1>5, <1>9, <2>3, <2>7, <3>2 DEF ReplyAt
    <3> QED BY <3>1, <3>2
  <2>8. ASSUME row'[e].status = "completed"
        PROVE  e \in delivered' \/ ~Launched(e)'
    <3>1. ~Record(p, e)
      BY <1>3, <2>8 DEF Claimed
    <3>2. CASE Settle(p, e)
      BY <1>3, <1>4, <1>5, <1>9, <3>1, <3>2 DEF ReplyAt
    <3>3. CASE row'[e] = row[e]
      BY <1>4, <1>5, <1>9, <2>8, <3>1, <3>3 DEF ReplyAt
    <3> QED BY <1>1, <2>8, <3>2, <3>3 DEF Flow
  <2> QED BY <1>2, <1>7, <2>4, <2>5, <2>6, <2>7, <2>8 DEF ReplyAt
<1> QED BY <1>8, <1>9

LEMMA ReplyStep ==
    ASSUME TypeOK, TypeOK', AboutSome, NEW e \in Events, AnswerAt(e), CommandAt(e), DoneAt(e),
           ReplyAt(e), [Next]_vars
    PROVE  ReplyAt(e)'
<1>1. CASE UNCHANGED vars
  BY <1>1, Stutter DEF ReplyAt, Launched, Plain, PendingFor, ControlLane
<1>2. CASE Next
  <2>1. ErrandMoves /\ (DoneQuiet(e) \/ \E p \in Passes : HandlerStep(p, e))
    BY <1>2, ErrandSteps, QuietSteps
  <2>2. ASSUME NEW d \in Events, NEW awaited \in BOOLEAN, Accept(d, awaited)
        PROVE  ReplyAt(e)'
    <3>1. CASE d # e
      <4>1. ReplyQuiet(e)
        BY <2>2, <3>1, AcceptStep DEF ReplyQuiet, DoneQuiet, effects
      <4> QED BY <2>1, <4>1, ReplyKept
    <3>2. CASE d = e
      <4>1. /\ ~Launched(e) /\ UNCHANGED <<handler, turn>> /\ row'[e].status = "accepted"
            /\ \A p \in Passes : handler[p][e].at = "none"
        BY <2>2, <3>2, AcceptStep DEF ReplyAt, AnswerAt, effects
      <4>2. row'[e].asks = asks /\ asks' = asks /\ asks \in Nat
        BY <2>2, <3>2, ConstantsAssumption DEF Accept, TypeOK, Row, effects, errand
      <4>3. ~Launched(e)'
        BY <4>1 DEF Launched
      <4> QED BY <4>1, <4>2, <4>3 DEF ReplyAt, Absent
    <3> QED BY <3>1, <3>2
  <2>3. ASSUME NEW d \in Events, Stall(d) \/ Lapse(d) \/ BecomeDue(d)
        PROVE  ReplyQuiet(e)
    BY <2>3, ClockStep DEF ReplyQuiet, DoneQuiet, effects, Keeps
  <2>4. ASSUME NEW p \in Passes, StartDrain(p)
        PROVE  ReplyQuiet(e)
    BY <2>4, StartDrainStep, ConstantsAssumption DEF ReplyQuiet, DoneQuiet, effects, Keeps, Absent
  <2>5. ASSUME NEW p \in Passes, ClaimDue(p)
        PROVE  ReplyQuiet(e)
    BY <2>5, ClaimDueStep DEF ReplyQuiet, DoneQuiet, effects, Keeps, Absent
  <2>6. ASSUME NEW p \in Passes, NEW d \in Events, HandlerStep(p, d), d # e
        PROVE  ReplyQuiet(e)
    BY <2>6, HandlerFrame, EffectsOf DEF ReplyQuiet, DoneQuiet, Frame
  <2>7. CASE Crash
    <3> ReplyQuiet(e)
      BY <2>7, CrashStep DEF ReplyQuiet, DoneQuiet
    <3> QED BY <2>1, ReplyKept
  <2>8. CASE Outside
    <3> ReplyQuiet(e)
      BY <2>8, OutsideStep DEF ReplyQuiet, DoneQuiet
    <3> QED BY <2>1, ReplyKept
  <2>9. ASSUME NEW p \in Passes, HandlerStep(p, e)
        PROVE  ReplyAt(e)'
    BY <2>1, <2>9, ReplyHandlerStep
  <2>10. ReplyQuiet(e) => ReplyAt(e)'
    BY <2>1, ReplyKept
  <2> QED BY <1>2, <2>2, <2>3, <2>4, <2>5, <2>6, <2>7, <2>8, <2>9, <2>10, NextCases
<1> QED BY <1>1, <1>2

LEMMA DoneInit == Init => \A e \in Events : DoneAt(e) /\ ReplyAt(e)
<1> SUFFICES ASSUME Init, NEW e \in Events PROVE DoneAt(e) /\ ReplyAt(e)
  OBVIOUS
<1>1. \A p \in Passes : handler[p][e].at = "none"
  BY DEF Init, Do
<1>2. row[e].status = "absent" /\ turn[e] = "none" /\ row[e].asks = 0 /\ asks = 0
  BY DEF Init, Absent
<1>3. ~Launched(e)
  BY <1>1, <1>2 DEF Launched, TurnSteps
<1> QED BY <1>1, <1>2, <1>3 DEF DoneAt, ReplyAt, TurnSteps, AfterIngest

(* A completed row means what it says: the message is recorded or was an   *)
(* answer, the command ran, and the turn's reply is in the outbox, however *)
(* often the event was claimed again by another pass (processClaim,        *)
(* answerErrandReply, transitionClaimed).                                  *)
THEOREM CompletedMeansDoneHolds == Spec => []CompletedMeansDone
<1> DEFINE Inv == \A e \in Events : DoneAt(e) /\ ReplyAt(e)
           Answering == \A e \in Events : AnswerAt(e)
           Commanding == \A e \in Events : CommandAt(e)
<1>1. TypeOK /\ TypeOK' /\ AboutSome /\ Answering /\ Commanding /\ Inv /\ [Next]_vars => Inv'
  BY DoneStep, ReplyStep
<1>2. Inv => CompletedMeansDone
  <2> SUFFICES ASSUME NEW e \in Events, DoneAt(e), ReplyAt(e), row[e].status = "completed"
               PROVE  /\ e \in ingested \/ row[e].kind \in Replies
                      /\ row[e].kind \in Commands => executed[e] > 0
                      /\ row[e].kind \in {"agent_turn", "desk"} \/ turn[e] # "none" =>
                             e \in delivered
    BY DEF CompletedMeansDone
  <2>1. turn[e] # "none" => row[e].kind \in TurnKinds /\ Launched(e)
    BY DEF DoneAt, Launched
  <2> QED BY <2>1 DEF DoneAt, ReplyAt, TurnKinds
<1>3. Init => Inv
  BY DoneInit
<1> HIDE DEF Inv, Answering, Commanding
<1>4. Spec => []Answering
  BY AnswerAlways DEF Answering
<1>5. Spec => []Commanding
  BY CommandAlways DEF Commanding
<1> QED BY <1>1, <1>2, <1>3, <1>4, <1>5, TypeAlways, PTL DEF Spec
=============================================================================
