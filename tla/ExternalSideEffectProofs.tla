---------------------- MODULE ExternalSideEffectProofs ----------------------
(****************************************************************************)
(* Proofs about ExternalSideEffect, for any number of attempts, payloads,   *)
(* leases and tokens.  At most once rests on DispatchInv: while a call is   *)
(* about to be made, or has been made, the mutation row is marked and no    *)
(* attempt that has not crossed the boundary holds its token.               *)
(****************************************************************************)
EXTENDS ExternalSideEffect, TLAPS

(* Attempts that crossed the boundary and have not called the provider yet. *)
Crossing(r) == At(r, "mirror") \/ At(r, "send")

Crossed == sends > 0 \/ \E r \in Runners : Crossing(r)

(* Attempts that have a claim and have not crossed the boundary.            *)
Before(r) == At(r, "record") \/ At(r, "withdraw") \/ At(r, "execute")

(* Tokens are issued once, and no two attempts hold the same one.           *)
TokensIssued ==
    /\ mut # NoRow => mut.token \in 1 .. tokens
    /\ \A r \in Runners : runner[r] # Idle => runner[r].token <= tokens
    /\ \A r, s \in Runners :
          runner[r] # Idle /\ runner[s] # Idle /\ runner[r].token = runner[s].token
          /\ runner[r].token # 0 => r = s

(* Once its claim is recorded an attempt has a ledger row.                  *)
LedgerExists ==
    \A r \in Runners : runner[r] # Idle /\ runner[r].pc # "record" => ledger # NoRow

(* One attempt crosses, and only before the first call.                     *)
OneCrossing ==
    \A r \in Runners : Crossing(r) =>
        sends = 0 /\ \A s \in Runners : Crossing(s) => s = r

CrossedIsMarked ==
    Crossed =>
        /\ mut # NoRow
        /\ mut.status # "failed"
        /\ mut.status = "pending" =>
              mut.dispatched /\ \A r \in Runners : Before(r) => runner[r].token # mut.token

DispatchInv ==
    /\ TypeOK
    /\ LedgerExists
    /\ TokensIssued
    /\ ~ KeyEnforced => OneCrossing /\ CrossedIsMarked /\ sends <= 1

(* What an attempt of a strict caller can be.                               *)
StrictAttempt(x) ==
    /\ x.strict
    /\ x.pc \in {"replay", "execute", "send", "answer", "failing"}
    /\ x.pc = "execute" => ~ x.recorded

StrictAttempts == \A r \in Runners : runner[r] # Idle => StrictAttempt(runner[r])

AgreeInv == DispatchInv /\ StrictAttempts /\ LedgersAgree

Beyond == ledger # NoRow /\ ledger.status \in {"external_call_started",
                             "unknown_external_outcome", "completed"}

(* An attempt that proved it did not call, about to reopen the ledger.      *)
Proven(r) == At(r, "failing") /\ ~ runner[r].manual /\ runner[r].recorded

RecoveryInv ==
    /\ Crossed => Beyond
    /\ \A r \in Runners : Proven(r) =>
          ~ Crossed /\ Beyond /\ \A s \in Runners : Proven(s) => s = r

-----------------------------------------------------------------------------
(* The rows and attempts that the actions write have their types.           *)

LedgerStatuses == {"claimed_not_sent", "external_call_started", "completed",
                   "failed_before_boundary", "unknown_external_outcome",
                   "blocked_duplicate", "payload_mismatch", "idempotency_unavailable"}

(* A ledger row moved to another status keeps its type and its payload.     *)
LEMMA MarkedType ==
    ASSUME TypeOK, ledger # NoRow, NEW s \in LedgerStatuses
    PROVE  Marked(s) \in Ledger /\ Marked(s).status = s /\ Marked(s).payload = ledger.payload
BY DEF TypeOK, Marked, Ledger, LedgerStatuses

(* So does a first record.                                                  *)
LEMMA RowType ==
    ASSUME TypeOK, NEW s \in LedgerStatuses, NEW p \in Payloads
    PROVE  Row(s, p) \in Ledger /\ Row(s, p).status = s /\ Row(s, p).payload = p
BY DEF TypeOK, Row, Ledger, LedgerStatuses

(* A settled mutation row keeps its type, its token and its payload.        *)
LEMMA SettledType ==
    ASSUME TypeOK, mut # NoRow,
           NEW s \in {"completed", "failed", "unknown_after_send"}
    PROVE  /\ Settled(s) \in Mutation
           /\ Settled(s).status = s
           /\ Settled(s).token = mut.token
           /\ Settled(s).payload = mut.payload
BY DEF TypeOK, Settled, Mutation

(* What each verdict of a claim says of the mutation row it found.          *)
LEMMA VerdictFacts ==
    ASSUME TypeOK, NEW p \in Payloads
    PROVE  /\ Verdict(p) \in {"new", "payload_mismatch", "duplicate", "unknown_after_send",
                             "revive", "in_progress", "settle", "takeover"}
           /\ Verdict(p) = "new" => mut = NoRow
           /\ Verdict(p) # "new" => mut # NoRow
           /\ Verdict(p) = "revive" => mut.status = "failed"
           /\ Verdict(p) \in {"settle", "takeover"} => mut.status = "pending"
           /\ Verdict(p) = "takeover" => KeyEnforced \/ ~ mut.dispatched
           /\ Verdict(p) = "settle" => mut.dispatched
BY DEF TypeOK, Verdict, StaleDispatched, Mutation

(* An attempt proceeds exactly on the verdicts that claim the key.          *)
LEMMA OutcomeFacts ==
    ASSUME TypeOK, NEW p \in Payloads
    PROVE  /\ Outcome(p) \in Outcomes
           /\ Outcome(p) = "claimed" <=> Verdict(p) \in Claims
BY VerdictFacts DEF Outcome, Outcomes, Claims

(* The ledger row that a claim leaves behind is a ledger row.               *)
LEMMA RecordedType ==
    ASSUME TypeOK, NEW o \in Outcomes, NEW p \in Payloads
    PROVE  Recorded(o, p) \in Ledger
<1>1. FirstStatus(o) \in LedgerStatuses
  BY DEF FirstStatus, LedgerStatuses
<1>2. Row(FirstStatus(o), p) \in Ledger
  BY <1>1, RowType
<1>3. ledger # NoRow => /\ ledger \in Ledger
                       /\ Marked("claimed_not_sent") \in Ledger
                       /\ Marked("unknown_external_outcome") \in Ledger
  BY MarkedType DEF TypeOK, LedgerStatuses
<1> QED
  BY <1>2, <1>3 DEF Recorded

(* A claim writes a pending row, or an unknown one, under a fresh token, or *)
(* nothing.                                                                 *)
LEMMA ClaimedType ==
    ASSUME TypeOK, NEW p \in Payloads, NEW lease \in Nat
    PROVE  /\ Claimed(p, lease) \in Mutation \cup {NoRow}
           /\ Verdict(p) \in Claims =>
                 /\ Claimed(p, lease) \in Mutation
                 /\ Claimed(p, lease).token = tokens + 1
                 /\ Claimed(p, lease).status = "pending"
           /\ Verdict(p) = "settle" =>
                 /\ Claimed(p, lease) \in Mutation
                 /\ Claimed(p, lease).token = tokens + 1
                 /\ Claimed(p, lease).status = "unknown_after_send"
           /\ Verdict(p) \notin Claims \cup {"settle"} => Claimed(p, lease) = mut
<1>1. (Verdict(p) = "takeover" /\ mut.dispatched) \in BOOLEAN
  OBVIOUS
<1>2. CASE Verdict(p) \in Claims
  <2>1. Claimed(p, lease) =
           [status |-> "pending", payload |-> p, token |-> tokens + 1,
            expires |-> now + lease,
            dispatched |-> Verdict(p) = "takeover" /\ mut.dispatched]
    BY <1>2 DEF Claimed
  <2>2. tokens + 1 \in Nat /\ now + lease \in Nat
    BY DEF TypeOK
  <2> QED
    BY <1>1, <1>2, <2>1, <2>2 DEF Mutation, Claims
<1>3. CASE Verdict(p) = "settle"
  <2>1. mut \in Mutation
    BY <1>3, VerdictFacts DEF TypeOK
  <2>2. Settled("unknown_after_send") \in Mutation
    BY <2>1, <1>3, VerdictFacts, SettledType
  <2>3. Claimed(p, lease) = [Settled("unknown_after_send") EXCEPT !.token = tokens + 1]
    BY <1>3 DEF Claimed, Claims
  <2>4. Settled("unknown_after_send").status = "unknown_after_send"
    BY <2>1 DEF Settled, Mutation
  <2> QED
    BY <1>3, <2>2, <2>3, <2>4 DEF Mutation, TypeOK, Claims
<1>4. CASE Verdict(p) \notin Claims \cup {"settle"}
  BY <1>4 DEF Claimed, TypeOK
<1> QED
  BY <1>2, <1>3, <1>4

(* The attempt that a claim starts holds the fresh token, or none.          *)
LEMMA AttemptedType ==
    ASSUME TypeOK, NEW p \in Payloads, NEW b \in BOOLEAN, NEW lease \in Nat,
           NEW pc \in {"record", "replay", "execute"}
    PROVE  /\ Attempted(p, b, lease, pc) \in Attempt
           /\ Attempted(p, b, lease, pc).pc = pc
           /\ Attempted(p, b, lease, pc).strict = b
           /\ Attempted(p, b, lease, pc).recorded = FALSE
           /\ Attempted(p, b, lease, pc).token
                 = IF Verdict(p) \in Claims THEN tokens + 1 ELSE 0
<1>1. Outcome(p) \in Outcomes
  BY OutcomeFacts
<1>2. (IF Verdict(p) \in Claims THEN tokens + 1 ELSE 0) \in Nat
  BY DEF TypeOK
<1>3. (Verdict(p) # "new") \in BOOLEAN
  OBVIOUS
<1> QED
  BY <1>1, <1>2, <1>3 DEF Attempted, Attempt

(* Crossing the boundary marks the row and rotates its token.               *)
LEMMA DispatchedType ==
    ASSUME TypeOK, NEW r \in Runners, runner[r] # Idle, Owns(r)
    PROVE  /\ Dispatched(r) \in Mutation
           /\ Dispatched(r).token = tokens + 1
           /\ Dispatched(r).status = "pending"
           /\ Dispatched(r).dispatched
<1>1. mut \in Mutation /\ mut.status = "pending" /\ tokens + 1 \in Nat
  BY DEF TypeOK, Owns
<1>2. runner[r] \in Attempt
  BY DEF TypeOK
<1>3. now + runner[r].lease \in Nat
  BY <1>2 DEF TypeOK, Attempt
<1> QED
  BY <1>1, <1>3 DEF Dispatched, Mutation

-----------------------------------------------------------------------------
(* Shapes of steps.  An attempt that moves on with its token, without       *)
(* entering the boundary, and a row that is left alone or settled without   *)
(* being reopened, keep everything but the types.                           *)

PreBoundary == {"record", "withdraw", "execute"}

AtBoundary == {"mirror", "send"}

MovesOn(r, x) ==
    \/ x = Idle
    \/ /\ runner[r] # Idle
       /\ x.token = runner[r].token
       /\ x.pc \in PreBoundary => runner[r].pc \in PreBoundary
       /\ x.pc \in AtBoundary => runner[r].pc \in AtBoundary

(* What DispatchInv says beyond types.                                      *)
CoreInv ==
    /\ TokensIssued
    /\ ~ KeyEnforced => OneCrossing /\ CrossedIsMarked /\ sends <= 1

(* A step of one attempt leaves the others as they are.                     *)
LEMMA GoFacts ==
    ASSUME TypeOK, NEW r \in Runners, NEW x \in Attempt \cup {Idle}, Go(r, x)
    PROVE  /\ runner' \in [Runners -> Attempt \cup {Idle}]
           /\ runner'[r] = x
           /\ \A s \in Runners : s # r => runner'[s] = runner[s]
BY DEF TypeOK, Go

(* A step that neither crosses the boundary nor reopens the mutation row.   *)
LEMMA QuietStep ==
    ASSUME DispatchInv, NEW r \in Runners, NEW x \in Attempt \cup {Idle}, Go(r, x),
           MovesOn(r, x),
           mut' = mut \/ (mut # NoRow /\ mut' \in {Settled("completed"), Settled("unknown_after_send")}),
           tokens' = tokens, sends' = sends
    PROVE  CoreInv'
<1>1. /\ runner'[r] = x
      /\ \A s \in Runners : s # r => runner'[s] = runner[s]
  BY GoFacts DEF DispatchInv
<1>2. /\ mut' # NoRow <=> mut # NoRow
      /\ mut' # NoRow => mut'.token = mut.token
      /\ mut' = mut \/ mut'.status \in {"completed", "unknown_after_send"}
  <2>1. CASE mut' = mut
    BY <2>1
  <2>2. CASE mut # NoRow /\ mut' \in {Settled("completed"), Settled("unknown_after_send")}
    BY <2>2, SettledType, EffectAssumption DEF DispatchInv
  <2> QED
    BY <2>1, <2>2
<1>3. TokensIssued'
  BY <1>1, <1>2 DEF DispatchInv, TokensIssued, MovesOn, TypeOK
<1>4. ASSUME NEW s \in Runners
      PROVE  /\ Crossing(s)' => Crossing(s)
             /\ Before(s)' => Before(s) /\ runner'[s].token = runner[s].token
  BY <1>1 DEF Crossing, Before, At, MovesOn, PreBoundary, AtBoundary
<1>5. Crossed' => Crossed
  BY <1>4 DEF Crossed
<1>6. ASSUME ~ KeyEnforced
      PROVE  (OneCrossing /\ CrossedIsMarked /\ sends <= 1)'
  <2>1. OneCrossing'
    BY <1>4, <1>6 DEF DispatchInv, OneCrossing
  <2>2. CrossedIsMarked'
    BY <1>2, <1>4, <1>5, <1>6 DEF DispatchInv, CrossedIsMarked
  <2> QED
    BY <2>1, <2>2, <1>6 DEF DispatchInv
<1> QED
  BY <1>3, <1>6 DEF CoreInv

(* A claim: nothing has crossed when it is granted.                         *)
LEMMA ClaimStep ==
    ASSUME DispatchInv, NEW r \in Runners, NEW p \in Payloads, NEW lease \in Nat,
           NEW b \in BOOLEAN, NEW pc \in {"record", "execute"},
           NEW x \in {Idle, Attempted(p, b, lease, pc)}, Go(r, x),
           runner[r] = Idle \/ runner[r].pc = "replay",
           mut' = Claimed(p, lease), tokens' = Issued(p), sends' = sends
    PROVE  CoreInv'
<1> DEFINE y == Attempted(p, b, lease, pc)
<1>1. /\ y \in Attempt
      /\ y.pc = pc
      /\ y.token = IF Verdict(p) \in Claims THEN tokens + 1 ELSE 0
  <2>1. TypeOK /\ pc \in {"record", "replay", "execute"}
    BY DEF DispatchInv
  <2> QED
    BY ONLY <2>1, AttemptedType, p \in Payloads, b \in BOOLEAN, lease \in Nat
<1>2. /\ runner'[r] = x
      /\ \A s \in Runners : s # r => runner'[s] = runner[s]
  BY <1>1, GoFacts DEF DispatchInv
<1>3. /\ Verdict(p) \in Claims \cup {"settle"} =>
            mut' \in Mutation /\ mut'.token = tokens + 1 /\ tokens' = tokens + 1
      /\ Verdict(p) \in Claims => mut'.status = "pending"
      /\ Verdict(p) = "settle" => mut'.status = "unknown_after_send"
      /\ Verdict(p) \notin Claims \cup {"settle"} => mut' = mut /\ tokens' = tokens
  BY ClaimedType DEF DispatchInv, Issued
<1>4. TokensIssued'
  <2>1. tokens' \in {tokens, tokens + 1} /\ tokens \in Nat
    BY <1>3 DEF DispatchInv, TypeOK
  <2>2. mut' # NoRow => mut'.token \in 1 .. tokens'
    BY <1>3, <2>1 DEF DispatchInv, TokensIssued
  <2>3. \A s \in Runners : runner'[s] # Idle => runner'[s].token <= tokens'
    BY <1>1, <1>2, <1>3, <2>1 DEF DispatchInv, TokensIssued, TypeOK, Attempt, Claims
  <2>4. ASSUME NEW s \in Runners, NEW t \in Runners, runner'[s] # Idle, runner'[t] # Idle,
               runner'[s].token = runner'[t].token, runner'[s].token # 0
        PROVE  s = t
    BY <1>1, <1>2, <1>3, <2>1, <2>4 DEF DispatchInv, TokensIssued, TypeOK, Attempt, Claims
  <2> QED
    BY <2>2, <2>3, <2>4 DEF TokensIssued
<1>5. ASSUME NEW s \in Runners
      PROVE  /\ Crossing(s)' <=> Crossing(s)
             /\ s # r => (Before(s)' => Before(s) /\ runner'[s] = runner[s])
  BY <1>1, <1>2, <1>5 DEF Crossing, Before, At
<1>6. Crossed' <=> Crossed
  BY <1>5 DEF Crossed
<1>7. ASSUME ~ KeyEnforced
      PROVE  (OneCrossing /\ CrossedIsMarked /\ sends <= 1)'
  <2>1. OneCrossing'
    BY <1>5, <1>7 DEF DispatchInv, OneCrossing
  <2>2. CrossedIsMarked'
    <3> SUFFICES ASSUME Crossed
                 PROVE  /\ mut' # NoRow
                        /\ mut'.status # "failed"
                        /\ mut'.status = "pending" =>
                              /\ mut'.dispatched
                              /\ \A s \in Runners : Before(s)' => runner'[s].token # mut'.token
      BY <1>6 DEF CrossedIsMarked
    <3>1. Verdict(p) \notin Claims
      BY <1>7, VerdictFacts DEF DispatchInv, CrossedIsMarked, Claims
    <3>2. CASE Verdict(p) = "settle"
      BY <1>3, <3>2, EffectAssumption
    <3>3. CASE Verdict(p) # "settle"
      <4>1. mut' = mut /\ mut # NoRow
        BY <1>3, <1>7, <3>1, <3>3 DEF DispatchInv, CrossedIsMarked
      <4>2. x # Idle => x.token = 0
        BY <1>1, <3>1
      <4>3. mut.token # 0
        BY <4>1 DEF DispatchInv, TokensIssued
      <4> QED
        BY <1>2, <1>5, <1>7, <4>1, <4>2, <4>3 DEF DispatchInv, CrossedIsMarked, Before, At
    <3> QED
      BY <3>2, <3>3
  <2> QED
    BY <2>1, <2>2, <1>7 DEF DispatchInv
<1> QED
  BY <1>4, <1>7 DEF CoreInv

(* Types and the ledger row, for a step of one attempt.                     *)
LEMMA TypedStep ==
    ASSUME DispatchInv, NEW r \in Runners, NEW x \in Attempt \cup {Idle}, Go(r, x),
           now' = now, mut' \in Mutation \cup {NoRow}, tokens' \in Nat,
           ledger' = ledger \/ ledger' \in Ledger,
           x # Idle /\ x.pc # "record" => ledger' # NoRow,
           sends' \in Nat, carried' \subseteq Payloads
    PROVE  TypeOK' /\ LedgerExists'
<1>1. /\ runner' \in [Runners -> Attempt \cup {Idle}]
      /\ runner'[r] = x
      /\ \A s \in Runners : s # r => runner'[s] = runner[s]
  BY GoFacts DEF DispatchInv
<1>2. ledger # NoRow => ledger' # NoRow
  BY EffectAssumption
<1> QED
  BY <1>1, <1>2 DEF DispatchInv, TypeOK, LedgerExists

(* The attempts that the steps after a claim put in place of runner[r].     *)
LEMMA NextAttempt ==
    ASSUME TypeOK, NEW r \in Runners, runner[r] # Idle,
           NEW pc \in {"withdraw", "execute", "send", "answer", "completing", "failing"}
    PROVE  /\ [runner[r] EXCEPT !.pc = pc] \in Attempt
           /\ [runner[r] EXCEPT !.pc = pc].pc = pc
           /\ [runner[r] EXCEPT !.pc = pc].token = runner[r].token
           /\ [runner[r] EXCEPT !.pc = pc, !.manual = TRUE] \in Attempt
           /\ [runner[r] EXCEPT !.pc = pc, !.manual = TRUE].pc = pc
           /\ [runner[r] EXCEPT !.pc = pc, !.manual = TRUE].token = runner[r].token
           /\ [runner[r] EXCEPT !.pc = pc, !.recorded = TRUE] \in Attempt
           /\ [runner[r] EXCEPT !.pc = pc, !.recorded = TRUE].pc = pc
           /\ [runner[r] EXCEPT !.pc = pc, !.recorded = TRUE].token = runner[r].token
<1>1. runner[r] \in Attempt
  BY DEF TypeOK
<1> QED
  BY <1>1 DEF Attempt

(* claimIdempotentExternalSideEffect in a transaction preserves             *)
(* DispatchInv.                                                             *)
LEMMA ClaimStrictStep ==
    ASSUME DispatchInv, NEW r \in Runners, NEW p \in Payloads, ClaimStrict(r, p)
    PROVE  DispatchInv'
<1> DEFINE y == Attempted(p, TRUE, ClaimLease, "execute")
           x == IF Outcome(p) = "claimed" THEN y ELSE Idle
<1>1. TypeOK /\ ClaimLease \in Nat /\ runner[r] = Idle
  BY EffectAssumption DEF DispatchInv, ClaimStrict
<1>2. Go(r, x)
  <2>1. CASE Outcome(p) = "claimed"
    BY <2>1 DEF ClaimStrict
  <2>2. CASE Outcome(p) # "claimed"
    BY <2>2, <1>1 DEF ClaimStrict, Go, TypeOK
  <2> QED
    BY <2>1, <2>2
<1>3. y \in Attempt
  BY <1>1, AttemptedType
<1>4. ledger' \in Ledger
  BY <1>1, OutcomeFacts, RecordedType DEF ClaimStrict
<1>5. mut' \in Mutation \cup {NoRow} /\ tokens' \in Nat
  BY <1>1, ClaimedType DEF ClaimStrict, Issued, TypeOK
<1>6. TypeOK' /\ LedgerExists'
  <2>1. now' = now /\ sends' = sends /\ carried' = carried
    BY DEF ClaimStrict
  <2>2. x \in Attempt \cup {Idle} /\ ledger' # NoRow
    BY <1>3, <1>4, EffectAssumption
  <2>3. sends' \in Nat /\ carried' \subseteq Payloads
    BY <1>1, <2>1 DEF TypeOK
  <2> HIDE DEF x
  <2> QED
    BY <1>2, <1>4, <1>5, <2>1, <2>2, <2>3, TypedStep
<1>7. CoreInv'
  <2>1. x \in {Idle, Attempted(p, TRUE, ClaimLease, "execute")}
    OBVIOUS
  <2>2. mut' = Claimed(p, ClaimLease) /\ tokens' = Issued(p) /\ sends' = sends
    BY DEF ClaimStrict
  <2> HIDE DEF x
  <2> QED
    BY <1>1, <1>2, <2>1, <2>2, ClaimStep
<1> QED
  BY <1>6, <1>7 DEF DispatchInv, CoreInv

(* So does the claim without a transaction ...                              *)
LEMMA ClaimLooseStep ==
    ASSUME DispatchInv, NEW r \in Runners, NEW p \in Payloads, ClaimLoose(r, p)
    PROVE  DispatchInv'
<1> DEFINE x == Attempted(p, FALSE, ClaimLease, "record")
<1>1. TypeOK /\ ClaimLease \in Nat /\ runner[r] = Idle
  BY EffectAssumption DEF DispatchInv, ClaimLoose
<1>2. Go(r, x)
  BY DEF ClaimLoose
<1>3. x \in Attempt /\ x.pc = "record"
  BY <1>1, AttemptedType
<1>4. mut' \in Mutation \cup {NoRow} /\ tokens' \in Nat
  BY <1>1, ClaimedType DEF ClaimLoose, Issued, TypeOK
<1>5. TypeOK' /\ LedgerExists'
  <2>1. now' = now /\ sends' \in Nat /\ carried' \subseteq Payloads /\ ledger' = ledger
    BY <1>1 DEF ClaimLoose, TypeOK
  <2> HIDE DEF x
  <2> QED
    BY <1>2, <1>3, <1>4, <2>1, TypedStep
<1>6. CoreInv'
  <2>1. x \in {Idle, Attempted(p, FALSE, ClaimLease, "record")}
    OBVIOUS
  <2>2. mut' = Claimed(p, ClaimLease) /\ tokens' = Issued(p) /\ sends' = sends
    BY DEF ClaimLoose
  <2> HIDE DEF x
  <2> QED
    BY <1>1, <1>2, <2>1, <2>2, ClaimStep
<1> QED
  BY <1>5, <1>6 DEF DispatchInv, CoreInv

(* A quiet step preserves the whole invariant.                              *)
LEMMA QuietDispatch ==
    ASSUME DispatchInv, NEW r \in Runners, NEW x \in Attempt \cup {Idle}, Go(r, x),
           MovesOn(r, x),
           x # Idle /\ x.pc # "record" => ledger' # NoRow,
           mut' = mut \/ (mut # NoRow /\ mut' \in {Settled("completed"), Settled("unknown_after_send")}),
           ledger' = ledger \/ ledger' \in Ledger,
           UNCHANGED <<now, tokens, sends, carried>>
    PROVE  DispatchInv'
<1>1. CoreInv'
  BY QuietStep
<1>2. mut' \in Mutation \cup {NoRow}
  BY SettledType DEF DispatchInv, TypeOK
<1>3. tokens' \in Nat /\ sends' \in Nat /\ carried' \subseteq Payloads /\ now' = now
  BY DEF DispatchInv, TypeOK
<1>4. TypeOK' /\ LedgerExists'
  BY <1>2, <1>3, TypedStep
<1> QED
  BY <1>1, <1>4 DEF DispatchInv, CoreInv

(* ... and the ledger record that follows it.                               *)
LEMMA RecordRunStep ==
    ASSUME DispatchInv, NEW r \in Runners, RecordRun(r)
    PROVE  DispatchInv'
<1>1. TypeOK /\ runner[r] # Idle /\ runner[r] \in Attempt /\ runner[r].pc = "record"
  BY DEF DispatchInv, TypeOK, RecordRun, At
<1>2. ledger' \in Ledger /\ ledger' # NoRow
  BY <1>1, RecordedType, EffectAssumption DEF RecordRun, Attempt
<1>3. mut' = mut /\ UNCHANGED <<now, tokens, sends, carried>>
  BY DEF RecordRun
<1>4. PICK x \in {Idle, [runner[r] EXCEPT !.pc = "execute"], [runner[r] EXCEPT !.pc = "withdraw"]} :
         Go(r, x)
  BY DEF RecordRun, End
<1>5. x \in Attempt \cup {Idle} /\ MovesOn(r, x)
  <2>1. CASE x = Idle
    BY <2>1 DEF MovesOn
  <2>2. CASE x = [runner[r] EXCEPT !.pc = "execute"]
    <3>1. x \in Attempt /\ x.pc = "execute" /\ x.token = runner[r].token
      BY <1>1, <2>2, NextAttempt
    <3> QED
      BY <1>1, <3>1 DEF MovesOn, PreBoundary, AtBoundary
  <2>3. CASE x = [runner[r] EXCEPT !.pc = "withdraw"]
    <3>1. x \in Attempt /\ x.pc = "withdraw" /\ x.token = runner[r].token
      BY <1>1, <2>3, NextAttempt
    <3> QED
      BY <1>1, <3>1 DEF MovesOn, PreBoundary, AtBoundary
  <2> QED
    BY <1>4, <2>1, <2>2, <2>3
<1> QED
  BY <1>2, <1>3, <1>4, <1>5, QuietDispatch

(* The replay worker picks a run and holds no token yet.                    *)
LEMMA ReplayPickStep ==
    ASSUME DispatchInv, NEW r \in Runners, ReplayPick(r)
    PROVE  DispatchInv'
<1> DEFINE y == Attempted(ledger.payload, TRUE, StaleAfter, "replay")
           x == [y EXCEPT !.token = 0]
<1>1. TypeOK /\ StaleAfter \in Nat /\ ledger # NoRow /\ ledger.payload \in Payloads
  BY EffectAssumption DEF DispatchInv, TypeOK, ReplayPick, Eligible, Ledger
<1>2. y \in Attempt /\ y.pc = "replay"
  BY <1>1, AttemptedType
<1>3. x \in Attempt /\ x.pc = "replay" /\ x.token = 0
  <2> HIDE DEF y
  <2> QED
    BY <1>2 DEF Attempt
<1>4. Go(r, x)
  BY DEF ReplayPick, Eligible
<1> HIDE DEF x
<1>5. /\ runner'[r] = x
      /\ \A s \in Runners : s # r => runner'[s] = runner[s]
  BY <1>1, <1>3, <1>4, GoFacts
<1>6. UNCHANGED <<now, mut, ledger, tokens, sends, carried>> /\ runner[r] = Idle
  BY DEF ReplayPick, Eligible
<1>7. TypeOK' /\ LedgerExists'
  <2>1. /\ mut' \in Mutation \cup {NoRow} /\ tokens' \in Nat /\ sends' \in Nat
        /\ carried' \subseteq Payloads /\ now' = now /\ ledger' = ledger /\ ledger' # NoRow
    BY <1>1, <1>6 DEF TypeOK
  <2> QED
    BY <1>3, <1>4, <2>1, TypedStep
<1>8. TokensIssued'
  BY <1>3, <1>5, <1>6 DEF DispatchInv, TypeOK, TokensIssued
<1>9. ASSUME NEW s \in Runners
      PROVE  /\ Crossing(s)' <=> Crossing(s)
             /\ Before(s)' => Before(s) /\ runner'[s] = runner[s]
  BY <1>3, <1>5, <1>6 DEF Crossing, Before, At
<1>10. Crossed' <=> Crossed
  BY <1>6, <1>9 DEF Crossed
<1>11. ~ KeyEnforced => (OneCrossing /\ CrossedIsMarked /\ sends <= 1)'
  BY <1>6, <1>9, <1>10 DEF DispatchInv, OneCrossing, CrossedIsMarked
<1> QED
  BY <1>7, <1>8, <1>11 DEF DispatchInv

(* Its claim is a claim like any other.                                     *)
LEMMA ReplayClaimStep ==
    ASSUME DispatchInv, NEW r \in Runners, ReplayClaim(r)
    PROVE  DispatchInv'
<1> DEFINE p == runner[r].payload
           y == Attempted(p, TRUE, StaleAfter, "execute")
           x == IF Outcome(p) = "claimed" THEN y ELSE Idle
<1>1. /\ TypeOK /\ StaleAfter \in Nat /\ runner[r] # Idle /\ runner[r].pc = "replay"
      /\ runner[r] \in Attempt /\ p \in Payloads /\ ledger # NoRow /\ ledger \in Ledger
  BY EffectAssumption DEF DispatchInv, TypeOK, ReplayClaim, At, LedgerExists, Attempt
<1>2. CASE ~ Open(ledger, p)
  <2>1. Go(r, Idle) /\ UNCHANGED <<mut, ledger>> /\ UNCHANGED <<now, tokens, sends, carried>>
    BY <1>2 DEF ReplayClaim, End
  <2>2. MovesOn(r, Idle)
    BY DEF MovesOn
  <2> QED
    BY <2>1, <2>2, QuietDispatch
<1>3. CASE Open(ledger, p)
  <2>1. /\ mut' = Claimed(p, StaleAfter) /\ tokens' = Issued(p)
        /\ now' = now /\ sends' = sends /\ carried' = carried
    BY <1>3 DEF ReplayClaim
  <2>2. Go(r, x)
    BY <1>3 DEF ReplayClaim, End
  <2>3. y \in Attempt
    BY <1>1, AttemptedType
  <2>4. ledger' \in Ledger
    <3>1. "unknown_after_send" \in Outcomes
      BY DEF Outcomes
    <3> QED
      BY <1>1, <1>3, <3>1, RecordedType DEF ReplayClaim
  <2>5. mut' \in Mutation \cup {NoRow} /\ tokens' \in Nat
    BY <1>1, <2>1, ClaimedType DEF Issued, TypeOK
  <2>6. TypeOK' /\ LedgerExists'
    <3>1. x \in Attempt \cup {Idle} /\ ledger' # NoRow
      BY <2>3, <2>4, EffectAssumption
    <3>2. sends' \in Nat /\ carried' \subseteq Payloads
      BY <1>1, <2>1 DEF TypeOK
    <3> HIDE DEF x
    <3> QED
      BY <2>1, <2>2, <2>4, <2>5, <3>1, <3>2, TypedStep
  <2>7. CoreInv'
    <3>1. x \in {Idle, Attempted(p, TRUE, StaleAfter, "execute")}
      OBVIOUS
    <3> HIDE DEF x, p
    <3> QED
      BY <1>1, <2>1, <2>2, <3>1, ClaimStep
  <2> QED
    BY <2>6, <2>7 DEF DispatchInv, CoreInv
<1> QED
  BY <1>2, <1>3


(* An attempt that ends keeps the invariant, whatever it leaves behind that *)
(* is not a reopened row.                                                   *)
LEMMA EndStep ==
    ASSUME DispatchInv, NEW r \in Runners, End(r),
           mut' = mut \/ (mut # NoRow /\ mut' \in {Settled("completed"), Settled("unknown_after_send")}),
           ledger' = ledger \/ ledger' \in Ledger,
           UNCHANGED <<now, tokens, sends, carried>>
    PROVE  DispatchInv'
<1>1. Go(r, Idle) /\ MovesOn(r, Idle)
  BY DEF End, MovesOn
<1> QED
  BY <1>1, QuietDispatch

(* So does one that moves past the boundary with its token.                 *)
LEMMA PastStep ==
    ASSUME DispatchInv, NEW r \in Runners, NEW x \in Attempt, Go(r, x),
           runner[r] # Idle, runner[r].pc # "record", x.token = runner[r].token,
           x.pc \in {"answer", "completing", "failing"},
           mut' = mut \/ (mut # NoRow /\ mut' \in {Settled("completed"), Settled("unknown_after_send")}),
           ledger' = ledger \/ ledger' \in Ledger,
           UNCHANGED <<now, tokens, sends, carried>>
    PROVE  DispatchInv'
<1>1. MovesOn(r, x)
  BY DEF MovesOn, PreBoundary, AtBoundary
<1>2. ledger' # NoRow
  BY EffectAssumption DEF DispatchInv, LedgerExists
<1> QED
  BY <1>1, <1>2, QuietDispatch

(* Before the boundary the holder of the claim knows that nothing crossed.  *)
LEMMA OwnerBefore ==
    ASSUME DispatchInv, ~ KeyEnforced, NEW r \in Runners, Before(r), Owns(r)
    PROVE  ~ Crossed
BY DEF DispatchInv, CrossedIsMarked, Owns

(* The late ledger writes, and a process that exits, change no claim.       *)
LEMMA FailureStep ==
    ASSUME DispatchInv, NEW r \in Runners, FailLedger(r) \/ CompleteLedger(r) \/ Crash(r)
    PROVE  DispatchInv'
<1>1. End(r) /\ mut' = mut /\ UNCHANGED <<now, tokens, sends, carried>>
  BY DEF FailLedger, CompleteLedger, Crash
<1>2. ledger' = ledger \/ ledger' \in Ledger
  <2>1. CASE Crash(r)
    BY <2>1 DEF Crash
  <2>2. ASSUME FailLedger(r) \/ CompleteLedger(r)
        PROVE  /\ Marked("completed") \in Ledger
               /\ Marked("unknown_external_outcome") \in Ledger
               /\ Marked("failed_before_boundary") \in Ledger
    <3>1. TypeOK /\ ledger # NoRow
      BY <2>2 DEF DispatchInv, LedgerExists, FailLedger, CompleteLedger, At
    <3> QED
      BY <3>1, MarkedType DEF LedgerStatuses
  <2>3. CASE FailLedger(r)
    BY <2>2, <2>3 DEF FailLedger
  <2>4. CASE CompleteLedger(r)
    BY <2>2, <2>4 DEF CompleteLedger
  <2> QED
    BY <2>1, <2>3, <2>4
<1> QED
  BY <1>1, <1>2, EndStep

(* An unknown outcome closes the mutation row, or leaves it.                *)
LEMMA FailUnknownStep ==
    ASSUME DispatchInv, NEW r \in Runners, FailUnknown(r)
    PROVE  DispatchInv'
<1> DEFINE x == [runner[r] EXCEPT !.pc = "failing", !.manual = TRUE]
<1>1. TypeOK /\ runner[r] # Idle /\ runner[r].pc # "record"
  BY DEF DispatchInv, FailUnknown, At
<1>2. x \in Attempt /\ x.pc = "failing" /\ x.token = runner[r].token
  BY <1>1, NextAttempt
<1>3. /\ Go(r, x)
      /\ mut' = mut \/ (mut # NoRow /\ mut' = Settled("unknown_after_send"))
      /\ ledger' = ledger
      /\ UNCHANGED <<now, tokens, sends, carried>>
  BY DEF FailUnknown, Owns
<1> HIDE DEF x
<1> QED
  BY <1>1, <1>2, <1>3, PastStep

(* So does a completion.                                                    *)
LEMMA CompleteStep ==
    ASSUME DispatchInv, NEW r \in Runners, Complete(r)
    PROVE  DispatchInv'
<1> DEFINE unknown == [runner[r] EXCEPT !.pc = "failing", !.manual = TRUE]
           completing == [runner[r] EXCEPT !.pc = "completing"]
<1>1. TypeOK /\ runner[r] # Idle /\ runner[r].pc # "record" /\ ledger # NoRow
  BY DEF DispatchInv, LedgerExists, Complete, At
<1>2. unknown \in Attempt /\ unknown.pc = "failing" /\ unknown.token = runner[r].token
  BY <1>1, NextAttempt
<1>3. completing \in Attempt /\ completing.pc = "completing" /\ completing.token = runner[r].token
  BY <1>1, NextAttempt
<1>4. Marked("completed") \in Ledger
  BY <1>1, MarkedType DEF LedgerStatuses
<1>5. UNCHANGED <<now, tokens, sends, carried>>
  BY DEF Complete
<1>6. \/ End(r) /\ Owns(r) /\ mut' = Settled("completed") /\ ledger' = Marked("completed")
      \/ End(r) /\ mut' = mut /\ ledger' = ledger
      \/ Go(r, unknown) /\ mut' = mut /\ ledger' = ledger
      \/ /\ Go(r, completing) /\ ledger' = ledger
         /\ mut' = mut \/ (Owns(r) /\ mut' = Settled("completed"))
  BY DEF Complete, End
<1>7. Owns(r) => mut # NoRow
  BY DEF Owns
<1> HIDE DEF unknown, completing
<1>8. CASE End(r)
  <2>1. mut' = mut \/ (mut # NoRow /\ mut' \in {Settled("completed"), Settled("unknown_after_send")})
    BY <1>6, <1>7
  <2>2. ledger' = ledger \/ ledger' \in Ledger
    BY <1>4, <1>6
  <2> QED
    BY <1>5, <1>8, <2>1, <2>2, EndStep
<1>9. CASE Go(r, unknown) /\ mut' = mut /\ ledger' = ledger
  BY <1>1, <1>2, <1>5, <1>9, PastStep
<1>10. CASE /\ Go(r, completing) /\ ledger' = ledger
            /\ mut' = mut \/ (Owns(r) /\ mut' = Settled("completed"))
  BY <1>1, <1>3, <1>5, <1>7, <1>10, PastStep
<1> QED
  BY <1>6, <1>8, <1>9, <1>10

(* A claim is given back, as failed or as if it had never been, only when   *)
(* nothing crossed the boundary or can any more.                            *)
LEMMA ReleaseStep ==
    ASSUME DispatchInv, NEW r \in Runners, NEW x \in Attempt \cup {Idle}, Go(r, x),
           MovesOn(r, x),
           x # Idle /\ x.pc # "record" => ledger # NoRow,
           mut # NoRow, mut' \in {NoRow, Settled("failed")},
           ~ KeyEnforced => ~ Crossed',
           UNCHANGED <<now, ledger, tokens, sends, carried>>
    PROVE  DispatchInv'
<1>1. /\ runner'[r] = x
      /\ \A s \in Runners : s # r => runner'[s] = runner[s]
  BY GoFacts DEF DispatchInv
<1>2. mut' \in Mutation \cup {NoRow} /\ (mut' # NoRow => mut'.token = mut.token)
  BY SettledType DEF DispatchInv
<1>3. TypeOK' /\ LedgerExists'
  <2>1. tokens' \in Nat /\ sends' \in Nat /\ carried' \subseteq Payloads
    BY DEF DispatchInv, TypeOK
  <2> QED
    BY <1>2, <2>1, TypedStep
<1>4. TokensIssued'
  BY <1>1, <1>2 DEF DispatchInv, TokensIssued, MovesOn, TypeOK
<1>5. ~ KeyEnforced => (OneCrossing /\ CrossedIsMarked /\ sends <= 1)'
  BY DEF DispatchInv, OneCrossing, CrossedIsMarked, Crossed
<1> QED
  BY <1>3, <1>4, <1>5 DEF DispatchInv

(* Moving on does not cross.                                                *)
LEMMA MovesOnCrossing ==
    ASSUME TypeOK, NEW r \in Runners, NEW x \in Attempt \cup {Idle}, Go(r, x), MovesOn(r, x),
           NEW s \in Runners, Crossing(s)'
    PROVE  Crossing(s) /\ (s = r => x # Idle /\ x.pc \in AtBoundary)
<1>1. /\ runner'[r] = x
      /\ \A t \in Runners : t # r => runner'[t] = runner[t]
  BY GoFacts
<1> QED
  BY <1>1 DEF Crossing, At, MovesOn, AtBoundary

(* A refused claim is given back before anything crossed.                   *)
LEMMA WithdrawStep ==
    ASSUME DispatchInv, NEW r \in Runners, Withdraw(r)
    PROVE  DispatchInv'
<1>1. End(r) /\ UNCHANGED <<now, ledger, tokens, sends, carried>> /\ Before(r)
  BY DEF Withdraw, Before
<1>2. CASE ~ Owns(r)
  <2>1. mut' = mut /\ ledger' = ledger
    BY <1>2 DEF Withdraw
  <2> QED
    BY <1>1, <2>1, EndStep
<1>3. CASE Owns(r)
  <2>1. mut # NoRow /\ mut' \in {NoRow, Settled("failed")}
    BY <1>3 DEF Withdraw, Owns
  <2>2. Go(r, Idle) /\ MovesOn(r, Idle) /\ TypeOK
    BY <1>1 DEF End, MovesOn, DispatchInv
  <2>3. ~ KeyEnforced => ~ Crossed'
    <3> SUFFICES ASSUME ~ KeyEnforced, Crossed'
                 PROVE  Crossed
      BY <1>1, <1>3, OwnerBefore
    <3> QED
      BY <1>1, <2>2, MovesOnCrossing DEF Crossed
  <2> QED
    BY <1>1, <2>1, <2>2, <2>3, ReleaseStep
<1> QED
  BY <1>2, <1>3

(* A failure that proves nothing was sent is one of the only attempt that   *)
(* crossed.                                                                 *)
LEMMA FailBeforeSendStep ==
    ASSUME DispatchInv, NEW r \in Runners, FailBeforeSend(r)
    PROVE  DispatchInv'
<1> DEFINE x == [runner[r] EXCEPT !.pc = "failing"]
<1>1. /\ TypeOK /\ runner[r] # Idle /\ runner[r].pc \in {"execute", "send"} /\ ledger # NoRow
      /\ UNCHANGED <<now, ledger, tokens, sends, carried>>
  BY DEF DispatchInv, LedgerExists, FailBeforeSend, At
<1>2. CASE ~ Owns(r)
  <2>1. End(r) /\ mut' = mut /\ ledger' = ledger
    BY <1>1, <1>2 DEF FailBeforeSend
  <2> QED
    BY <1>1, <2>1, EndStep
<1>3. CASE Owns(r)
  <2>1. mut # NoRow /\ mut' = Settled("failed") /\ Go(r, x)
    BY <1>3 DEF FailBeforeSend, Owns
  <2>2. x \in Attempt /\ x.pc = "failing" /\ x.token = runner[r].token
    BY <1>1, NextAttempt
  <2> HIDE DEF x
  <2>3. MovesOn(r, x)
    BY <1>1, <2>2 DEF MovesOn, PreBoundary, AtBoundary
  <2>4. ~ KeyEnforced => ~ Crossed'
    <3> SUFFICES ASSUME ~ KeyEnforced, Crossed'
                 PROVE  FALSE
      OBVIOUS
    <3>1. Crossed
      BY <1>1, <2>1, <2>2, <2>3, MovesOnCrossing DEF Crossed
    <3>2. CASE runner[r].pc = "execute"
      <4>1. Before(r)
        BY <1>1, <3>2 DEF Before, At
      <4> QED
        BY <1>3, <3>1, <4>1, OwnerBefore
    <3>3. CASE runner[r].pc = "send"
      <4>1. Crossing(r)
        BY <1>1, <3>3 DEF Crossing, At
      <4>2. sends = 0 /\ \A s \in Runners : Crossing(s) => s = r
        BY <4>1 DEF DispatchInv, OneCrossing
      <4>3. PICK s \in Runners : Crossing(s)'
        BY <1>1, <4>2 DEF Crossed
      <4>4. Crossing(s) /\ s = r
        BY <1>1, <2>1, <2>2, <2>3, <4>2, <4>3, MovesOnCrossing
      <4>5. x.pc \in AtBoundary
        BY <1>1, <2>1, <2>2, <2>3, <4>3, <4>4, MovesOnCrossing
      <4> QED
        BY <2>2, <4>5 DEF AtBoundary
    <3> QED
      BY <1>1, <3>2, <3>3
  <2> QED
    BY <1>1, <2>1, <2>2, <2>3, <2>4, ReleaseStep
<1> QED
  BY <1>2, <1>3

(* The best-effort mirror moves on to the call with the same token.         *)
LEMMA MirrorStartStep ==
    ASSUME DispatchInv, NEW r \in Runners, MirrorStart(r)
    PROVE  DispatchInv'
<1>1. /\ TypeOK /\ runner[r] # Idle /\ runner[r].pc = "mirror" /\ ledger # NoRow
      /\ mut' = mut /\ UNCHANGED <<now, tokens, sends, carried>>
  BY DEF DispatchInv, LedgerExists, MirrorStart, At
<1>2. PICK x \in {[runner[r] EXCEPT !.pc = "send"],
                  [runner[r] EXCEPT !.pc = "send", !.recorded = TRUE]} : Go(r, x)
  BY DEF MirrorStart
<1>3. x \in Attempt /\ x.pc = "send" /\ x.token = runner[r].token
  <2>1. CASE x = [runner[r] EXCEPT !.pc = "send"]
    BY <1>1, <2>1, NextAttempt
  <2>2. CASE x = [runner[r] EXCEPT !.pc = "send", !.recorded = TRUE]
    BY <1>1, <2>2, NextAttempt
  <2> QED
    BY <1>2, <2>1, <2>2
<1>4. MovesOn(r, x)
  BY <1>1, <1>3 DEF MovesOn, PreBoundary, AtBoundary
<1>5. Marked("external_call_started") \in Ledger
  BY <1>1, MarkedType DEF LedgerStatuses
<1>6. (ledger' = ledger \/ ledger' \in Ledger) /\ ledger' # NoRow
  BY <1>1, <1>5, EffectAssumption DEF MirrorStart
<1> QED
  BY <1>1, <1>2, <1>3, <1>4, <1>6, QuietDispatch

(* The call: the one attempt that crossed makes it, and crosses no more.    *)
LEMMA SendStep ==
    ASSUME DispatchInv, NEW r \in Runners, Send(r)
    PROVE  DispatchInv'
<1> DEFINE x == [runner[r] EXCEPT !.pc = "answer"]
<1>1. /\ TypeOK /\ runner[r] # Idle /\ runner[r].pc = "send" /\ ledger # NoRow
      /\ runner[r] \in Attempt /\ runner[r].payload \in Payloads
  BY DEF DispatchInv, TypeOK, LedgerExists, Send, At, Attempt
<1>2. x \in Attempt /\ x.pc = "answer" /\ x.token = runner[r].token
  BY <1>1, NextAttempt
<1>3. /\ Go(r, x) /\ sends' = sends + 1 /\ carried' = carried \cup {runner[r].payload}
      /\ UNCHANGED <<now, mut, ledger, tokens>>
  BY DEF Send
<1> HIDE DEF x
<1>4. /\ runner'[r] = x
      /\ \A s \in Runners : s # r => runner'[s] = runner[s]
  BY <1>1, <1>2, <1>3, GoFacts
<1>5. TypeOK' /\ LedgerExists'
  <2>1. /\ mut' \in Mutation \cup {NoRow} /\ tokens' \in Nat /\ sends' \in Nat
        /\ carried' \subseteq Payloads /\ now' = now /\ ledger' = ledger /\ ledger' # NoRow
    BY <1>1, <1>3 DEF TypeOK
  <2> QED
    BY <1>2, <1>3, <2>1, TypedStep
<1>6. TokensIssued'
  BY <1>1, <1>2, <1>3, <1>4 DEF DispatchInv, TokensIssued
<1>7. ASSUME NEW s \in Runners
      PROVE  /\ Crossing(s)' => Crossing(s) /\ s # r
             /\ Before(s)' => Before(s) /\ runner'[s] = runner[s]
  BY <1>2, <1>4 DEF Crossing, Before, At
<1>8. ASSUME ~ KeyEnforced
      PROVE  (OneCrossing /\ CrossedIsMarked /\ sends <= 1)'
  <2>1. Crossing(r) /\ Crossed
    BY <1>1 DEF Crossing, Crossed, At
  <2>2. sends = 0 /\ \A s \in Runners : Crossing(s) => s = r
    BY <1>8, <2>1 DEF DispatchInv, OneCrossing
  <2>3. OneCrossing' /\ sends' <= 1
    BY <1>3, <1>7, <2>2 DEF OneCrossing
  <2>4. CrossedIsMarked'
    BY <1>3, <1>7, <1>8, <2>1 DEF DispatchInv, CrossedIsMarked
  <2> QED
    BY <2>3, <2>4
<1> QED
  BY <1>5, <1>6, <1>8 DEF DispatchInv

(* The boundary: an attempt that may cross is the only one ever to cross,   *)
(* and the token it rotates to is new.                                      *)
LEMMA MarkStartedStep ==
    ASSUME DispatchInv, NEW r \in Runners, MarkExternalCallStarted(r)
    PROVE  DispatchInv'
<1> DEFINE x == [runner[r] EXCEPT !.pc = IF runner[r].strict THEN "send" ELSE "mirror",
                                  !.token = tokens + 1, !.recorded = runner[r].strict]
<1>1. /\ TypeOK /\ runner[r] # Idle /\ runner[r].pc = "execute" /\ ledger # NoRow
      /\ runner[r] \in Attempt
      /\ UNCHANGED <<now, sends, carried>>
  BY DEF DispatchInv, TypeOK, LedgerExists, MarkExternalCallStarted, At
<1>2. CASE ~ MayCross(r)
  <2>1. End(r) /\ mut' = mut /\ ledger' = ledger /\ UNCHANGED <<now, tokens, sends, carried>>
    BY <1>1, <1>2 DEF MarkExternalCallStarted
  <2> QED
    BY <2>1, EndStep
<1>3. CASE MayCross(r)
  <2>1. Go(r, x) /\ mut' = Dispatched(r) /\ tokens' = tokens + 1
    BY <1>3 DEF MarkExternalCallStarted
  <2>2. x \in Attempt /\ x.pc \in AtBoundary /\ x.token = tokens + 1
    <3>1. tokens + 1 \in Nat /\ runner[r].strict \in BOOLEAN
      BY <1>1 DEF TypeOK, Attempt
    <3> QED
      BY <1>1, <3>1 DEF Attempt, AtBoundary
  <2>3. Owns(r)
    BY <1>3 DEF MayCross
  <2>4. /\ mut' \in Mutation /\ mut'.token = tokens + 1
        /\ mut'.status = "pending" /\ mut'.dispatched
    BY <1>1, <2>1, <2>3, DispatchedType
  <2>5. (ledger' = ledger \/ ledger' \in Ledger) /\ ledger' # NoRow
    <3>1. Marked("external_call_started") \in Ledger
      BY <1>1, MarkedType DEF LedgerStatuses
    <3> QED
      BY <1>1, <1>3, <3>1, EffectAssumption DEF MarkExternalCallStarted
  <2> HIDE DEF x
  <2>6. /\ runner'[r] = x
        /\ \A s \in Runners : s # r => runner'[s] = runner[s]
    BY <1>1, <2>1, <2>2, GoFacts
  <2>7. TypeOK' /\ LedgerExists'
    <3>1. /\ now' = now /\ mut' \in Mutation \cup {NoRow} /\ tokens' \in Nat
          /\ sends' \in Nat /\ carried' \subseteq Payloads
      BY <1>1, <2>1, <2>4 DEF TypeOK
    <3> QED
      BY <2>1, <2>2, <2>5, <3>1, TypedStep
  <2>8. TokensIssued'
    <3>1. tokens \in Nat /\ \A s \in Runners : runner[s] # Idle => runner[s].token \in Nat
      BY <1>1 DEF TypeOK, Attempt
    <3> QED
      BY <2>1, <2>2, <2>4, <2>6, <3>1 DEF DispatchInv, TokensIssued
  <2>9. ASSUME ~ KeyEnforced
        PROVE  (OneCrossing /\ CrossedIsMarked /\ sends <= 1)'
    <3>1. Before(r)
      BY <1>1 DEF Before, At
    <3>2. ~ Crossed
      BY <2>3, <2>9, <3>1, OwnerBefore
    <3>3. sends' = 0
      BY <1>1, <3>2 DEF Crossed, TypeOK
    <3>4. \A s \in Runners : Crossing(s)' => s = r
      BY <2>6, <3>2 DEF Crossed, Crossing, At
    <3>5. ASSUME NEW s \in Runners, Before(s)'
          PROVE  runner'[s].token # mut'.token
      <4>1. s # r
        BY <2>2, <2>6, <3>5 DEF Before, At, AtBoundary
      <4>2. runner[s] # Idle /\ runner'[s] = runner[s]
        BY <2>6, <3>5, <4>1 DEF Before, At
      <4>3. runner[s].token <= tokens /\ runner[s].token \in Nat /\ tokens \in Nat
        BY <1>1, <4>2 DEF DispatchInv, TokensIssued, TypeOK, Attempt
      <4> QED
        BY <2>4, <4>2, <4>3
    <3>6. OneCrossing' /\ (sends <= 1)'
      BY <3>3, <3>4 DEF OneCrossing
    <3>7. CrossedIsMarked'
      BY <2>4, <3>5, EffectAssumption DEF CrossedIsMarked
    <3> QED
      BY <3>6, <3>7
  <2> QED
    BY <2>7, <2>8, <2>9 DEF DispatchInv
<1> QED
  BY <1>2, <1>3

(* Steps that no attempt takes.                                             *)
LEMMA OutsideStep ==
    ASSUME DispatchInv,
           Reconcile \/ MarkUnrecoverable \/ Tick \/ \E p \in Payloads : Preflight(p)
    PROVE  DispatchInv'
<1>1. TypeOK /\ UNCHANGED <<runner, tokens>>
  BY DEF DispatchInv, Reconcile, MarkUnrecoverable, Tick, Preflight
<1>2. ledger' = ledger \/ ledger' \in Ledger
  <2>1. CASE Reconcile \/ MarkUnrecoverable
    <3>1. /\ ledger # NoRow
          /\ ledger' \in {Marked("completed"), Marked("unknown_external_outcome")}
      BY <2>1 DEF Reconcile, MarkUnrecoverable
    <3> QED
      BY <1>1, <3>1, MarkedType DEF LedgerStatuses
  <2>2. CASE Tick
    BY <2>2 DEF Tick
  <2>3. ASSUME NEW p \in Payloads, Preflight(p) PROVE ledger' \in Ledger
    BY <1>1, <2>3, RowType DEF Preflight, LedgerStatuses
  <2> QED
    BY <2>1, <2>2, <2>3
<1>3. ledger # NoRow => ledger' # NoRow
  BY <1>2, EffectAssumption
<1>4. mut' = mut \/ (mut # NoRow /\ mut' = Settled("completed"))
  BY DEF Reconcile, MarkUnrecoverable, Tick, Preflight
<1>5. /\ mut' \in Mutation \cup {NoRow}
      /\ mut' # NoRow <=> mut # NoRow
      /\ mut' # NoRow => mut'.token = mut.token
      /\ mut' = mut \/ mut'.status = "completed"
  BY <1>1, <1>4, SettledType, EffectAssumption DEF TypeOK
<1>6. now' \in Nat /\ sends' \in Nat /\ carried' \subseteq Payloads
  BY <1>1 DEF TypeOK, Ledger, Reconcile, MarkUnrecoverable, Tick, Preflight
<1>7. ~ KeyEnforced => sends' = sends
  BY DEF Reconcile, MarkUnrecoverable, Tick, Preflight
<1>8. TypeOK' /\ LedgerExists'
  BY <1>1, <1>2, <1>3, <1>5, <1>6 DEF DispatchInv, TypeOK, LedgerExists
<1>9. TokensIssued'
  BY <1>1, <1>5 DEF DispatchInv, TokensIssued
<1>10. \A r \in Runners : (Crossing(r)' <=> Crossing(r)) /\ (Before(r)' <=> Before(r))
  BY <1>1 DEF Crossing, Before, At
<1>11. ASSUME ~ KeyEnforced
       PROVE  (OneCrossing /\ CrossedIsMarked /\ sends <= 1)'
  <2>1. Crossed' <=> Crossed
    BY <1>7, <1>10, <1>11 DEF Crossed
  <2>2. OneCrossing' /\ (sends <= 1)'
    BY <1>7, <1>10, <1>11 DEF DispatchInv, OneCrossing
  <2>3. CrossedIsMarked'
    BY <1>1, <1>5, <1>10, <1>11, <2>1 DEF DispatchInv, CrossedIsMarked
  <2> QED
    BY <2>2, <2>3
<1> QED
  BY <1>8, <1>9, <1>11 DEF DispatchInv

-----------------------------------------------------------------------------
(* DispatchInv is inductive.                                                *)
THEOREM Dispatch == Spec => []DispatchInv
<1>1. Init => DispatchInv
  BY DEF Init, DispatchInv, TypeOK, LedgerExists, TokensIssued, OneCrossing, CrossedIsMarked,
         Crossed, Crossing, At
<1>2. DispatchInv /\ [Next]_vars => DispatchInv'
  <2> SUFFICES ASSUME DispatchInv, [Next]_vars
               PROVE  DispatchInv'
    OBVIOUS
  <2>1. CASE UNCHANGED vars
    BY <2>1 DEF vars, DispatchInv, TypeOK, LedgerExists, TokensIssued, OneCrossing,
                CrossedIsMarked, Crossed, Crossing, Before, At
  <2>2. ASSUME NEW r \in Runners, Run(r)
        PROVE  DispatchInv'
    <3>1. CASE \E p \in Payloads : ClaimStrict(r, p) \/ ClaimLoose(r, p)
      BY <3>1, ClaimStrictStep, ClaimLooseStep
    <3>2. CASE RecordRun(r) \/ Withdraw(r)
      BY <3>2, RecordRunStep, WithdrawStep
    <3>3. CASE ReplayPick(r) \/ ReplayClaim(r)
      BY <3>3, ReplayPickStep, ReplayClaimStep
    <3>4. CASE MarkExternalCallStarted(r) \/ MirrorStart(r) \/ Send(r)
      BY <3>4, MarkStartedStep, MirrorStartStep, SendStep
    <3>5. CASE Complete(r) \/ CompleteLedger(r)
      BY <3>5, CompleteStep, FailureStep
    <3>6. CASE FailBeforeSend(r) \/ FailUnknown(r) \/ FailLedger(r) \/ Crash(r)
      BY <3>6, FailBeforeSendStep, FailUnknownStep, FailureStep
    <3> QED
      BY <2>2, <3>1, <3>2, <3>3, <3>4, <3>5, <3>6 DEF Run
  <2>3. CASE Reconcile \/ MarkUnrecoverable \/ Tick \/ \E p \in Payloads : Preflight(p)
    BY <2>3, OutsideStep
  <2> QED
    BY <2>1, <2>2, <2>3 DEF Next
<1> QED
  BY <1>1, <1>2, PTL DEF Spec

(* Rows, attempts and counters keep their types.                            *)
THEOREM EffectTypes == Spec => []TypeOK
<1>1. DispatchInv => TypeOK
  BY DEF DispatchInv
<1> QED
  BY <1>1, Dispatch, PTL

(* At most once: for any number of attempts, with or without transactions,  *)
(* a provider that does not deduplicate the key is called at most once.     *)
THEOREM AtMostOnce == Spec => []AtMostOnceDispatch
<1>1. DispatchInv => AtMostOnceDispatch
  BY DEF DispatchInv, AtMostOnceDispatch
<1> QED
  BY <1>1, Dispatch, PTL

-----------------------------------------------------------------------------
(* Strict callers.  Attempts keep to the strict steps.                      *)

(* A strict attempt stays strict when it moves on.                          *)
LEMMA NextStrict ==
    ASSUME TypeOK, NEW r \in Runners, runner[r] # Idle, StrictAttempt(runner[r]),
           NEW pc \in {"answer", "failing"}
    PROVE  /\ StrictAttempt([runner[r] EXCEPT !.pc = pc])
           /\ StrictAttempt([runner[r] EXCEPT !.pc = pc, !.manual = TRUE])
           /\ [runner[r] EXCEPT !.pc = pc].recorded = runner[r].recorded
           /\ [runner[r] EXCEPT !.pc = pc, !.manual = TRUE].manual
<1>1. runner[r] \in Attempt
  BY DEF TypeOK
<1> QED
  BY <1>1 DEF Attempt, StrictAttempt

(* The only steps left are those of a strict attempt.                       *)
StrictRun(r) ==
    \/ \E p \in Payloads : ClaimStrict(r, p)
    \/ ReplayPick(r) \/ ReplayClaim(r)
    \/ MarkExternalCallStarted(r) \/ Send(r) \/ Complete(r)
    \/ FailBeforeSend(r) \/ FailUnknown(r) \/ FailLedger(r) \/ Crash(r)

(* With strict callers no attempt takes a step of the others.               *)
LEMMA OnlyStrictRuns ==
    ASSUME Strict, StrictAttempts, NEW r \in Runners, Run(r)
    PROVE  StrictRun(r)
<1>1. ~ (At(r, "record") \/ At(r, "withdraw") \/ At(r, "mirror") \/ At(r, "completing"))
  BY DEF StrictAttempts, StrictAttempt, At
<1> QED
  BY <1>1 DEF Run, StrictRun, ClaimLoose, RecordRun, Withdraw, MirrorStart, CompleteLedger

(* The attempt that a strict step leaves in place.                          *)
LEMMA StrictSuccessor ==
    ASSUME DispatchInv, StrictAttempts, NEW r \in Runners, StrictRun(r)
    PROVE  \E x \in Attempt \cup {Idle} : Go(r, x) /\ (x # Idle => StrictAttempt(x))
<1>1. TypeOK /\ ClaimLease \in Nat /\ StaleAfter \in Nat
  BY EffectAssumption DEF DispatchInv
<1>2. CASE End(r)
  BY <1>2 DEF End
<1>3. ASSUME NEW p \in Payloads, ClaimStrict(r, p)
      PROVE  \E x \in Attempt \cup {Idle} : Go(r, x) /\ (x # Idle => StrictAttempt(x))
  <2>1. CASE Outcome(p) = "claimed"
    <3>1. /\ Attempted(p, TRUE, ClaimLease, "execute") \in Attempt
          /\ StrictAttempt(Attempted(p, TRUE, ClaimLease, "execute"))
      BY <1>1, AttemptedType DEF StrictAttempt
    <3> QED
      BY <1>3, <2>1, <3>1 DEF ClaimStrict
  <2>2. CASE Outcome(p) # "claimed"
    <3>1. Go(r, Idle)
      BY <1>1, <1>3, <2>2 DEF ClaimStrict, Go, TypeOK
    <3> QED
      BY <3>1
  <2> QED
    BY <2>1, <2>2
<1>4. CASE ReplayPick(r)
  <2> DEFINE y == Attempted(ledger.payload, TRUE, StaleAfter, "replay")
             x == [y EXCEPT !.token = 0]
  <2>1. ledger.payload \in Payloads
    BY <1>1, <1>4 DEF TypeOK, ReplayPick, Eligible, Ledger
  <2>2. y \in Attempt /\ y.pc = "replay" /\ y.strict
    BY <1>1, <2>1, AttemptedType
  <2>3. x \in Attempt /\ StrictAttempt(x)
    <3> HIDE DEF y
    <3> QED
      BY <2>2 DEF Attempt, StrictAttempt
  <2>4. Go(r, x)
    BY <1>4 DEF ReplayPick, Eligible
  <2> HIDE DEF x
  <2> QED
    BY <2>3, <2>4
<1>5. CASE ReplayClaim(r)
  <2> DEFINE p == runner[r].payload
  <2>1. p \in Payloads
    BY <1>1, <1>5 DEF TypeOK, ReplayClaim, At, Attempt
  <2>2. /\ Attempted(p, TRUE, StaleAfter, "execute") \in Attempt
        /\ StrictAttempt(Attempted(p, TRUE, StaleAfter, "execute"))
    BY <1>1, <2>1, AttemptedType DEF StrictAttempt
  <2>3. Go(r, Attempted(p, TRUE, StaleAfter, "execute")) \/ End(r)
    BY <1>5 DEF ReplayClaim
  <2> HIDE DEF p
  <2> QED
    BY <1>2, <2>2, <2>3
<1>6. CASE MarkExternalCallStarted(r)
  <2> DEFINE x == [runner[r] EXCEPT !.pc = IF runner[r].strict THEN "send" ELSE "mirror",
                                    !.token = tokens + 1, !.recorded = runner[r].strict]
  <2>1. runner[r] \in Attempt /\ runner[r].strict /\ tokens + 1 \in Nat
    BY <1>1, <1>6 DEF TypeOK, StrictAttempts, StrictAttempt, MarkExternalCallStarted, At
  <2>2. x \in Attempt /\ StrictAttempt(x)
    BY <2>1 DEF Attempt, StrictAttempt
  <2>3. Go(r, x) \/ End(r)
    BY <1>6 DEF MarkExternalCallStarted
  <2> HIDE DEF x
  <2> QED
    BY <1>2, <2>2, <2>3
<1>7. CASE Send(r) \/ Complete(r) \/ FailBeforeSend(r) \/ FailUnknown(r)
  <2>1. runner[r] # Idle /\ StrictAttempt(runner[r]) /\ runner[r].strict
    BY <1>7 DEF StrictAttempts, StrictAttempt, Send, Complete, FailBeforeSend, FailUnknown, At
  <2>2. /\ [runner[r] EXCEPT !.pc = "answer"] \in Attempt
        /\ StrictAttempt([runner[r] EXCEPT !.pc = "answer"])
    BY <1>1, <2>1, NextAttempt, NextStrict
  <2>3. /\ [runner[r] EXCEPT !.pc = "failing"] \in Attempt
        /\ StrictAttempt([runner[r] EXCEPT !.pc = "failing"])
        /\ [runner[r] EXCEPT !.pc = "failing", !.manual = TRUE] \in Attempt
        /\ StrictAttempt([runner[r] EXCEPT !.pc = "failing", !.manual = TRUE])
    BY <1>1, <2>1, NextAttempt, NextStrict
  <2>4. \/ Go(r, [runner[r] EXCEPT !.pc = "answer"])
        \/ Go(r, [runner[r] EXCEPT !.pc = "failing"])
        \/ Go(r, [runner[r] EXCEPT !.pc = "failing", !.manual = TRUE])
        \/ End(r)
    BY <1>7, <2>1 DEF Send, Complete, FailBeforeSend, FailUnknown, End
  <2> QED
    BY <1>2, <2>2, <2>3, <2>4
<1>8. CASE FailLedger(r) \/ Crash(r)
  BY <1>2, <1>8 DEF FailLedger, Crash
<1> QED
  BY <1>3, <1>4, <1>5, <1>6, <1>7, <1>8 DEF StrictRun

(* Hence attempts stay strict.                                              *)
LEMMA StrictAttemptsStep ==
    ASSUME DispatchInv, StrictAttempts, NEW r \in Runners, StrictRun(r)
    PROVE  StrictAttempts'
<1>1. PICK x \in Attempt \cup {Idle} : Go(r, x) /\ (x # Idle => StrictAttempt(x))
  BY StrictSuccessor
<1>2. /\ runner'[r] = x
      /\ \A s \in Runners : s # r => runner'[s] = runner[s]
  BY <1>1, GoFacts DEF DispatchInv
<1> QED
  BY <1>1, <1>2 DEF StrictAttempts

(* A record of a claim completes nothing and keeps what lies beyond the     *)
(* boundary there; one that lets a claim pass finds nothing beyond it.      *)
LEMMA RecordedFacts ==
    ASSUME TypeOK, NEW o \in Outcomes, NEW p \in Payloads
    PROVE  /\ Recorded(o, p).status = "completed" <=> ledger # NoRow /\ ledger.status = "completed"
           /\ Beyond => Recorded(o, p).status \in {"external_call_started",
                                                  "unknown_external_outcome", "completed"}
           /\ Open(Recorded(o, p), p) /\ o = "claimed" => ~ Beyond
<1>1. FirstStatus(o) \in LedgerStatuses /\ FirstStatus(o) # "completed"
  BY DEF FirstStatus, LedgerStatuses
<1>2. Row(FirstStatus(o), p).status = FirstStatus(o)
  BY <1>1, RowType
<1>3. ledger # NoRow => /\ Marked("claimed_not_sent").status = "claimed_not_sent"
                       /\ Marked("unknown_external_outcome").status = "unknown_external_outcome"
  BY MarkedType DEF LedgerStatuses
<1> QED
  BY <1>1, <1>2, <1>3 DEF Recorded, Beyond, Open

(* With strict callers every step completes both rows or neither.           *)
LEMMA AgreeStep ==
    ASSUME AgreeInv, NEW r \in Runners, StrictRun(r)
    PROVE  LedgersAgree'
<1>1. /\ TypeOK /\ LedgersAgree /\ ClaimLease \in Nat /\ StaleAfter \in Nat
      /\ NoRow \notin Ledger /\ NoRow \notin Mutation
  BY EffectAssumption DEF AgreeInv, DispatchInv
<1> DEFINE mutDone == mut # NoRow /\ mut.status = "completed"
           ledgerDone == ledger # NoRow /\ ledger.status = "completed"
<1>2. mutDone <=> ledgerDone
  BY <1>1 DEF LedgersAgree
<1>3. ASSUME NEW p \in Payloads, NEW lease \in Nat, mut' = Claimed(p, lease)
      PROVE  mutDone' <=> mutDone
  <2>1. CASE Verdict(p) \in Claims \cup {"settle"}
    <3>1. mut' \in Mutation /\ mut'.status # "completed"
      BY <1>1, <1>3, <2>1, ClaimedType DEF Claims
    <3>2. ~ mutDone
      BY <1>1, <2>1, VerdictFacts DEF Claims
    <3> QED
      BY <3>1, <3>2
  <2>2. CASE Verdict(p) \notin Claims \cup {"settle"}
    <3>1. mut' = mut
      BY <1>1, <1>3, <2>2, ClaimedType
    <3> QED
      BY <3>1
  <2> QED
    BY <2>1, <2>2
<1>4. ASSUME NEW p \in Payloads, NEW o \in Outcomes, ledger' = Recorded(o, p)
      PROVE  ledgerDone' <=> ledgerDone
  <2>1. ledger' # NoRow
    BY <1>1, <1>4, RecordedType
  <2> QED
    BY <1>1, <1>4, <2>1, RecordedFacts
<1>5. ASSUME NEW p \in Payloads, ClaimStrict(r, p)
      PROVE  LedgersAgree'
  <2>1. mut' = Claimed(p, ClaimLease) /\ ledger' = Recorded(Outcome(p), p)
    BY <1>5 DEF ClaimStrict
  <2>2. Outcome(p) \in Outcomes
    BY <1>1, OutcomeFacts
  <2>3. (mutDone' <=> mutDone) /\ (ledgerDone' <=> ledgerDone)
    BY <1>1, <1>3, <1>4, <2>1, <2>2
  <2> QED
    BY <1>2, <2>3 DEF LedgersAgree
<1>6. CASE ReplayClaim(r)
  <2> DEFINE p == runner[r].payload
  <2>1. p \in Payloads /\ "unknown_after_send" \in Outcomes
    BY <1>1, <1>6 DEF TypeOK, ReplayClaim, At, Attempt, Outcomes
  <2>2. mut' = mut \/ mut' = Claimed(p, StaleAfter)
    BY <1>6 DEF ReplayClaim
  <2>3. ledger' = ledger \/ ledger' = Recorded("unknown_after_send", p)
    BY <1>6 DEF ReplayClaim
  <2> HIDE DEF p
  <2>4. mutDone' <=> mutDone
    BY <1>1, <1>3, <2>1, <2>2
  <2>5. ledgerDone' <=> ledgerDone
    BY <1>4, <2>1, <2>3
  <2> QED
    BY <1>2, <2>4, <2>5 DEF LedgersAgree
<1>7. CASE ReplayPick(r) \/ Send(r) \/ Crash(r)
  BY <1>1, <1>7 DEF LedgersAgree, ReplayPick, Eligible, Send, Crash
<1>8. runner[r] # Idle => runner[r].strict /\ (runner[r].pc # "record" => ledger # NoRow)
  BY DEF AgreeInv, DispatchInv, LedgerExists, StrictAttempts, StrictAttempt
<1>9. CASE MarkExternalCallStarted(r)
  <2>1. CASE ~ MayCross(r)
    BY <1>1, <1>9, <2>1 DEF MarkExternalCallStarted, LedgersAgree
  <2>2. CASE MayCross(r)
    <3>1. runner[r] # Idle /\ ledger # NoRow /\ runner[r].strict /\ Owns(r)
      BY <1>8, <1>9, <2>2 DEF MarkExternalCallStarted, At, MayCross
    <3>2. mut' = Dispatched(r) /\ ledger' = Marked("external_call_started")
      BY <1>9, <2>2, <3>1 DEF MarkExternalCallStarted
    <3>3. mut'.status = "pending"
      BY <1>1, <3>1, <3>2, DispatchedType
    <3>4. ledger'.status = "external_call_started"
      BY <1>1, <3>1, <3>2, MarkedType DEF LedgerStatuses
    <3> QED
      BY <3>3, <3>4 DEF LedgersAgree
  <2> QED
    BY <2>1, <2>2
<1>10. CASE Complete(r)
  <2>1. runner[r].strict /\ ledger # NoRow
    BY <1>8, <1>10 DEF Complete, At
  <2>2. CASE Owns(r)
    <3>1. mut # NoRow /\ mut' = Settled("completed") /\ ledger' = Marked("completed")
      BY <1>10, <2>1, <2>2 DEF Complete, Owns
    <3>2. mut' \in Mutation /\ mut'.status = "completed"
      BY <1>1, <3>1, SettledType
    <3>3. ledger' \in Ledger /\ ledger'.status = "completed"
      BY <1>1, <2>1, <3>1, MarkedType DEF LedgerStatuses
    <3> QED
      BY <1>1, <3>2, <3>3 DEF LedgersAgree
  <2>3. CASE ~ Owns(r)
    BY <1>1, <1>10, <2>1, <2>3 DEF Complete, LedgersAgree
  <2> QED
    BY <2>2, <2>3
<1>11. CASE FailBeforeSend(r) \/ FailUnknown(r)
  <2>1. ledger' = ledger /\ (mut' = mut \/ (Owns(r) /\ mut' \in {Settled("failed"), Settled("unknown_after_send")}))
    BY <1>11 DEF FailBeforeSend, FailUnknown
  <2>2. CASE mut' = mut
    BY <1>1, <2>1, <2>2 DEF LedgersAgree
  <2>3. CASE Owns(r) /\ mut' \in {Settled("failed"), Settled("unknown_after_send")}
    <3>1. mut # NoRow /\ mut.status = "pending"
      BY <2>3 DEF Owns
    <3>2. mut'.status # "completed"
      BY <1>1, <2>3, <3>1, SettledType
    <3> QED
      BY <1>2, <2>1, <3>1, <3>2 DEF LedgersAgree
  <2> QED
    BY <2>1, <2>2, <2>3
<1>12. CASE FailLedger(r)
  <2>1. runner[r].strict /\ ledger # NoRow /\ mut' = mut
    BY <1>8, <1>12 DEF FailLedger, At
  <2>2. CASE ledger.status # Expected(runner[r])
    BY <1>1, <1>12, <2>1, <2>2 DEF FailLedger, LedgersAgree
  <2>3. CASE ledger.status = Expected(runner[r])
    <3>1. ledger' \in {Marked("unknown_external_outcome"), Marked("failed_before_boundary")}
      BY <1>12, <2>3 DEF FailLedger
    <3>2. ledger'.status # "completed"
      BY <1>1, <2>1, <3>1, MarkedType DEF LedgerStatuses
    <3>3. ledger.status # "completed"
      BY <2>3 DEF Expected
    <3> QED
      BY <1>2, <2>1, <3>2, <3>3 DEF LedgersAgree
  <2> QED
    BY <2>2, <2>3
<1> QED
  BY <1>5, <1>6, <1>7, <1>9, <1>10, <1>11, <1>12 DEF StrictRun

(* Reconciliation completes both rows; the other steps complete none.       *)
LEMMA AgreeOutside ==
    ASSUME AgreeInv,
           Reconcile \/ MarkUnrecoverable \/ Tick \/ \E p \in Payloads : Preflight(p)
    PROVE  LedgersAgree' /\ StrictAttempts'
<1>1. TypeOK /\ LedgersAgree /\ NoRow \notin Ledger /\ NoRow \notin Mutation
  BY EffectAssumption DEF AgreeInv, DispatchInv
<1>2. StrictAttempts'
  BY DEF AgreeInv, StrictAttempts, Reconcile, MarkUnrecoverable, Tick, Preflight
<1>3. ASSUME Reconcile PROVE LedgersAgree'
  <2>1. mut # NoRow /\ ledger # NoRow /\ mut' = Settled("completed") /\ ledger' = Marked("completed")
    BY <1>3 DEF Reconcile
  <2>2. mut' \in Mutation /\ mut'.status = "completed"
    BY <1>1, <2>1, SettledType
  <2>3. ledger' \in Ledger /\ ledger'.status = "completed"
    BY <1>1, <2>1, MarkedType DEF LedgerStatuses
  <2> QED
    BY <1>1, <2>2, <2>3 DEF LedgersAgree
<1>4. ASSUME MarkUnrecoverable PROVE LedgersAgree'
  <2>1. /\ ledger # NoRow /\ ledger.status = "external_call_started"
        /\ ledger' = Marked("unknown_external_outcome") /\ mut' = mut
    BY <1>4 DEF MarkUnrecoverable
  <2>2. ledger'.status = "unknown_external_outcome"
    BY <1>1, <2>1, MarkedType DEF LedgerStatuses
  <2> QED
    BY <1>1, <2>1, <2>2 DEF LedgersAgree
<1>5. ASSUME Tick PROVE LedgersAgree'
  BY <1>1, <1>5 DEF Tick, LedgersAgree
<1>6. ASSUME NEW p \in Payloads, Preflight(p) PROVE LedgersAgree'
  <2>1. ledger'.status = "idempotency_unavailable"
    BY <1>1, <1>6, RowType DEF Preflight, LedgerStatuses
  <2> QED
    BY <1>1, <1>6, <2>1 DEF Preflight, LedgersAgree
<1> QED
  BY <1>2, <1>3, <1>4, <1>5, <1>6

(* AgreeInv is inductive over DispatchInv when all callers are strict.      *)
THEOREM StrictCallers == Strict => (Spec => []AgreeInv)
<1> SUFFICES ASSUME Strict
             PROVE  Spec => []AgreeInv
  OBVIOUS
<1>1. Init => AgreeInv
  BY DEF Init, AgreeInv, StrictAttempts, LedgersAgree, DispatchInv, TypeOK, LedgerExists,
         TokensIssued, OneCrossing, CrossedIsMarked, Crossed, Crossing, At
<1>2. AgreeInv /\ DispatchInv' /\ [Next]_vars => AgreeInv'
  <2> SUFFICES ASSUME AgreeInv, DispatchInv', [Next]_vars
               PROVE  LedgersAgree' /\ StrictAttempts'
    BY DEF AgreeInv
  <2>1. CASE UNCHANGED vars
    BY <2>1 DEF vars, AgreeInv, LedgersAgree, StrictAttempts
  <2>2. ASSUME NEW r \in Runners, Run(r)
        PROVE  LedgersAgree' /\ StrictAttempts'
    <3>1. StrictRun(r)
      BY <2>2, OnlyStrictRuns DEF AgreeInv
    <3> QED
      BY <3>1, AgreeStep, StrictAttemptsStep DEF AgreeInv
  <2>3. CASE Reconcile \/ MarkUnrecoverable \/ Tick \/ \E p \in Payloads : Preflight(p)
    BY <2>3, AgreeOutside
  <2> QED
    BY <2>1, <2>2, <2>3 DEF Next
<1> QED
  BY <1>1, <1>2, Dispatch, PTL DEF Spec

(* With strict callers the two rows agree on completion: what the replay    *)
(* worker, recovery and an operator read in the ledger as completed is what *)
(* a repeated request is refused for.                                       *)
THEOREM Agreement == Strict => (Spec => []LedgersAgree)
<1>1. AgreeInv => LedgersAgree
  BY DEF AgreeInv
<1> QED
  BY <1>1, StrictCallers, PTL

-----------------------------------------------------------------------------
(* What recovery reads in the ledger.                                       *)

(* A step that crosses nothing, proves nothing and leaves the ledger beyond *)
(* the boundary if it was there.                                            *)
LEMMA KeepsRecovery ==
    ASSUME RecoveryInv, Beyond => Beyond', Crossed' => Crossed,
           \A s \in Runners : Proven(s)' => Proven(s)
    PROVE  RecoveryInv'
BY DEF RecoveryInv

(* The same for a step of one attempt that moves on.                        *)
LEMMA MovesOnRecovery ==
    ASSUME TypeOK, RecoveryInv, Beyond => Beyond', NEW r \in Runners,
           NEW x \in Attempt \cup {Idle}, Go(r, x), MovesOn(r, x), sends' = sends,
           x # Idle /\ x.pc = "failing" => x.manual \/ ~ x.recorded
    PROVE  RecoveryInv'
<1>1. /\ runner'[r] = x
      /\ \A s \in Runners : s # r => runner'[s] = runner[s]
  BY GoFacts
<1>2. Crossed' => Crossed
  BY MovesOnCrossing DEF Crossed
<1>3. \A s \in Runners : Proven(s)' => Proven(s)
  BY <1>1 DEF Proven, At
<1> QED
  BY <1>2, <1>3, KeepsRecovery

(* A claim or a replay changes no attempt that crossed.                     *)
LEMMA ClaimRecovery ==
    ASSUME TypeOK, RecoveryInv, Beyond => Beyond', NEW r \in Runners,
           NEW x \in Attempt \cup {Idle}, Go(r, x), sends' = sends,
           x # Idle => x.pc \in {"replay", "execute"}
    PROVE  RecoveryInv'
<1>1. /\ runner'[r] = x
      /\ \A s \in Runners : s # r => runner'[s] = runner[s]
  BY GoFacts
<1>2. Crossed' => Crossed
  BY <1>1 DEF Crossed, Crossing, At
<1>3. \A s \in Runners : Proven(s)' => Proven(s)
  BY <1>1 DEF Proven, At
<1> QED
  BY <1>2, <1>3, KeepsRecovery

(* A claim that the ledger lets pass finds nothing beyond the boundary.     *)
LEMMA ClaimStrictRecovery ==
    ASSUME AgreeInv, RecoveryInv, NEW r \in Runners, NEW p \in Payloads, ClaimStrict(r, p)
    PROVE  RecoveryInv'
<1> DEFINE y == Attempted(p, TRUE, ClaimLease, "execute")
           x == IF Outcome(p) = "claimed" THEN y ELSE Idle
<1>1. TypeOK /\ ClaimLease \in Nat /\ runner[r] = Idle /\ sends' = sends
  BY EffectAssumption DEF AgreeInv, DispatchInv, ClaimStrict
<1>2. y \in Attempt /\ y.pc = "execute"
  BY <1>1, AttemptedType
<1>3. Go(r, x)
  <2>1. CASE Outcome(p) = "claimed"
    BY <2>1 DEF ClaimStrict
  <2>2. CASE Outcome(p) # "claimed"
    BY <2>2, <1>1 DEF ClaimStrict, Go, TypeOK
  <2> QED
    BY <2>1, <2>2
<1>4. Beyond => Beyond'
  <2>1. ledger' = Recorded(Outcome(p), p) /\ Outcome(p) \in Outcomes
    BY <1>1, OutcomeFacts DEF ClaimStrict
  <2>2. ledger' \in Ledger /\ ledger' # NoRow
    BY <1>1, <2>1, RecordedType, EffectAssumption
  <2> QED
    BY <1>1, <2>1, <2>2, RecordedFacts DEF Beyond
<1>5. x \in Attempt \cup {Idle} /\ (x # Idle => x.pc \in {"replay", "execute"})
  BY <1>2
<1> HIDE DEF x
<1> QED
  BY <1>1, <1>3, <1>4, <1>5, ClaimRecovery

(* Nor does a replay, which reads the ledger again.                         *)
LEMMA ReplayRecovery ==
    ASSUME AgreeInv, RecoveryInv, NEW r \in Runners, ReplayPick(r) \/ ReplayClaim(r)
    PROVE  RecoveryInv'
<1>1. TypeOK /\ StaleAfter \in Nat /\ sends' = sends
  BY EffectAssumption DEF AgreeInv, DispatchInv, ReplayPick, Eligible, ReplayClaim
<1>2. CASE ReplayPick(r)
  <2> DEFINE y == Attempted(ledger.payload, TRUE, StaleAfter, "replay")
             x == [y EXCEPT !.token = 0]
  <2>1. ledger.payload \in Payloads
    BY <1>1, <1>2 DEF TypeOK, ReplayPick, Eligible, Ledger
  <2>2. y \in Attempt /\ y.pc = "replay"
    BY <1>1, <2>1, AttemptedType
  <2>3. x \in Attempt /\ x.pc = "replay"
    <3> HIDE DEF y
    <3> QED
      BY <2>2 DEF Attempt
  <2>4. Go(r, x) /\ ledger' = ledger
    BY <1>2 DEF ReplayPick, Eligible
  <2>5. Beyond => Beyond'
    BY <2>4 DEF Beyond
  <2> HIDE DEF x
  <2> QED
    BY <1>1, <2>3, <2>4, <2>5, ClaimRecovery
<1>3. CASE ReplayClaim(r)
  <2> DEFINE p == runner[r].payload
             y == Attempted(p, TRUE, StaleAfter, "execute")
  <2>1. p \in Payloads
    BY <1>1, <1>3 DEF TypeOK, ReplayClaim, At, Attempt
  <2>2. y \in Attempt /\ y.pc = "execute"
    BY <1>1, <2>1, AttemptedType
  <2>3. PICK x \in {Idle, y} : Go(r, x)
    BY <1>3 DEF ReplayClaim, End
  <2>4. Beyond => Beyond'
    BY <1>3 DEF ReplayClaim, Beyond, Open
  <2> HIDE DEF y
  <2> QED
    BY <1>1, <2>2, <2>3, <2>4, ClaimRecovery
<1> QED
  BY <1>2, <1>3

(* The boundary: the open ledger row shows that nothing crossed and that no *)
(* attempt is about to reopen it.                                           *)
LEMMA MarkStartedRecovery ==
    ASSUME AgreeInv, RecoveryInv, NEW r \in Runners, MarkExternalCallStarted(r)
    PROVE  RecoveryInv'
<1>1. /\ TypeOK /\ runner[r] # Idle /\ runner[r].strict /\ ledger # NoRow /\ sends' = sends
      /\ runner[r] \in Attempt
  BY DEF AgreeInv, DispatchInv, TypeOK, LedgerExists, StrictAttempts, StrictAttempt,
         MarkExternalCallStarted, At
<1>2. CASE ~ MayCross(r)
  <2>1. Go(r, Idle) /\ ledger' = ledger /\ MovesOn(r, Idle)
    BY <1>2 DEF MarkExternalCallStarted, End, MovesOn
  <2>2. Beyond => Beyond'
    BY <2>1 DEF Beyond
  <2> QED
    BY <1>1, <2>1, <2>2, MovesOnRecovery
<1>3. CASE MayCross(r)
  <2> DEFINE x == [runner[r] EXCEPT !.pc = IF runner[r].strict THEN "send" ELSE "mirror",
                                    !.token = tokens + 1, !.recorded = runner[r].strict]
  <2>1. ~ Beyond
    BY <1>1, <1>3 DEF MayCross, Beyond
  <2>2. ledger' = Marked("external_call_started")
    BY <1>1, <1>3 DEF MarkExternalCallStarted
  <2>3. Beyond'
    <3>1. ledger' \in Ledger /\ ledger'.status = "external_call_started"
      BY <1>1, <2>2, MarkedType DEF LedgerStatuses
    <3> QED
      BY <3>1, EffectAssumption DEF Beyond
  <2>4. tokens + 1 \in Nat
    BY <1>1 DEF TypeOK
  <2>5. Go(r, x) /\ x \in Attempt /\ x.pc = "send"
    BY <1>1, <1>3, <2>4 DEF MarkExternalCallStarted, Attempt
  <2> HIDE DEF x
  <2>6. /\ runner'[r] = x
        /\ \A s \in Runners : s # r => runner'[s] = runner[s]
    BY <1>1, <2>5, GoFacts
  <2>7. \A s \in Runners : ~ Proven(s)'
    BY <2>1, <2>5, <2>6 DEF RecoveryInv, Proven, At
  <2> QED
    BY <2>3, <2>7 DEF RecoveryInv
<1> QED
  BY <1>2, <1>3

(* The call is made by an attempt that had already crossed.                 *)
LEMMA SendRecovery ==
    ASSUME AgreeInv, RecoveryInv, NEW r \in Runners, Send(r)
    PROVE  RecoveryInv'
<1>1. TypeOK /\ runner[r] # Idle /\ Crossing(r) /\ ledger' = ledger
  BY DEF AgreeInv, DispatchInv, Send, Crossing, At
<1>2. Crossed
  BY <1>1 DEF Crossed
<1>3. Beyond => Beyond'
  BY <1>1 DEF Beyond
<1> DEFINE x == [runner[r] EXCEPT !.pc = "answer"]
<1>4. Go(r, x) /\ x \in Attempt /\ x.pc = "answer"
  BY <1>1, NextAttempt DEF Send
<1> HIDE DEF x
<1>5. \A s \in Runners : Proven(s)' => Proven(s)
  <2>1. /\ runner'[r] = x
        /\ \A s \in Runners : s # r => runner'[s] = runner[s]
    BY <1>1, <1>4, GoFacts
  <2> QED
    BY <1>4, <2>1 DEF Proven, At
<1> QED
  BY <1>2, <1>3, <1>5, KeepsRecovery

(* Completions, unknown outcomes and exits keep the ledger beyond the       *)
(* boundary.                                                                *)
LEMMA SettleRecovery ==
    ASSUME AgreeInv, RecoveryInv, NEW r \in Runners, Complete(r) \/ FailUnknown(r) \/ Crash(r)
    PROVE  RecoveryInv'
<1> DEFINE unknown == [runner[r] EXCEPT !.pc = "failing", !.manual = TRUE]
<1>1. TypeOK /\ runner[r] # Idle /\ runner[r].strict /\ StrictAttempt(runner[r])
      /\ ledger # NoRow /\ sends' = sends
  BY DEF AgreeInv, DispatchInv, LedgerExists, StrictAttempts, StrictAttempt,
         Complete, FailUnknown, Crash, At
<1>2. unknown \in Attempt /\ unknown.pc = "failing" /\ unknown.token = runner[r].token
  BY <1>1, NextAttempt
<1>3. unknown.manual
  BY <1>1, NextStrict
<1>4. PICK x \in {Idle, unknown} : Go(r, x)
  BY <1>1 DEF Complete, FailUnknown, Crash, End
<1> HIDE DEF unknown
<1>5. MovesOn(r, x)
  BY <1>1, <1>2, <1>4 DEF MovesOn, PreBoundary, AtBoundary
<1>6. ledger' = ledger \/ ledger' = Marked("completed")
  BY <1>1 DEF Complete, FailUnknown, Crash
<1>7. Marked("completed") \in Ledger /\ Marked("completed").status = "completed"
  BY <1>1, MarkedType DEF LedgerStatuses
<1>8. Beyond => Beyond'
  BY <1>6, <1>7, EffectAssumption DEF Beyond
<1> QED
  BY <1>1, <1>2, <1>3, <1>4, <1>5, <1>8, MovesOnRecovery

(* A proof that nothing was sent is given by the one attempt that crossed.  *)
LEMMA FailBeforeSendRecovery ==
    ASSUME AgreeInv, RecoveryInv, ~ KeyEnforced, NEW r \in Runners, FailBeforeSend(r)
    PROVE  RecoveryInv'
<1> DEFINE x == [runner[r] EXCEPT !.pc = "failing"]
<1>1. /\ TypeOK /\ runner[r] # Idle /\ runner[r].pc \in {"execute", "send"}
      /\ StrictAttempt(runner[r]) /\ sends' = sends /\ ledger' = ledger
  BY DEF AgreeInv, DispatchInv, StrictAttempts, FailBeforeSend, At
<1>2. Beyond <=> Beyond'
  BY <1>1 DEF Beyond
<1>3. CASE End(r)
  <2>1. Go(r, Idle) /\ MovesOn(r, Idle)
    BY <1>3 DEF End, MovesOn
  <2> QED
    BY <1>1, <1>2, <2>1, MovesOnRecovery
<1>4. CASE Go(r, x)
  <2>1. x \in Attempt /\ x.pc = "failing" /\ x.token = runner[r].token
    BY <1>1, NextAttempt
  <2>2. x.recorded = runner[r].recorded
    BY <1>1, NextStrict
  <2> HIDE DEF x
  <2>3. MovesOn(r, x)
    BY <1>1, <2>1 DEF MovesOn, PreBoundary, AtBoundary
  <2>4. CASE runner[r].pc = "execute"
    <3>1. ~ x.recorded
      BY <1>1, <2>2, <2>4 DEF StrictAttempt
    <3> QED
      BY <1>1, <1>2, <1>4, <2>1, <2>3, <3>1, MovesOnRecovery
  <2>5. CASE runner[r].pc = "send"
    <3>1. Crossing(r) /\ Crossed
      BY <1>1, <2>5 DEF Crossing, Crossed, At
    <3>2. sends = 0 /\ \A s \in Runners : Crossing(s) => s = r
      BY <3>1 DEF AgreeInv, DispatchInv, OneCrossing
    <3>3. /\ runner'[r] = x
          /\ \A s \in Runners : s # r => runner'[s] = runner[s]
      BY <1>1, <1>4, <2>1, GoFacts
    <3>4. ~ Crossed'
      BY <1>1, <2>1, <3>2, <3>3 DEF Crossed, Crossing, At
    <3>5. Beyond' /\ \A s \in Runners : ~ Proven(s)
      BY <1>2, <3>1 DEF RecoveryInv
    <3>6. \A s \in Runners : Proven(s)' => s = r
      BY <3>3, <3>5 DEF Proven, At
    <3> QED
      BY <3>4, <3>5, <3>6 DEF RecoveryInv
  <2> QED
    BY <1>1, <2>4, <2>5
<1> QED
  BY <1>3, <1>4 DEF FailBeforeSend

(* The late write of a failure finds its own status, or changes nothing.    *)
LEMMA FailLedgerRecovery ==
    ASSUME AgreeInv, RecoveryInv, NEW r \in Runners, FailLedger(r)
    PROVE  RecoveryInv'
<1>1. /\ TypeOK /\ runner[r] # Idle /\ runner[r].strict /\ ledger # NoRow /\ sends' = sends
      /\ At(r, "failing")
  BY DEF AgreeInv, DispatchInv, LedgerExists, StrictAttempts, StrictAttempt, FailLedger, At
<1>2. Go(r, Idle) /\ MovesOn(r, Idle)
  BY DEF FailLedger, End, MovesOn
<1>3. /\ Marked("unknown_external_outcome") \in Ledger
      /\ Marked("unknown_external_outcome").status = "unknown_external_outcome"
  BY <1>1, MarkedType DEF LedgerStatuses
<1>4. CASE ledger.status # Expected(runner[r]) \/ runner[r].manual
  <2>1. ledger' = ledger \/ ledger' = Marked("unknown_external_outcome")
    BY <1>1, <1>4 DEF FailLedger
  <2>2. Beyond => Beyond'
    BY <1>3, <2>1, EffectAssumption DEF Beyond
  <2> QED
    BY <1>1, <1>2, <2>2, MovesOnRecovery
<1>5. CASE ledger.status = Expected(runner[r]) /\ ~ runner[r].recorded
  <2>1. ~ Beyond
    BY <1>5 DEF Expected, Beyond
  <2> QED
    BY <1>1, <1>2, <2>1, MovesOnRecovery
<1>6. CASE ~ runner[r].manual /\ runner[r].recorded
  <2>1. Proven(r)
    BY <1>1, <1>6 DEF Proven
  <2>2. ~ Crossed /\ \A s \in Runners : Proven(s) => s = r
    BY <2>1 DEF RecoveryInv
  <2>3. /\ runner'[r] = Idle
        /\ \A s \in Runners : s # r => runner'[s] = runner[s]
    BY <1>1, <1>2, GoFacts
  <2>4. ~ Crossed'
    BY <1>1, <1>2, <2>2, MovesOnCrossing DEF Crossed
  <2>5. \A s \in Runners : ~ Proven(s)'
    BY <2>2, <2>3 DEF Proven, At
  <2> QED
    BY <2>4, <2>5 DEF RecoveryInv
<1> QED
  BY <1>4, <1>5, <1>6

(* So do reconciliation and the end of the durable run.                     *)
LEMMA OutsideRecovery ==
    ASSUME AgreeInv, RecoveryInv, ~ KeyEnforced,
           Reconcile \/ MarkUnrecoverable \/ Tick \/ \E p \in Payloads : Preflight(p)
    PROVE  RecoveryInv'
<1>1. TypeOK /\ runner' = runner /\ sends' = sends
  BY DEF AgreeInv, DispatchInv, Reconcile, MarkUnrecoverable, Tick, Preflight
<1>2. \/ ledger # NoRow /\ ledger' \in {Marked("completed"), Marked("unknown_external_outcome")}
      \/ ledger' = ledger
      \/ ledger = NoRow
  BY DEF Reconcile, MarkUnrecoverable, Tick, Preflight
<1>3. Beyond => Beyond'
  <2>1. CASE ledger # NoRow /\ ledger' \in {Marked("completed"), Marked("unknown_external_outcome")}
    BY <1>1, <2>1, MarkedType, EffectAssumption DEF Beyond, LedgerStatuses
  <2>2. CASE ledger' = ledger \/ ledger = NoRow
    BY <2>2 DEF Beyond
  <2> QED
    BY <1>2, <2>1, <2>2
<1>4. Crossed' => Crossed
  BY <1>1 DEF Crossed, Crossing, At
<1>5. \A s \in Runners : Proven(s)' => Proven(s)
  BY <1>1 DEF Proven, At
<1> QED
  BY <1>3, <1>4, <1>5, KeepsRecovery

(* With strict callers and a provider that does not deduplicate the key, an *)
(* effect that reached the provider never looks unsent to recovery.         *)
THEOREM Recovery == Strict /\ ~ KeyEnforced => (Spec => []RecoverySafe)
<1> SUFFICES ASSUME Strict, ~ KeyEnforced
             PROVE  Spec => []RecoverySafe
  OBVIOUS
<1>1. Init => RecoveryInv
  BY DEF Init, RecoveryInv, Crossed, Crossing, Proven, At
<1>2. AgreeInv /\ RecoveryInv /\ [Next]_vars => RecoveryInv'
  <2> SUFFICES ASSUME AgreeInv, RecoveryInv, [Next]_vars
               PROVE  RecoveryInv'
    OBVIOUS
  <2>1. CASE UNCHANGED vars
    BY <2>1 DEF vars, RecoveryInv, Crossed, Crossing, Proven, Beyond, At
  <2>2. ASSUME NEW r \in Runners, Run(r)
        PROVE  RecoveryInv'
    <3>1. StrictRun(r)
      BY <2>2, OnlyStrictRuns DEF AgreeInv
    <3>2. CASE \E p \in Payloads : ClaimStrict(r, p)
      BY <3>2, ClaimStrictRecovery
    <3>3. CASE ReplayPick(r) \/ ReplayClaim(r)
      BY <3>3, ReplayRecovery
    <3>4. CASE MarkExternalCallStarted(r) \/ Send(r)
      BY <3>4, MarkStartedRecovery, SendRecovery
    <3>5. CASE Complete(r) \/ FailUnknown(r) \/ Crash(r)
      BY <3>5, SettleRecovery
    <3>6. CASE FailBeforeSend(r) \/ FailLedger(r)
      BY <3>6, FailBeforeSendRecovery, FailLedgerRecovery
    <3> QED
      BY <3>1, <3>2, <3>3, <3>4, <3>5, <3>6 DEF StrictRun
  <2>3. CASE Reconcile \/ MarkUnrecoverable \/ Tick \/ \E p \in Payloads : Preflight(p)
    BY <2>3, OutsideRecovery
  <2> QED
    BY <2>1, <2>2, <2>3 DEF Next
<1>3. RecoveryInv => RecoverySafe
  BY DEF RecoveryInv, RecoverySafe, Recoverable, Crossed, Beyond
<1> QED
  BY <1>1, <1>2, <1>3, StrictCallers, PTL DEF Spec

=============================================================================
