--------------------------- MODULE OneEffectProofs ---------------------------
(****************************************************************************)
(* What a key promises to the outside: the provider sees one payload under  *)
(* it.  PayloadInv ties the payload of the mutation row to the attempts     *)
(* that own it or crossed the boundary, and to the ledger row from which a  *)
(* reconciliation repeats the request; a row is dropped only by the first   *)
(* owner of its life, who knows that nothing was sent.                      *)
(****************************************************************************)
EXTENDS ExternalSideEffectProofs

(* The ledger lets only attempts of its own payload execute.                *)
LedgerPayload ==
    \A r \in Runners : runner[r] # Idle /\ runner[r].pc \notin {"record", "withdraw"} =>
        ledger.payload = runner[r].payload

OwnerPayload ==
    \A r \in Runners : runner[r] # Idle /\ Owns(r) => mut.payload = runner[r].payload

CrossingPayload ==
    \A r \in Runners : Crossing(r) => mut # NoRow /\ mut.payload = runner[r].payload

(* The first owner of a row, before the boundary: nothing crossed it.       *)
FirstUnsent ==
    \A r \in Runners : Before(r) /\ ~ runner[r].retry /\ Owns(r) =>
        carried = {} /\ \A s \in Runners : ~ Crossing(s)

(* What may be reconciled was let pass by the ledger.                       *)
DispatchedLedger ==
    mut # NoRow /\ (mut.dispatched \/ mut.status = "unknown_after_send") =>
        ledger # NoRow /\ ledger.payload = mut.payload

PayloadInv ==
    /\ OnePayload
    /\ LedgerPayload
    /\ OwnerPayload
    /\ CrossingPayload
    /\ FirstUnsent
    /\ DispatchedLedger

-----------------------------------------------------------------------------
(* A claim keeps the payload of the row it found, and takes no dispatch     *)
(* mark from anywhere else.                                                 *)
LEMMA ClaimedPayload ==
    ASSUME TypeOK, NEW p \in Payloads, NEW lease \in Nat
    PROVE  /\ Verdict(p) \in {"revive", "takeover", "settle"} => mut.payload = p
           /\ Verdict(p) \in Claims \cup {"settle"} => Claimed(p, lease).payload = p
           /\ Verdict(p) \in Claims /\ Claimed(p, lease).dispatched =>
                 mut # NoRow /\ mut.dispatched
<1>1. Verdict(p) \in {"revive", "takeover", "settle"} => mut.payload = p /\ mut # NoRow
  BY DEF Verdict
<1>2. CASE Verdict(p) \in Claims
  <2>1. /\ Claimed(p, lease).payload = p
        /\ Claimed(p, lease).dispatched = (Verdict(p) = "takeover" /\ mut.dispatched)
    BY <1>2 DEF Claimed
  <2> QED
    BY <1>1, <1>2, <2>1 DEF Claims
<1>3. CASE Verdict(p) = "settle"
  <2>1. mut \in Mutation /\ Settled("unknown_after_send") \in Mutation
        /\ Settled("unknown_after_send").payload = mut.payload
    BY <1>1, <1>3, SettledType DEF TypeOK
  <2>2. Claimed(p, lease) = [Settled("unknown_after_send") EXCEPT !.token = tokens + 1]
    BY <1>3 DEF Claimed, Claims
  <2>3. Claimed(p, lease).payload = mut.payload
    BY <2>1, <2>2 DEF Mutation
  <2> QED
    BY <1>1, <1>3, <2>3 DEF Claims
<1> QED
  BY <1>1, <1>2, <1>3

(* The attempt that a claim starts carries the payload it was given, and is *)
(* a first one exactly when it found no row.                                *)
LEMMA AttemptedPayload ==
    ASSUME NEW p, NEW b, NEW lease, NEW pc
    PROVE  /\ Attempted(p, b, lease, pc).payload = p
           /\ Attempted(p, b, lease, pc).retry = (Verdict(p) # "new")
BY DEF Attempted

(* An attempt that moves on keeps its payload and what its claim found.     *)
SameClaim(r, x) ==
    x = Idle \/ (runner[r] # Idle /\ x.payload = runner[r].payload /\ x.retry = runner[r].retry)

(* The attempts put in place of runner[r] after its claim.                  *)
LEMMA NextSameClaim ==
    ASSUME TypeOK, NEW r \in Runners, runner[r] # Idle,
           NEW pc \in {"withdraw", "execute", "send", "answer", "completing", "failing"}
    PROVE  /\ SameClaim(r, [runner[r] EXCEPT !.pc = pc])
           /\ SameClaim(r, [runner[r] EXCEPT !.pc = pc, !.manual = TRUE])
           /\ SameClaim(r, [runner[r] EXCEPT !.pc = pc, !.recorded = TRUE])
<1>1. runner[r] \in Attempt
  BY DEF TypeOK
<1> QED
  BY <1>1 DEF Attempt, SameClaim

(* The ledger row, once there, keeps its payload.                           *)
KeepsLedgerPayload == ledger # NoRow => ledger' # NoRow /\ ledger'.payload = ledger.payload

(* A record never changes the payload of the row it finds.                  *)
LEMMA RecordedPayload ==
    ASSUME TypeOK, NEW o \in Outcomes, NEW p \in Payloads
    PROVE  /\ ledger # NoRow => Recorded(o, p).payload = ledger.payload
           /\ Recorded(o, p) # NoRow
<1>1. ledger # NoRow => /\ Marked("claimed_not_sent").payload = ledger.payload
                       /\ Marked("unknown_external_outcome").payload = ledger.payload
  BY MarkedType DEF LedgerStatuses
<1>2. Recorded(o, p) # NoRow
  BY RecordedType, EffectAssumption
<1> QED
  BY <1>1, <1>2 DEF Recorded

-----------------------------------------------------------------------------
(* Shapes of steps.                                                         *)

(* A step that neither claims, crosses, sends nor drops the row.            *)
LEMMA QuietPayload ==
    ASSUME DispatchInv, PayloadInv, NEW r \in Runners, NEW x \in Attempt \cup {Idle},
           Go(r, x), MovesOn(r, x), SameClaim(r, x), KeepsLedgerPayload,
           x # Idle /\ x.pc \notin {"record", "withdraw"} => ledger'.payload = x.payload,
           \/ mut' = mut
           \/ mut # NoRow /\ mut' \in {Settled("completed"), Settled("failed")}
           \/ Owns(r) /\ runner[r] # Idle /\ runner[r].pc \notin {"record", "withdraw"}
                 /\ mut' = Settled("unknown_after_send"),
           carried' = carried
    PROVE  PayloadInv'
<1>1. /\ runner'[r] = x
      /\ \A s \in Runners : s # r => runner'[s] = runner[s]
  BY GoFacts DEF DispatchInv
<1>2. /\ mut' # NoRow <=> mut # NoRow
      /\ mut' # NoRow => mut'.token = mut.token /\ mut'.payload = mut.payload
      /\ mut' = mut \/ mut'.status # "pending"
      /\ mut' # NoRow /\ (mut'.dispatched \/ mut'.status = "unknown_after_send") =>
            \/ mut.dispatched \/ mut.status = "unknown_after_send"
            \/ Owns(r) /\ runner[r] # Idle /\ runner[r].pc \notin {"record", "withdraw"}
  <2>1. CASE mut' = mut
    BY <2>1
  <2>2. CASE mut # NoRow /\ mut' \in {Settled("completed"), Settled("failed")}
    <3>1. mut \in Mutation
      BY <2>2 DEF DispatchInv, TypeOK
    <3>2. \A s \in {"completed", "failed"} :
             /\ Settled(s) \in Mutation /\ Settled(s).status = s
             /\ Settled(s).token = mut.token /\ Settled(s).payload = mut.payload
             /\ Settled(s).dispatched = mut.dispatched
      BY <3>1 DEF Settled, Mutation
    <3> QED
      BY <2>2, <3>2, EffectAssumption
  <2>3. CASE Owns(r) /\ runner[r] # Idle /\ runner[r].pc \notin {"record", "withdraw"}
                /\ mut' = Settled("unknown_after_send")
    <3>1. mut # NoRow
      BY <2>3 DEF Owns
    <3> QED
      BY <2>3, <3>1, SettledType, EffectAssumption DEF DispatchInv
  <2> QED
    BY <2>1, <2>2, <2>3
<1>3. ASSUME NEW s \in Runners, runner'[s] # Idle, Owns(s)'
      PROVE  /\ runner[s] # Idle /\ Owns(s)
             /\ runner'[s].payload = runner[s].payload /\ runner'[s].retry = runner[s].retry
  BY <1>1, <1>2, <1>3 DEF Owns, MovesOn, SameClaim
<1>4. ASSUME NEW s \in Runners
      PROVE  /\ Crossing(s)' => Crossing(s) /\ runner'[s].payload = runner[s].payload
             /\ Before(s)' => Before(s)
  BY <1>1 DEF Crossing, Before, At, MovesOn, SameClaim, PreBoundary, AtBoundary
<1>5. OnePayload'
  BY <1>2 DEF PayloadInv, OnePayload
<1>6. LedgerPayload'
  BY <1>1 DEF PayloadInv, LedgerPayload, KeepsLedgerPayload, DispatchInv, LedgerExists
<1>7. OwnerPayload'
  BY <1>2, <1>3 DEF PayloadInv, OwnerPayload, Owns
<1>8. CrossingPayload'
  BY <1>2, <1>4 DEF PayloadInv, CrossingPayload
<1>9. FirstUnsent'
  <2> SUFFICES ASSUME NEW s \in Runners, Before(s)', ~ runner'[s].retry, Owns(s)'
               PROVE  carried' = {} /\ \A t \in Runners : ~ Crossing(t)'
    BY DEF FirstUnsent
  <2>1. runner'[s] # Idle
    BY DEF Before, At
  <2>2. Before(s) /\ ~ runner[s].retry /\ Owns(s)
    BY <1>3, <1>4, <2>1
  <2> QED
    BY <1>4, <2>2 DEF PayloadInv, FirstUnsent
<1>10. DispatchedLedger'
  <2> SUFFICES ASSUME mut' # NoRow, mut'.dispatched \/ mut'.status = "unknown_after_send"
               PROVE  ledger' # NoRow /\ ledger'.payload = mut'.payload
    BY DEF DispatchedLedger
  <2>1. CASE mut.dispatched \/ mut.status = "unknown_after_send"
    BY <1>2, <2>1 DEF PayloadInv, DispatchedLedger, KeepsLedgerPayload
  <2>2. CASE Owns(r) /\ runner[r] # Idle /\ runner[r].pc \notin {"record", "withdraw"}
    <3>1. ledger # NoRow /\ ledger.payload = runner[r].payload
      BY <2>2 DEF DispatchInv, LedgerExists, PayloadInv, LedgerPayload
    <3>2. mut.payload = runner[r].payload
      BY <2>2 DEF PayloadInv, OwnerPayload
    <3> QED
      BY <1>2, <3>1, <3>2 DEF KeepsLedgerPayload
  <2> QED
    BY <1>2, <2>1, <2>2
<1> QED
  BY <1>5, <1>6, <1>7, <1>8, <1>9, <1>10 DEF PayloadInv

(* A claim: a first one finds nothing sent and nothing about to be, and any *)
(* other keeps the payload of the row under a token that nobody held.       *)
LEMMA ClaimPayload ==
    ASSUME DispatchInv, PayloadInv, NEW r \in Runners, NEW p \in Payloads, NEW lease \in Nat,
           NEW b \in BOOLEAN, NEW pc \in {"record", "execute"},
           NEW x \in {Idle, Attempted(p, b, lease, pc)}, Go(r, x), KeepsLedgerPayload,
           x # Idle /\ pc = "execute" => ledger'.payload = p,
           mut' = Claimed(p, lease), tokens' = Issued(p), carried' = carried
    PROVE  PayloadInv'
<1> DEFINE y == Attempted(p, b, lease, pc)
<1>1. TypeOK /\ tokens \in Nat
  BY DEF DispatchInv, TypeOK
<1>2. /\ y \in Attempt
      /\ y.pc = pc
      /\ y.token = IF Verdict(p) \in Claims THEN tokens + 1 ELSE 0
  <2>1. TypeOK /\ pc \in {"record", "replay", "execute"}
    BY DEF DispatchInv
  <2> QED
    BY ONLY <2>1, AttemptedType, p \in Payloads, b \in BOOLEAN, lease \in Nat
<1>3. y.payload = p /\ y.retry = (Verdict(p) # "new")
  BY AttemptedPayload
<1> HIDE DEF y
<1>4. /\ runner'[r] = x
      /\ \A s \in Runners : s # r => runner'[s] = runner[s]
  BY <1>1, <1>2, GoFacts DEF y
<1>5. x = Idle \/ x = y
  BY DEF y
<1>6. ASSUME NEW s \in Runners
      PROVE  Crossing(s)' => s # r /\ Crossing(s) /\ runner'[s] = runner[s]
  BY <1>2, <1>4, <1>5 DEF Crossing, At
<1>7. \A s \in Runners : runner[s] # Idle => runner[s].token \in Nat /\ runner[s].token <= tokens
  BY <1>1 DEF DispatchInv, TokensIssued, TypeOK, Attempt
<1>8. LedgerPayload'
  BY <1>2, <1>3, <1>4, <1>5 DEF PayloadInv, LedgerPayload, KeepsLedgerPayload, DispatchInv, LedgerExists
<1>9. CASE Verdict(p) \in Claims
  <2>1. /\ mut' \in Mutation /\ mut' # NoRow /\ mut'.token = tokens + 1 /\ mut'.status = "pending"
        /\ mut'.payload = p /\ (mut'.dispatched => mut # NoRow /\ mut.dispatched)
    BY <1>1, <1>9, ClaimedType, ClaimedPayload, EffectAssumption
  <2>2. mut # NoRow => mut.payload = p
    BY <1>1, <1>9, VerdictFacts, ClaimedPayload DEF Claims
  <2>3. \A s \in Runners : runner'[s] # Idle /\ Owns(s)' => s = r /\ x = y
    BY <1>1, <1>4, <1>5, <1>7, <2>1 DEF Owns
  <2>4. OnePayload'
    BY <2>1, <2>2 DEF PayloadInv, OnePayload
  <2>5. OwnerPayload'
    BY <1>3, <1>4, <2>1, <2>3 DEF OwnerPayload
  <2>6. CrossingPayload'
    BY <1>6, <2>1, <2>2 DEF PayloadInv, CrossingPayload
  <2>7. FirstUnsent'
    <3> SUFFICES ASSUME NEW s \in Runners, Before(s)', ~ runner'[s].retry, Owns(s)'
                 PROVE  carried' = {} /\ \A t \in Runners : ~ Crossing(t)'
      BY DEF FirstUnsent
    <3>1. s = r /\ x = y
      BY <2>3 DEF Before, At
    <3>2. mut = NoRow
      BY <1>1, <1>3, <1>4, <3>1, VerdictFacts
    <3> QED
      BY <1>6, <3>2 DEF PayloadInv, OnePayload, CrossingPayload
  <2>8. DispatchedLedger'
    BY <2>1, <2>2 DEF PayloadInv, DispatchedLedger, KeepsLedgerPayload
  <2> QED
    BY <1>8, <2>4, <2>5, <2>6, <2>7, <2>8 DEF PayloadInv
<1>10. CASE Verdict(p) = "settle"
  <2>1. /\ mut' \in Mutation /\ mut' # NoRow /\ mut'.status = "unknown_after_send" /\ mut'.payload = p
        /\ mut # NoRow /\ mut.payload = p /\ mut.dispatched
    BY <1>1, <1>10, ClaimedType, ClaimedPayload, VerdictFacts, EffectAssumption
  <2>2. \A s \in Runners : ~ Owns(s)'
    BY <2>1 DEF Owns
  <2>3. OnePayload' /\ OwnerPayload' /\ FirstUnsent'
    BY <2>1, <2>2 DEF PayloadInv, OnePayload, OwnerPayload, FirstUnsent
  <2>4. CrossingPayload'
    BY <1>6, <2>1 DEF PayloadInv, CrossingPayload
  <2>5. DispatchedLedger'
    BY <2>1 DEF PayloadInv, DispatchedLedger, KeepsLedgerPayload
  <2> QED
    BY <1>8, <2>3, <2>4, <2>5 DEF PayloadInv
<1>11. CASE Verdict(p) \notin Claims \cup {"settle"}
  <2>1. mut' = mut
    BY <1>1, <1>11, ClaimedType
  <2>2. mut # NoRow => mut.token # 0
    BY DEF DispatchInv, TokensIssued
  <2>3. \A s \in Runners : runner'[s] # Idle /\ Owns(s)' =>
           s # r /\ Owns(s) /\ runner'[s] = runner[s]
    BY <1>2, <1>4, <1>5, <1>11, <2>1, <2>2 DEF Owns
  <2>4. OnePayload' /\ OwnerPayload'
    BY <2>1, <2>3 DEF PayloadInv, OnePayload, OwnerPayload
  <2>5. CrossingPayload'
    BY <1>6, <2>1 DEF PayloadInv, CrossingPayload
  <2>6. FirstUnsent'
    BY <1>6, <2>3 DEF PayloadInv, FirstUnsent, Before, At
  <2>7. DispatchedLedger'
    BY <2>1 DEF PayloadInv, DispatchedLedger, KeepsLedgerPayload
  <2> QED
    BY <1>8, <2>4, <2>5, <2>6, <2>7 DEF PayloadInv
<1> QED
  BY <1>9, <1>10, <1>11

-----------------------------------------------------------------------------
(* The actions.                                                             *)

(* Claims, in a transaction or not, and those of the replay worker.         *)
LEMMA ClaimsPayload ==
    ASSUME DispatchInv, PayloadInv, NEW r \in Runners,
           \/ \E p \in Payloads : ClaimStrict(r, p) \/ ClaimLoose(r, p)
           \/ ReplayClaim(r)
    PROVE  PayloadInv'
<1>1. TypeOK /\ ClaimLease \in Nat /\ StaleAfter \in Nat
  BY EffectAssumption DEF DispatchInv
<1>2. ASSUME NEW p \in Payloads, ClaimStrict(r, p)
      PROVE  PayloadInv'
  <2> DEFINE x == IF Outcome(p) = "claimed"
                     THEN Attempted(p, TRUE, ClaimLease, "execute") ELSE Idle
  <2>1. /\ mut' = Claimed(p, ClaimLease) /\ tokens' = Issued(p) /\ carried' = carried
        /\ ledger' = Recorded(Outcome(p), p) /\ Outcome(p) \in Outcomes
    BY <1>1, <1>2, OutcomeFacts DEF ClaimStrict
  <2>2. Go(r, x)
    <3>1. CASE Outcome(p) = "claimed"
      BY <1>2, <3>1 DEF ClaimStrict
    <3>2. CASE Outcome(p) # "claimed"
      BY <1>1, <1>2, <3>2 DEF ClaimStrict, Go, TypeOK
    <3> QED
      BY <3>1, <3>2
  <2>3. KeepsLedgerPayload
    BY <1>1, <2>1, RecordedPayload DEF KeepsLedgerPayload
  <2>4. x # Idle => ledger'.payload = p
    BY <1>2, <2>1 DEF ClaimStrict, Open
  <2>5. x \in {Idle, Attempted(p, TRUE, ClaimLease, "execute")}
    OBVIOUS
  <2> HIDE DEF x
  <2> QED
    BY <1>1, <2>1, <2>2, <2>3, <2>4, <2>5, ClaimPayload
<1>3. ASSUME NEW p \in Payloads, ClaimLoose(r, p)
      PROVE  PayloadInv'
  <2> DEFINE x == Attempted(p, FALSE, ClaimLease, "record")
  <2>1. /\ mut' = Claimed(p, ClaimLease) /\ tokens' = Issued(p) /\ carried' = carried
        /\ ledger' = ledger /\ Go(r, x)
    BY <1>3 DEF ClaimLoose
  <2>2. KeepsLedgerPayload
    BY <2>1 DEF KeepsLedgerPayload
  <2>3. x \in {Idle, Attempted(p, FALSE, ClaimLease, "record")}
    OBVIOUS
  <2> HIDE DEF x
  <2> QED
    BY <1>1, <2>1, <2>2, <2>3, ClaimPayload
<1>4. CASE ReplayClaim(r)
  <2> DEFINE p == runner[r].payload
             x == IF Outcome(p) = "claimed"
                     THEN Attempted(p, TRUE, StaleAfter, "execute") ELSE Idle
  <2>1. p \in Payloads /\ runner[r] # Idle /\ ledger # NoRow /\ ledger \in Ledger
    BY <1>1, <1>4 DEF TypeOK, ReplayClaim, At, Attempt, DispatchInv, LedgerExists
  <2>2. CASE ~ Open(ledger, p)
    <3>1. Go(r, Idle) /\ mut' = mut /\ ledger' = ledger /\ carried' = carried
      BY <1>4, <2>2 DEF ReplayClaim, End
    <3>2. MovesOn(r, Idle) /\ SameClaim(r, Idle) /\ KeepsLedgerPayload
      BY <3>1 DEF MovesOn, SameClaim, KeepsLedgerPayload
    <3> QED
      BY <3>1, <3>2, QuietPayload
  <2>3. CASE Open(ledger, p)
    <3>1. /\ mut' = Claimed(p, StaleAfter) /\ tokens' = Issued(p) /\ carried' = carried
          /\ Go(r, x)
          /\ ledger' = ledger \/ ledger' = Recorded("unknown_after_send", p)
      BY <1>4, <2>3 DEF ReplayClaim, End
    <3>2. "unknown_after_send" \in Outcomes
      BY DEF Outcomes
    <3>3. KeepsLedgerPayload /\ ledger'.payload = p
      BY <1>1, <2>1, <2>3, <3>1, <3>2, RecordedPayload DEF KeepsLedgerPayload, Open
    <3>4. x \in {Idle, Attempted(p, TRUE, StaleAfter, "execute")}
      OBVIOUS
    <3> HIDE DEF x, p
    <3> QED
      BY <1>1, <2>1, <3>1, <3>3, <3>4, ClaimPayload
  <2> QED
    BY <2>2, <2>3
<1> QED
  BY <1>2, <1>3, <1>4

(* The replay worker picks a run by its ledger row and holds nothing yet.   *)
LEMMA ReplayPickPayload ==
    ASSUME DispatchInv, PayloadInv, NEW r \in Runners, ReplayPick(r)
    PROVE  PayloadInv'
<1> DEFINE y == Attempted(ledger.payload, TRUE, StaleAfter, "replay")
           x == [y EXCEPT !.token = 0]
<1>1. TypeOK /\ StaleAfter \in Nat /\ ledger # NoRow /\ ledger.payload \in Payloads
  BY EffectAssumption DEF DispatchInv, TypeOK, ReplayPick, Eligible, Ledger
<1>2. y \in Attempt /\ y.pc = "replay" /\ y.payload = ledger.payload
  <2>1. y \in Attempt /\ y.pc = "replay"
    BY <1>1, AttemptedType
  <2>2. y.payload = ledger.payload
    BY DEF Attempted
  <2> QED
    BY <2>1, <2>2
<1>3. x \in Attempt /\ x.pc = "replay" /\ x.token = 0 /\ x.payload = ledger.payload
  <2> HIDE DEF y
  <2> QED
    BY <1>2 DEF Attempt
<1>4. Go(r, x) /\ UNCHANGED <<mut, ledger, carried>>
  BY DEF ReplayPick, Eligible
<1> HIDE DEF x
<1>5. /\ runner'[r] = x
      /\ \A s \in Runners : s # r => runner'[s] = runner[s]
  BY <1>1, <1>3, <1>4, GoFacts
<1>6. mut # NoRow => mut.token # 0
  BY DEF DispatchInv, TokensIssued
<1>7. \A s \in Runners :
         /\ Owns(s)' => s # r /\ Owns(s) /\ runner'[s] = runner[s]
         /\ Crossing(s)' => Crossing(s) /\ runner'[s] = runner[s]
  BY <1>3, <1>4, <1>5, <1>6 DEF Owns, Crossing, At
<1>8. OnePayload' /\ DispatchedLedger'
  BY <1>4 DEF PayloadInv, OnePayload, DispatchedLedger
<1>9. LedgerPayload'
  BY <1>3, <1>4, <1>5 DEF PayloadInv, LedgerPayload
<1>10. OwnerPayload' /\ CrossingPayload'
  BY <1>4, <1>7 DEF PayloadInv, OwnerPayload, CrossingPayload
<1>11. FirstUnsent'
  BY <1>4, <1>7 DEF PayloadInv, FirstUnsent, Before, At
<1> QED
  BY <1>8, <1>9, <1>10, <1>11 DEF PayloadInv

(* The ledger record of a claim without a transaction decides who executes. *)
LEMMA RecordRunPayload ==
    ASSUME DispatchInv, PayloadInv, NEW r \in Runners, RecordRun(r)
    PROVE  PayloadInv'
<1>1. /\ TypeOK /\ runner[r] # Idle /\ runner[r] \in Attempt /\ runner[r].pc = "record"
      /\ runner[r].outcome \in Outcomes /\ runner[r].payload \in Payloads
  BY DEF DispatchInv, TypeOK, RecordRun, At, Attempt
<1>2. /\ ledger' = Recorded(runner[r].outcome, runner[r].payload)
      /\ mut' = mut /\ carried' = carried
  BY DEF RecordRun
<1>3. KeepsLedgerPayload
  BY <1>1, <1>2, RecordedPayload DEF KeepsLedgerPayload
<1>4. PICK x \in {Idle, [runner[r] EXCEPT !.pc = "execute"], [runner[r] EXCEPT !.pc = "withdraw"]} :
         /\ Go(r, x)
         /\ \/ x = Idle
            \/ x = [runner[r] EXCEPT !.pc = "withdraw"]
            \/ x = [runner[r] EXCEPT !.pc = "execute"] /\ ledger'.payload = runner[r].payload
  BY <1>2 DEF RecordRun, End, Open
<1>5. /\ x \in Attempt \cup {Idle} /\ MovesOn(r, x) /\ SameClaim(r, x)
      /\ x # Idle /\ x.pc \notin {"record", "withdraw"} => ledger'.payload = x.payload
  <2>1. CASE x = Idle
    BY <2>1 DEF MovesOn, SameClaim
  <2>2. CASE x = [runner[r] EXCEPT !.pc = "execute"] /\ ledger'.payload = runner[r].payload
    <3>1. x \in Attempt /\ x.pc = "execute" /\ x.token = runner[r].token /\ SameClaim(r, x)
      BY <1>1, <2>2, NextAttempt, NextSameClaim
    <3> QED
      BY <1>1, <2>2, <3>1 DEF MovesOn, SameClaim, PreBoundary, AtBoundary
  <2>3. CASE x = [runner[r] EXCEPT !.pc = "withdraw"]
    <3>1. x \in Attempt /\ x.pc = "withdraw" /\ x.token = runner[r].token /\ SameClaim(r, x)
      BY <1>1, <2>3, NextAttempt, NextSameClaim
    <3> QED
      BY <1>1, <3>1 DEF MovesOn, PreBoundary, AtBoundary
  <2> QED
    BY <1>4, <2>1, <2>2, <2>3
<1> QED
  BY <1>2, <1>3, <1>4, <1>5, QuietPayload

(* A refused claim: only the first owner of the row drops it, when nothing  *)
(* was sent and nothing is about to be.                                     *)
LEMMA WithdrawPayload ==
    ASSUME DispatchInv, PayloadInv, NEW r \in Runners, Withdraw(r)
    PROVE  PayloadInv'
<1>1. /\ TypeOK /\ Before(r) /\ Go(r, Idle) /\ MovesOn(r, Idle) /\ SameClaim(r, Idle)
      /\ ledger' = ledger /\ carried' = carried
  BY DEF DispatchInv, Withdraw, Before, End, MovesOn, SameClaim
<1>2. KeepsLedgerPayload
  BY <1>1 DEF KeepsLedgerPayload
<1>3. CASE ~ Owns(r) \/ runner[r].retry
  <2>1. mut' = mut \/ (mut # NoRow /\ mut' = Settled("failed"))
    BY <1>3 DEF Withdraw, Owns
  <2> QED
    BY <1>1, <1>2, <2>1, QuietPayload
<1>4. CASE Owns(r) /\ ~ runner[r].retry
  <2>1. mut' = NoRow
    BY <1>4 DEF Withdraw
  <2>2. carried = {} /\ \A s \in Runners : ~ Crossing(s)
    BY <1>1, <1>4 DEF PayloadInv, FirstUnsent
  <2>3. \A s \in Runners : ~ Crossing(s)'
    BY <1>1, <2>2, MovesOnCrossing
  <2>4. \A s \in Runners : ~ Owns(s)'
    BY <2>1 DEF Owns
  <2>5. LedgerPayload'
    <3>1. \A s \in Runners : runner'[s] = Idle \/ runner'[s] = runner[s]
      BY <1>1, GoFacts
    <3> QED
      BY <1>1, <3>1 DEF PayloadInv, LedgerPayload
  <2> QED
    BY <1>1, <2>1, <2>2, <2>3, <2>4, <2>5
       DEF PayloadInv, OnePayload, OwnerPayload, CrossingPayload, FirstUnsent, DispatchedLedger
<1> QED
  BY <1>3, <1>4

(* The boundary: the owner crosses with the payload of the row.             *)
LEMMA MarkStartedPayload ==
    ASSUME DispatchInv, PayloadInv, NEW r \in Runners, MarkExternalCallStarted(r)
    PROVE  PayloadInv'
<1> DEFINE x == [runner[r] EXCEPT !.pc = IF runner[r].strict THEN "send" ELSE "mirror",
                                  !.token = tokens + 1, !.recorded = runner[r].strict]
<1>1. /\ TypeOK /\ tokens \in Nat /\ runner[r] # Idle /\ runner[r].pc = "execute" /\ ledger # NoRow
      /\ runner[r] \in Attempt /\ carried' = carried
  BY DEF DispatchInv, TypeOK, LedgerExists, MarkExternalCallStarted, At
<1>2. ledger.payload = runner[r].payload
  BY <1>1 DEF PayloadInv, LedgerPayload
<1>3. CASE ~ MayCross(r)
  <2>1. Go(r, Idle) /\ mut' = mut /\ ledger' = ledger
    BY <1>3 DEF MarkExternalCallStarted, End
  <2>2. MovesOn(r, Idle) /\ SameClaim(r, Idle) /\ KeepsLedgerPayload
    BY <2>1 DEF MovesOn, SameClaim, KeepsLedgerPayload
  <2> QED
    BY <1>1, <2>1, <2>2, QuietPayload
<1>4. CASE MayCross(r)
  <2>1. Owns(r) /\ Go(r, x) /\ mut' = Dispatched(r)
    BY <1>4 DEF MarkExternalCallStarted, MayCross
  <2>2. x \in Attempt /\ x.pc \in AtBoundary /\ x.token = tokens + 1 /\ x.payload = runner[r].payload
    <3>1. tokens + 1 \in Nat /\ runner[r].strict \in BOOLEAN
      BY <1>1 DEF TypeOK, Attempt
    <3> QED
      BY <1>1, <3>1 DEF Attempt, AtBoundary
  <2> HIDE DEF x
  <2>3. /\ runner'[r] = x
        /\ \A s \in Runners : s # r => runner'[s] = runner[s]
    BY <1>1, <2>1, <2>2, GoFacts
  <2>4. mut # NoRow /\ mut.payload = runner[r].payload
    BY <1>1, <2>1 DEF PayloadInv, OwnerPayload, Owns
  <2>5. mut' # NoRow /\ mut'.token = tokens + 1 /\ mut'.payload = mut.payload
    <3>1. mut' \in Mutation /\ mut'.token = tokens + 1
      BY <1>1, <2>1, DispatchedType
    <3>2. mut \in Mutation
      BY <1>1, <2>4 DEF TypeOK
    <3> QED
      BY <2>1, <3>1, <3>2, EffectAssumption DEF Dispatched, Mutation
  <2>6. ledger' # NoRow /\ ledger'.payload = ledger.payload
    <3>1. /\ Marked("external_call_started") \in Ledger
          /\ Marked("external_call_started").payload = ledger.payload
      BY <1>1, MarkedType DEF LedgerStatuses
    <3> QED
      BY <1>1, <1>4, <3>1, EffectAssumption DEF MarkExternalCallStarted
  <2>7. \A s \in Runners : runner'[s] # Idle /\ Owns(s)' => s = r
    <3>1. \A s \in Runners : runner[s] # Idle =>
             runner[s].token \in Nat /\ runner[s].token <= tokens
      BY <1>1 DEF DispatchInv, TokensIssued, TypeOK, Attempt
    <3> QED
      BY <1>1, <2>3, <2>5, <3>1 DEF Owns
  <2>8. OnePayload'
    BY <1>1, <2>4, <2>5 DEF PayloadInv, OnePayload
  <2>9. LedgerPayload'
    BY <1>2, <2>2, <2>3, <2>6 DEF PayloadInv, LedgerPayload
  <2>10. OwnerPayload'
    BY <2>2, <2>3, <2>4, <2>5, <2>7 DEF OwnerPayload
  <2>11. CrossingPayload'
    BY <2>2, <2>3, <2>4, <2>5 DEF PayloadInv, CrossingPayload, Crossing, At
  <2>12. FirstUnsent'
    BY <2>2, <2>3, <2>7 DEF FirstUnsent, Before, At, AtBoundary
  <2>13. DispatchedLedger'
    BY <1>2, <2>4, <2>5, <2>6 DEF DispatchedLedger
  <2> QED
    BY <2>8, <2>9, <2>10, <2>11, <2>12, <2>13 DEF PayloadInv
<1> QED
  BY <1>3, <1>4

(* The call carries the payload of the row.                                 *)
LEMMA SendPayload ==
    ASSUME DispatchInv, PayloadInv, NEW r \in Runners, Send(r)
    PROVE  PayloadInv'
<1> DEFINE x == [runner[r] EXCEPT !.pc = "answer"]
<1>1. TypeOK /\ runner[r] # Idle /\ runner[r].pc = "send" /\ Crossing(r)
  BY DEF DispatchInv, Send, Crossing, At
<1>2. x \in Attempt /\ x.pc = "answer" /\ x.token = runner[r].token /\ SameClaim(r, x)
  BY <1>1, NextAttempt, NextSameClaim
<1>3. Go(r, x) /\ carried' = carried \cup {runner[r].payload} /\ UNCHANGED <<mut, ledger>>
  BY DEF Send
<1> HIDE DEF x
<1>4. /\ runner'[r] = x
      /\ \A s \in Runners : s # r => runner'[s] = runner[s]
  BY <1>1, <1>2, <1>3, GoFacts
<1>5. mut # NoRow /\ mut.payload = runner[r].payload
  BY <1>1 DEF PayloadInv, CrossingPayload
<1>6. x # Idle /\ x.payload = runner[r].payload
  BY <1>2, EffectAssumption DEF SameClaim
<1>7. OnePayload'
  BY <1>3, <1>5 DEF PayloadInv, OnePayload
<1>8. LedgerPayload'
  BY <1>1, <1>3, <1>4, <1>6 DEF PayloadInv, LedgerPayload
<1>9. OwnerPayload'
  BY <1>1, <1>2, <1>3, <1>4, <1>6 DEF PayloadInv, OwnerPayload, Owns
<1>10. CrossingPayload'
  BY <1>2, <1>3, <1>4 DEF PayloadInv, CrossingPayload, Crossing, At
<1>11. FirstUnsent'
  <2> SUFFICES ASSUME NEW s \in Runners, Before(s)', ~ runner'[s].retry, Owns(s)'
               PROVE  FALSE
    BY DEF FirstUnsent
  <2>1. s # r
    BY <1>2, <1>4 DEF Before, At
  <2>2. Before(s) /\ ~ runner[s].retry /\ Owns(s)
    BY <1>3, <1>4, <2>1 DEF Before, At, Owns
  <2> QED
    BY <1>1, <2>2 DEF PayloadInv, FirstUnsent
<1>12. DispatchedLedger'
  BY <1>3 DEF PayloadInv, DispatchedLedger
<1> QED
  BY <1>7, <1>8, <1>9, <1>10, <1>11, <1>12 DEF PayloadInv

(* The ledger writes of an attempt keep the payload of the row.             *)
LEMMA LedgerWrites ==
    ASSUME TypeOK, ledger # NoRow,
           ledger' \in {ledger} \cup {Marked(s) : s \in LedgerStatuses}
    PROVE  KeepsLedgerPayload
<1>1. ASSUME NEW s \in LedgerStatuses
      PROVE  Marked(s) # NoRow /\ Marked(s).payload = ledger.payload
  BY MarkedType, EffectAssumption
<1> QED
  BY <1>1 DEF KeepsLedgerPayload

(* Settling, with the late writes of the ledger, and exits.                 *)
LEMMA SettlePayload ==
    ASSUME DispatchInv, PayloadInv, NEW r \in Runners,
           \/ MirrorStart(r) \/ Complete(r) \/ CompleteLedger(r)
           \/ FailBeforeSend(r) \/ FailUnknown(r) \/ FailLedger(r)
    PROVE  PayloadInv'
<1> DEFINE Successors == {Idle, [runner[r] EXCEPT !.pc = "send"],
                          [runner[r] EXCEPT !.pc = "send", !.recorded = TRUE],
                          [runner[r] EXCEPT !.pc = "completing"],
                          [runner[r] EXCEPT !.pc = "failing"],
                          [runner[r] EXCEPT !.pc = "failing", !.manual = TRUE]}
<1>1. /\ TypeOK /\ runner[r] # Idle /\ ledger # NoRow /\ carried' = carried
      /\ runner[r].pc \notin {"record", "withdraw"}
  BY DEF DispatchInv, LedgerExists, MirrorStart, Complete, CompleteLedger, FailBeforeSend,
         FailUnknown, FailLedger, At
<1>2. KeepsLedgerPayload
  <2>1. ledger' \in {ledger} \cup {Marked(s) : s \in LedgerStatuses}
    BY DEF MirrorStart, Complete, CompleteLedger, FailBeforeSend, FailUnknown, FailLedger,
           LedgerStatuses
  <2> QED
    BY <1>1, <2>1, LedgerWrites
<1>3. \/ mut' = mut
      \/ mut # NoRow /\ mut' \in {Settled("completed"), Settled("failed")}
      \/ Owns(r) /\ runner[r] # Idle /\ runner[r].pc \notin {"record", "withdraw"}
            /\ mut' = Settled("unknown_after_send")
  BY <1>1 DEF MirrorStart, Complete, CompleteLedger, FailBeforeSend, FailUnknown, FailLedger, Owns
<1>4. \E x \in Successors :
         Go(r, x) /\ (x # Idle /\ x.pc = "send" => runner[r].pc = "mirror")
  <2>1. CASE MirrorStart(r)
    <3>1. runner[r].pc = "mirror"
      BY <2>1 DEF MirrorStart, At
    <3> QED
      BY <2>1, <3>1 DEF MirrorStart
  <2>2. CASE Complete(r) \/ CompleteLedger(r) \/ FailBeforeSend(r) \/ FailUnknown(r) \/ FailLedger(r)
    <3>1. \/ Go(r, Idle)
          \/ Go(r, [runner[r] EXCEPT !.pc = "completing"])
          \/ Go(r, [runner[r] EXCEPT !.pc = "failing"])
          \/ Go(r, [runner[r] EXCEPT !.pc = "failing", !.manual = TRUE])
      BY <2>2 DEF Complete, CompleteLedger, FailBeforeSend, FailUnknown, FailLedger, End
    <3>2. /\ [runner[r] EXCEPT !.pc = "completing"].pc = "completing"
          /\ [runner[r] EXCEPT !.pc = "failing"].pc = "failing"
          /\ [runner[r] EXCEPT !.pc = "failing", !.manual = TRUE].pc = "failing"
      BY <1>1, NextAttempt
    <3> QED
      BY <3>1, <3>2
  <2> QED
    BY <2>1, <2>2
<1>5. PICK x \in Successors :
         Go(r, x) /\ (x # Idle /\ x.pc = "send" => runner[r].pc = "mirror")
  BY <1>4
<1>6. CASE x = Idle
  <2>1. MovesOn(r, Idle) /\ SameClaim(r, Idle)
    BY DEF MovesOn, SameClaim
  <2> QED
    BY <1>1, <1>2, <1>3, <1>5, <1>6, <2>1, QuietPayload
<1>7. CASE x # Idle
  <2>1. /\ x \in Attempt /\ x.pc \in {"send", "completing", "failing"}
        /\ x.token = runner[r].token /\ SameClaim(r, x)
    <3>1. CASE x = [runner[r] EXCEPT !.pc = "send", !.recorded = TRUE]
      BY <1>1, <3>1, NextAttempt, NextSameClaim
    <3>2. CASE x = [runner[r] EXCEPT !.pc = "failing", !.manual = TRUE]
      BY <1>1, <3>2, NextAttempt, NextSameClaim
    <3>3. CASE x = [runner[r] EXCEPT !.pc = "send"]
      BY <1>1, <3>3, NextAttempt, NextSameClaim
    <3>4. CASE x = [runner[r] EXCEPT !.pc = "completing"]
      BY <1>1, <3>4, NextAttempt, NextSameClaim
    <3>5. CASE x = [runner[r] EXCEPT !.pc = "failing"]
      BY <1>1, <3>5, NextAttempt, NextSameClaim
    <3> QED
      BY <1>5, <1>7, <3>1, <3>2, <3>3, <3>4, <3>5
  <2>2. MovesOn(r, x)
    BY <1>1, <1>5, <1>7, <2>1 DEF MovesOn, PreBoundary, AtBoundary
  <2>3. ledger'.payload = x.payload
    BY <1>1, <1>2, <1>7, <2>1 DEF PayloadInv, LedgerPayload, KeepsLedgerPayload, SameClaim
  <2> HIDE DEF Successors
  <2> QED
    BY <1>1, <1>2, <1>3, <1>5, <2>1, <2>2, <2>3, QuietPayload
<1> QED
  BY <1>6, <1>7

(* A process that exits.                                                    *)
LEMMA CrashPayload ==
    ASSUME DispatchInv, PayloadInv, NEW r \in Runners, Crash(r)
    PROVE  PayloadInv'
<1>1. /\ Go(r, Idle) /\ MovesOn(r, Idle) /\ SameClaim(r, Idle)
      /\ mut' = mut /\ ledger' = ledger /\ carried' = carried
  BY DEF Crash, End, MovesOn, SameClaim
<1>2. KeepsLedgerPayload
  BY <1>1 DEF KeepsLedgerPayload
<1> QED
  BY <1>1, <1>2, QuietPayload

(* Steps that no attempt takes; a reconciliation that repeats the request   *)
(* takes the payload from the ledger row.                                   *)
LEMMA OutsidePayload ==
    ASSUME DispatchInv, PayloadInv,
           Reconcile \/ MarkUnrecoverable \/ Tick \/ \E p \in Payloads : Preflight(p)
    PROVE  PayloadInv'
<1>1. TypeOK /\ runner' = runner
  BY DEF DispatchInv, Reconcile, MarkUnrecoverable, Tick, Preflight
<1>2. KeepsLedgerPayload
  <2>1. \/ ledger' = ledger
        \/ ledger = NoRow
        \/ ledger' \in {ledger} \cup {Marked(s) : s \in LedgerStatuses}
    BY DEF Reconcile, MarkUnrecoverable, Tick, Preflight, LedgerStatuses
  <2> QED
    BY <1>1, <2>1, LedgerWrites DEF KeepsLedgerPayload
<1>3. \/ mut' = mut
      \/ mut # NoRow /\ mut' = Settled("completed") /\ mut.status = "unknown_after_send"
  BY DEF Reconcile, MarkUnrecoverable, Tick, Preflight
<1>4. /\ mut' # NoRow <=> mut # NoRow
      /\ mut' # NoRow => mut'.payload = mut.payload
      /\ mut' = mut \/ (mut.status = "unknown_after_send" /\ mut'.status # "pending")
  BY <1>1, <1>3, SettledType, EffectAssumption
<1>5. \/ carried' = carried
      \/ mut # NoRow /\ carried' = carried \cup {mut.payload}
  <2>1. CASE Reconcile
    <3>1. mut # NoRow /\ ledger.payload = mut.payload
      BY <2>1 DEF Reconcile, PayloadInv, DispatchedLedger
    <3> QED
      BY <2>1, <3>1 DEF Reconcile
  <2>2. CASE ~ Reconcile
    BY <2>2 DEF MarkUnrecoverable, Tick, Preflight
  <2> QED
    BY <2>1, <2>2
<1>6. OnePayload'
  BY <1>4, <1>5 DEF PayloadInv, OnePayload
<1>7. LedgerPayload'
  BY <1>1, <1>2 DEF PayloadInv, LedgerPayload, KeepsLedgerPayload, DispatchInv, LedgerExists
<1>8. ASSUME NEW s \in Runners, Owns(s)'
      PROVE  Owns(s) /\ mut' = mut
  BY <1>1, <1>4, <1>8 DEF Owns
<1>9. \A s \in Runners : (Crossing(s)' <=> Crossing(s)) /\ (Before(s)' <=> Before(s))
  BY <1>1 DEF Crossing, Before, At
<1>10. OwnerPayload' /\ CrossingPayload' /\ FirstUnsent'
  <2>1. OwnerPayload'
    BY <1>1, <1>8 DEF PayloadInv, OwnerPayload
  <2>2. CrossingPayload'
    BY <1>1, <1>4, <1>9 DEF PayloadInv, CrossingPayload
  <2>3. ASSUME NEW s \in Runners, Before(s)', ~ runner'[s].retry, Owns(s)'
        PROVE  carried' = {} /\ \A t \in Runners : ~ Crossing(t)'
    <3>1. Before(s) /\ ~ runner[s].retry /\ Owns(s)
      BY <1>1, <1>8, <1>9, <2>3
    <3>2. carried' = carried
      BY <3>1 DEF Owns, Reconcile, MarkUnrecoverable, Tick, Preflight
    <3>3. carried = {} /\ \A t \in Runners : ~ Crossing(t)
      BY <3>1 DEF PayloadInv, FirstUnsent
    <3> QED
      BY <1>9, <3>2, <3>3
  <2>4. FirstUnsent'
    BY <2>3 DEF FirstUnsent
  <2> QED
    BY <2>1, <2>2, <2>4
<1>11. DispatchedLedger'
  BY <1>2, <1>4 DEF PayloadInv, DispatchedLedger, KeepsLedgerPayload
<1> QED
  BY <1>6, <1>7, <1>10, <1>11 DEF PayloadInv

-----------------------------------------------------------------------------
(* PayloadInv is inductive relative to DispatchInv.                         *)
THEOREM PayloadInvariant == Spec => []PayloadInv
<1>1. Init => PayloadInv
  BY DEF Init, PayloadInv, OnePayload, LedgerPayload, OwnerPayload, CrossingPayload, FirstUnsent,
         DispatchedLedger, Crossing, Before, At
<1>2. DispatchInv /\ PayloadInv /\ [Next]_vars => PayloadInv'
  <2> SUFFICES ASSUME DispatchInv, PayloadInv, [Next]_vars
               PROVE  PayloadInv'
    OBVIOUS
  <2>1. CASE UNCHANGED vars
    BY <2>1 DEF vars, PayloadInv, OnePayload, LedgerPayload, OwnerPayload, CrossingPayload,
                FirstUnsent, DispatchedLedger, Crossing, Before, At, Owns
  <2>2. ASSUME NEW r \in Runners, Run(r)
        PROVE  PayloadInv'
    BY <2>2, ClaimsPayload, RecordRunPayload, WithdrawPayload, ReplayPickPayload,
       MarkStartedPayload, SendPayload, SettlePayload, CrashPayload DEF Run
  <2>3. CASE Reconcile \/ MarkUnrecoverable \/ Tick \/ \E p \in Payloads : Preflight(p)
    BY <2>3, OutsidePayload
  <2> QED
    BY <2>1, <2>2, <2>3 DEF Next
<1> QED
  BY <1>1, <1>2, Dispatch, PTL DEF Spec

(* One payload per key: whichever callers, with or without transactions and *)
(* with or without a provider that deduplicates, every call the provider    *)
(* receives under the key has the payload that the mutation row keeps.      *)
THEOREM PayloadPerKey == Spec => []OnePayload
<1>1. PayloadInv => OnePayload
  BY DEF PayloadInv
<1> QED
  BY <1>1, PayloadInvariant, PTL

-----------------------------------------------------------------------------
(* The attempts on a key implement one effect.                              *)

(* An attempt that waits for an answer made a call.                         *)
Answered == \A r \in Runners : At(r, "answer") => sends > 0

(* No call is about to be made once the key is completed.                   *)
CompletedQuiet ==
    ~ KeyEnforced /\ mut # NoRow /\ mut.status = "completed" => \A r \in Runners : ~ Crossing(r)

SentInv == Answered /\ CompletedQuiet

Owner(r) == runner[r] # Idle /\ Owns(r)

(* What a step of an attempt may do to the mutation row.                    *)
RowStep(r) ==
    \/ mut' = mut
    \/ \E p \in Payloads, lease \in Nat : mut' = Claimed(p, lease)
    \/ Owner(r) /\ mut' \in {NoRow, Settled("failed"), Settled("unknown_after_send")}
    \/ Owner(r) /\ mut' = Dispatched(r)
    \/ /\ Owner(r) /\ (At(r, "execute") \/ At(r, "answer"))
       /\ mut' = Settled("completed")

(* What it may make of the attempt itself.                                  *)
AttemptStep(r) ==
    \E x \in Attempt \cup {Idle} :
        /\ Go(r, x)
        /\ \/ x = Idle \/ x.pc \notin {"mirror", "send", "answer"}
           \/ At(r, "mirror") /\ x.pc = "send" /\ mut' = mut
           \/ At(r, "send") /\ x.pc = "answer" /\ mut' = mut /\ sends' = sends + 1
           \/ At(r, "execute") /\ x.pc # "answer" /\ Owns(r) /\ mut' = Dispatched(r)

(* Every step of an attempt is one of these on the mutation row ...         *)
LEMMA RunRowStep ==
    ASSUME DispatchInv, NEW r \in Runners, Run(r)
    PROVE  RowStep(r)
<1>1. ClaimLease \in Nat /\ StaleAfter \in Nat
  BY EffectAssumption
<1>2. CASE \E p \in Payloads : ClaimStrict(r, p) \/ ClaimLoose(r, p)
  BY <1>1, <1>2 DEF RowStep, ClaimStrict, ClaimLoose
<1>3. CASE ReplayClaim(r)
  <2>1. runner[r].payload \in Payloads
    BY <1>3 DEF DispatchInv, TypeOK, ReplayClaim, At, Attempt
  <2> QED
    BY <1>1, <1>3, <2>1 DEF RowStep, ReplayClaim
<1>4. CASE \/ RecordRun(r) \/ ReplayPick(r) \/ MirrorStart(r) \/ Send(r) \/ CompleteLedger(r)
           \/ FailLedger(r) \/ Crash(r)
  <2>1. mut' = mut
    BY <1>4 DEF RecordRun, ReplayPick, MirrorStart, Send, CompleteLedger, FailLedger, Crash
  <2> QED
    BY <2>1 DEF RowStep
<1>5. CASE Withdraw(r) \/ FailBeforeSend(r) \/ FailUnknown(r)
  <2>1. mut' = mut \/ (Owner(r) /\ mut' \in {NoRow, Settled("failed"), Settled("unknown_after_send")})
    BY <1>5 DEF Withdraw, FailBeforeSend, FailUnknown, Owner, At
  <2> QED
    BY <2>1 DEF RowStep
<1>6. CASE MarkExternalCallStarted(r)
  <2>1. mut' = mut \/ (Owner(r) /\ mut' = Dispatched(r))
    BY <1>6 DEF MarkExternalCallStarted, MayCross, Owner, At
  <2> QED
    BY <2>1 DEF RowStep
<1>7. CASE Complete(r)
  <2>1. /\ At(r, "execute") \/ At(r, "answer")
        /\ mut' = mut \/ (Owner(r) /\ mut' = Settled("completed"))
    BY <1>7 DEF Complete, Owner, At
  <2> QED
    BY <2>1 DEF RowStep
<1> QED
  BY <1>2, <1>3, <1>4, <1>5, <1>6, <1>7 DEF Run

(* ... and on the attempt.                                                  *)
LEMMA RunAttemptStep ==
    ASSUME DispatchInv, NEW r \in Runners, Run(r)
    PROVE  AttemptStep(r)
<1>1. TypeOK /\ tokens \in Nat /\ ClaimLease \in Nat /\ StaleAfter \in Nat
  BY EffectAssumption DEF DispatchInv, TypeOK
<1>2. ASSUME NEW x \in Attempt \cup {Idle}, Go(r, x),
             x = Idle \/ x.pc \notin {"mirror", "send", "answer"}
      PROVE  AttemptStep(r)
  BY <1>2 DEF AttemptStep
<1>3. CASE End(r)
  BY <1>2, <1>3 DEF End
<1>4. ASSUME NEW p \in Payloads, NEW b \in BOOLEAN, NEW lease \in Nat,
             NEW pc \in {"record", "execute"}, Go(r, Attempted(p, b, lease, pc))
      PROVE  AttemptStep(r)
  <2>1. Attempted(p, b, lease, pc) \in Attempt /\ Attempted(p, b, lease, pc).pc = pc
    <3>1. TypeOK /\ pc \in {"record", "replay", "execute"}
      BY <1>1
    <3> QED
      BY ONLY <3>1, AttemptedType, p \in Payloads, b \in BOOLEAN, lease \in Nat
  <2> QED
    BY <1>2, <1>4, <2>1
<1>5. ASSUME NEW p \in Payloads, ClaimStrict(r, p)
      PROVE  AttemptStep(r)
  <2>1. CASE Outcome(p) = "claimed"
    BY <1>1, <1>4, <1>5, <2>1 DEF ClaimStrict
  <2>2. CASE Outcome(p) # "claimed"
    <3>1. Go(r, Idle)
      BY <1>1, <1>5, <2>2 DEF ClaimStrict, Go, TypeOK
    <3> QED
      BY <1>2, <3>1
  <2> QED
    BY <2>1, <2>2
<1>6. ASSUME NEW p \in Payloads, ClaimLoose(r, p)
      PROVE  AttemptStep(r)
  BY <1>1, <1>4, <1>6 DEF ClaimLoose
<1>7. CASE ReplayPick(r)
  <2> DEFINE y == Attempted(ledger.payload, TRUE, StaleAfter, "replay")
             x == [y EXCEPT !.token = 0]
  <2>1. ledger.payload \in Payloads
    BY <1>1, <1>7 DEF TypeOK, ReplayPick, Eligible, Ledger
  <2>2. y \in Attempt /\ y.pc = "replay"
    BY <1>1, <2>1, AttemptedType
  <2>3. x \in Attempt /\ x.pc = "replay"
    <3> HIDE DEF y
    <3> QED
      BY <2>2 DEF Attempt
  <2>4. Go(r, x)
    BY <1>7 DEF ReplayPick, Eligible
  <2> HIDE DEF x
  <2> QED
    BY <1>2, <2>3, <2>4
<1>8. CASE ReplayClaim(r)
  <2>1. runner[r].payload \in Payloads
    BY <1>1, <1>8 DEF TypeOK, ReplayClaim, At, Attempt
  <2>2. End(r) \/ Go(r, Attempted(runner[r].payload, TRUE, StaleAfter, "execute"))
    BY <1>8 DEF ReplayClaim
  <2> QED
    BY <1>1, <1>3, <1>4, <2>1, <2>2
<1>9. ASSUME runner[r] # Idle, NEW pc \in {"withdraw", "execute", "completing", "failing"},
             \/ Go(r, [runner[r] EXCEPT !.pc = pc])
             \/ Go(r, [runner[r] EXCEPT !.pc = pc, !.manual = TRUE])
      PROVE  AttemptStep(r)
  <2>1. /\ [runner[r] EXCEPT !.pc = pc] \in Attempt
        /\ [runner[r] EXCEPT !.pc = pc].pc = pc
        /\ [runner[r] EXCEPT !.pc = pc, !.manual = TRUE] \in Attempt
        /\ [runner[r] EXCEPT !.pc = pc, !.manual = TRUE].pc = pc
    <3>1. runner[r] \in Attempt
      BY <1>1, <1>9 DEF TypeOK
    <3> QED
      BY <3>1 DEF Attempt
  <2> QED
    BY <1>2, <1>9, <2>1
<1>10. CASE RecordRun(r) \/ Complete(r) \/ FailBeforeSend(r) \/ FailUnknown(r)
  <2>1. runner[r] # Idle
    BY <1>10 DEF RecordRun, Complete, FailBeforeSend, FailUnknown, At
  <2>2. \/ End(r)
        \/ Go(r, [runner[r] EXCEPT !.pc = "execute"])
        \/ Go(r, [runner[r] EXCEPT !.pc = "withdraw"])
        \/ Go(r, [runner[r] EXCEPT !.pc = "completing"])
        \/ Go(r, [runner[r] EXCEPT !.pc = "failing"])
        \/ Go(r, [runner[r] EXCEPT !.pc = "failing", !.manual = TRUE])
    BY <1>10 DEF RecordRun, Complete, FailBeforeSend, FailUnknown, End
  <2> QED
    BY <1>3, <1>9, <2>1, <2>2
<1>11. CASE Withdraw(r) \/ CompleteLedger(r) \/ FailLedger(r) \/ Crash(r)
  BY <1>3, <1>11 DEF Withdraw, CompleteLedger, FailLedger, Crash
<1>12. CASE MarkExternalCallStarted(r)
  <2> DEFINE x == [runner[r] EXCEPT !.pc = IF runner[r].strict THEN "send" ELSE "mirror",
                                    !.token = tokens + 1, !.recorded = runner[r].strict]
  <2>1. runner[r] \in Attempt /\ tokens + 1 \in Nat /\ At(r, "execute")
    BY <1>1, <1>12 DEF TypeOK, MarkExternalCallStarted, At
  <2>2. x \in Attempt /\ x.pc # "answer"
    BY <2>1 DEF Attempt
  <2>3. End(r) \/ (Go(r, x) /\ Owns(r) /\ mut' = Dispatched(r))
    BY <1>12 DEF MarkExternalCallStarted, MayCross
  <2> HIDE DEF x
  <2> QED
    BY <1>3, <2>1, <2>2, <2>3 DEF AttemptStep
<1>13. CASE MirrorStart(r)
  <2>1. At(r, "mirror") /\ runner[r] # Idle /\ mut' = mut
    BY <1>13 DEF MirrorStart, At
  <2>2. \/ Go(r, [runner[r] EXCEPT !.pc = "send"])
        \/ Go(r, [runner[r] EXCEPT !.pc = "send", !.recorded = TRUE])
    BY <1>13 DEF MirrorStart
  <2>3. /\ [runner[r] EXCEPT !.pc = "send"] \in Attempt
        /\ [runner[r] EXCEPT !.pc = "send"].pc = "send"
        /\ [runner[r] EXCEPT !.pc = "send", !.recorded = TRUE] \in Attempt
        /\ [runner[r] EXCEPT !.pc = "send", !.recorded = TRUE].pc = "send"
    BY <1>1, <2>1, NextAttempt
  <2> QED
    BY <2>1, <2>2, <2>3 DEF AttemptStep
<1>14. CASE Send(r)
  <2>1. At(r, "send") /\ runner[r] # Idle /\ mut' = mut /\ sends' = sends + 1
    BY <1>14 DEF Send, At
  <2>2. Go(r, [runner[r] EXCEPT !.pc = "answer"])
    BY <1>14 DEF Send
  <2>3. /\ [runner[r] EXCEPT !.pc = "answer"] \in Attempt
        /\ [runner[r] EXCEPT !.pc = "answer"].pc = "answer"
    BY <1>1, <2>1, NextAttempt
  <2> QED
    BY <2>1, <2>2, <2>3 DEF AttemptStep
<1> QED
  BY <1>5, <1>6, <1>7, <1>8, <1>10, <1>11, <1>12, <1>13, <1>14 DEF Run

(* The phase that each change of the row leads to.                          *)
LEMMA RowPhase ==
    ASSUME DispatchInv, NEW r \in Runners, RowStep(r)
    PROVE  /\ Phase' = Phase \/ (Phase = "open" /\ Phase' \in {"unknown", "completed"})
           /\ Phase' = "completed" /\ Phase # "completed" =>
                 Owner(r) /\ (At(r, "execute") \/ At(r, "answer"))
<1>1. TypeOK /\ NoRow \notin Mutation
  BY EffectAssumption DEF DispatchInv
<1>2. Owner(r) => Phase = "open" /\ mut # NoRow /\ runner[r] # Idle /\ Owns(r)
  BY DEF Owner, Owns, Phase
<1>3. CASE mut' = mut
  BY <1>3 DEF Phase
<1>4. ASSUME NEW p \in Payloads, NEW lease \in Nat, mut' = Claimed(p, lease)
      PROVE  Phase' = Phase \/ (Phase = "open" /\ Phase' = "unknown")
  <2>1. CASE Verdict(p) \in Claims
    <3>1. Phase' = "open"
      BY <1>1, <1>4, <2>1, ClaimedType DEF Phase
    <3>2. Phase = "open"
      BY <1>1, <2>1, VerdictFacts DEF Phase, Claims
    <3> QED
      BY <3>1, <3>2
  <2>2. CASE Verdict(p) = "settle"
    <3>1. Phase' = "unknown"
      BY <1>1, <1>4, <2>2, ClaimedType DEF Phase
    <3>2. Phase = "open"
      BY <1>1, <2>2, VerdictFacts DEF Phase
    <3> QED
      BY <3>1, <3>2
  <2>3. CASE Verdict(p) \notin Claims \cup {"settle"}
    <3>1. mut' = mut
      BY <1>1, <1>4, <2>3, ClaimedType
    <3> QED
      BY <3>1 DEF Phase
  <2> QED
    BY <2>1, <2>2, <2>3
<1>5. CASE Owner(r) /\ mut' \in {NoRow, Settled("failed"), Settled("unknown_after_send")}
  <2>1. Phase' \in {"open", "unknown"}
    BY <1>1, <1>2, <1>5, SettledType DEF Phase
  <2> QED
    BY <1>2, <1>5, <2>1
<1>6. CASE Owner(r) /\ mut' = Dispatched(r)
  <2>1. Phase' = "open"
    BY <1>1, <1>2, <1>6, DispatchedType DEF Phase
  <2> QED
    BY <1>2, <1>6, <2>1
<1>7. CASE /\ Owner(r) /\ (At(r, "execute") \/ At(r, "answer"))
           /\ mut' = Settled("completed")
  <2>1. Phase' = "completed"
    BY <1>1, <1>2, <1>7, SettledType DEF Phase
  <2> QED
    BY <1>2, <1>7, <2>1
<1> QED
  BY <1>3, <1>4, <1>5, <1>6, <1>7 DEF RowStep

(* Completed is a phase of the row.                                         *)
LEMMA PhaseCompleted ==
    Phase = "completed" <=> mut # NoRow /\ mut.status = "completed"
BY DEF Phase

(* A step of an attempt that is not the call leaves the count alone.        *)
LEMMA RunCalls ==
    ASSUME NEW r \in Runners, Run(r), ~ Send(r)
    PROVE  sends' = sends /\ carried' = carried
BY DEF Run, ClaimStrict, ClaimLoose, RecordRun, Withdraw, ReplayPick, ReplayClaim,
       MarkExternalCallStarted, MirrorStart, Complete, CompleteLedger, FailBeforeSend,
       FailUnknown, FailLedger, Crash

(* Steps of an attempt: a call is only waited for once made, and only the   *)
(* owner that nothing overtook crosses or completes.                        *)
LEMMA RunSent ==
    ASSUME DispatchInv, SentInv, NEW r \in Runners, Run(r)
    PROVE  SentInv'
<1>1. TypeOK /\ sends \in Nat /\ (sends' = sends \/ sends' = sends + 1)
  BY RunCalls DEF DispatchInv, TypeOK, Send
<1>2. PICK x \in Attempt \cup {Idle} :
         /\ Go(r, x)
         /\ \/ x = Idle \/ x.pc \notin {"mirror", "send", "answer"}
            \/ At(r, "mirror") /\ x.pc = "send" /\ mut' = mut
            \/ At(r, "send") /\ x.pc = "answer" /\ mut' = mut /\ sends' = sends + 1
            \/ At(r, "execute") /\ x.pc # "answer" /\ Owns(r) /\ mut' = Dispatched(r)
  BY RunAttemptStep DEF AttemptStep
<1>3. /\ runner'[r] = x
      /\ \A s \in Runners : s # r => runner'[s] = runner[s]
  BY <1>1, <1>2, GoFacts
<1>4. Answered'
  <2> SUFFICES ASSUME NEW s \in Runners, At(s, "answer")'
               PROVE  sends' > 0
    BY DEF Answered
  <2>1. CASE s = r
    BY <1>1, <1>2, <1>3, <2>1 DEF At
  <2>2. CASE s # r
    <3>1. At(s, "answer")
      BY <1>3, <2>2 DEF At
    <3> QED
      BY <1>1, <3>1 DEF SentInv, Answered
  <2> QED
    BY <2>1, <2>2
<1>5. CompletedQuiet'
  <2> SUFFICES ASSUME ~ KeyEnforced, mut' # NoRow, mut'.status = "completed",
                      NEW s \in Runners, Crossing(s)'
               PROVE  FALSE
    BY DEF CompletedQuiet
  <2>1. ~ (Owns(r) /\ mut' = Dispatched(r) /\ runner[r] # Idle)
    BY <1>1, DispatchedType
  <2>2. Crossing(s)
    BY <1>2, <1>3, <2>1 DEF Crossing, At
  <2>3. Crossed /\ sends = 0
    BY <2>2 DEF Crossed, DispatchInv, OneCrossing
  <2>4. Phase' = "completed"
    BY DEF Phase
  <2>5. CASE Phase = "completed"
    BY <2>2, <2>5, PhaseCompleted DEF SentInv, CompletedQuiet
  <2>6. CASE Phase # "completed"
    <3>1. RowStep(r)
      BY RunRowStep
    <3>2. Owns(r) /\ (At(r, "execute") \/ At(r, "answer"))
      BY <2>4, <2>6, <3>1, RowPhase DEF Owner
    <3>3. CASE At(r, "execute")
      BY <2>3, <3>2, <3>3, OwnerBefore DEF Before
    <3>4. CASE At(r, "answer")
      BY <2>3, <3>4 DEF SentInv, Answered
    <3> QED
      BY <3>2, <3>3, <3>4
  <2> QED
    BY <2>5, <2>6
<1> QED
  BY <1>4, <1>5 DEF SentInv

(* A reconciliation completes the key only after a call, when none is about *)
(* to be made.                                                              *)
LEMMA OutsideSent ==
    ASSUME DispatchInv, SentInv,
           Reconcile \/ MarkUnrecoverable \/ Tick \/ \E p \in Payloads : Preflight(p)
    PROVE  SentInv'
<1>1. /\ runner' = runner /\ sends \in Nat
      /\ sends' = sends \/ (KeyEnforced /\ sends' = sends + 1)
      /\ mut' = mut \/ sends > 0 \/ KeyEnforced
  BY DEF DispatchInv, TypeOK, Reconcile, MarkUnrecoverable, Tick, Preflight
<1>2. Answered'
  BY <1>1 DEF SentInv, Answered, At
<1>3. CompletedQuiet'
  <2> SUFFICES ASSUME ~ KeyEnforced, mut' # NoRow, mut'.status = "completed",
                      NEW s \in Runners, Crossing(s)'
               PROVE  FALSE
    BY DEF CompletedQuiet
  <2>1. Crossing(s)
    BY <1>1 DEF Crossing, At
  <2>2. sends = 0
    BY <2>1 DEF DispatchInv, OneCrossing
  <2>3. mut' = mut
    BY <1>1, <2>2
  <2> QED
    BY <2>1, <2>3 DEF SentInv, CompletedQuiet
<1> QED
  BY <1>2, <1>3 DEF SentInv

(* SentInv is inductive relative to DispatchInv.                            *)
LEMMA SentInvariant == Spec => []SentInv
<1>1. Init => SentInv
  BY DEF Init, SentInv, Answered, CompletedQuiet, At
<1>2. DispatchInv /\ SentInv /\ [Next]_vars => SentInv'
  <2> SUFFICES ASSUME DispatchInv, SentInv, [Next]_vars
               PROVE  SentInv'
    OBVIOUS
  <2>1. CASE UNCHANGED vars
    BY <2>1 DEF vars, SentInv, Answered, CompletedQuiet, Crossing, At
  <2> QED
    BY <2>1, RunSent, OutsideSent DEF Next
<1> QED
  BY <1>1, <1>2, Dispatch, PTL DEF Spec

-----------------------------------------------------------------------------
(* Every step is a step of OneEffect, or none.                              *)

(* A request with the payload of the row is one with every earlier payload. *)
LEMMA RequestOfRow ==
    ASSUME TypeOK, OnePayload, mut # NoRow, NEW p \in Payloads, p = mut.payload,
           sends' = sends + 1, carried' = carried \cup {p}
    PROVE  Effect!Request
<1>1. carried \subseteq {p} /\ carried' = {p}
  BY DEF OnePayload
<1> QED
  BY <1>1 DEF Effect!Request

(* The call of an attempt.                                                  *)
LEMMA SendIsCall ==
    ASSUME DispatchInv, PayloadInv, SentInv, NEW r \in Runners, Send(r)
    PROVE  Effect!Call
<1>1. /\ TypeOK /\ OnePayload /\ Crossing(r) /\ runner[r].payload \in Payloads
      /\ mut # NoRow /\ runner[r].payload = mut.payload
  BY DEF DispatchInv, TypeOK, PayloadInv, CrossingPayload, Send, Crossing, At, Attempt
<1>2. Effect!Request
  BY <1>1, RequestOfRow DEF Send
<1>3. Phase' = Phase
  BY DEF Send, Phase
<1>4. ~ KeyEnforced => sends = 0 /\ Phase # "completed"
  BY <1>1, PhaseCompleted DEF DispatchInv, OneCrossing, SentInv, CompletedQuiet
<1> QED
  BY <1>2, <1>3, <1>4 DEF Effect!Call

(* Any other step of an attempt moves the phase, or nothing.                *)
LEMMA RunIsEffect ==
    ASSUME DispatchInv, NEW r \in Runners, Run(r), ~ Send(r)
    PROVE  [Effect!Next]_<<Phase, sends, carried>>
<1>1. sends' = sends /\ carried' = carried
  BY RunCalls
<1>2. Phase' = Phase \/ (Phase = "open" /\ Phase' \in {"unknown", "completed"})
  BY RunRowStep, RowPhase
<1>3. CASE Phase' = Phase
  BY <1>1, <1>3
<1>4. CASE Phase = "open" /\ Phase' = "unknown"
  BY <1>1, <1>4 DEF Effect!Next, Effect!GiveUp
<1>5. CASE Phase = "open" /\ Phase' = "completed"
  BY <1>1, <1>5 DEF Effect!Next, Effect!Finish
<1> QED
  BY <1>2, <1>3, <1>4, <1>5

(* A reconciliation confirms.                                               *)
LEMMA ReconcileConfirms ==
    ASSUME DispatchInv, PayloadInv, Reconcile
    PROVE  Effect!Confirm
<1>1. /\ TypeOK /\ OnePayload /\ mut # NoRow /\ mut.status = "unknown_after_send"
      /\ ledger # NoRow /\ ledger.payload = mut.payload
      /\ mut' = Settled("completed")
  BY DEF DispatchInv, PayloadInv, DispatchedLedger, Reconcile
<1>2. Phase = "unknown"
  BY <1>1 DEF Phase
<1>3. Phase' = "completed"
  <2>1. mut' \in Mutation /\ mut'.status = "completed"
    BY <1>1, SettledType
  <2> QED
    BY <2>1, EffectAssumption DEF Phase
<1>4. ledger.payload \in Payloads
  BY <1>1 DEF TypeOK, Ledger
<1>5. CASE sends > 0 /\ UNCHANGED <<sends, carried>>
  BY <1>2, <1>3, <1>5 DEF Effect!Confirm
<1>6. CASE /\ KeyEnforced
           /\ sends' = sends + 1
           /\ carried' = carried \cup {ledger.payload}
  <2>1. Effect!Request
    BY <1>1, <1>4, <1>6, RequestOfRow
  <2> QED
    BY <1>2, <1>3, <1>6, <2>1 DEF Effect!Confirm
<1> QED
  BY <1>5, <1>6 DEF Reconcile

(* The attempts on a key, with their leases, takeovers, replays and         *)
(* crashes, implement one effect: for any number of attempts and payloads,  *)
(* with strict callers or not and with or without deduplication.            *)
THEOREM EffectIsOne == Spec => ImplementsOneEffect
<1>1. Init => Effect!Init
  BY DEF Init, Effect!Init, Phase
<1>2. DispatchInv /\ PayloadInv /\ SentInv /\ [Next]_vars => [Effect!Next]_<<Phase, sends, carried>>
  <2> SUFFICES ASSUME DispatchInv, PayloadInv, SentInv, [Next]_vars
               PROVE  [Effect!Next]_<<Phase, sends, carried>>
    OBVIOUS
  <2>1. CASE UNCHANGED vars
    BY <2>1 DEF vars, Phase
  <2>2. ASSUME NEW r \in Runners, Run(r)
        PROVE  [Effect!Next]_<<Phase, sends, carried>>
    <3>1. CASE Send(r)
      BY <3>1, SendIsCall DEF Effect!Next
    <3>2. CASE ~ Send(r)
      BY <2>2, <3>2, RunIsEffect
    <3> QED
      BY <3>1, <3>2
  <2>3. CASE Reconcile
    BY <2>3, ReconcileConfirms DEF Effect!Next
  <2>4. CASE MarkUnrecoverable \/ Tick \/ \E p \in Payloads : Preflight(p)
    <3>1. mut' = mut /\ sends' = sends /\ carried' = carried
      BY <2>4 DEF MarkUnrecoverable, Tick, Preflight
    <3> QED
      BY <3>1 DEF Phase
  <2> QED
    BY <2>1, <2>2, <2>3, <2>4 DEF Next
<1> QED
  BY <1>1, <1>2, Dispatch, PayloadInvariant, SentInvariant, PTL
     DEF Spec, ImplementsOneEffect, Effect!Spec

=============================================================================
