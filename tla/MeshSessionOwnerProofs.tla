------------------------ MODULE MeshSessionOwnerProofs ------------------------
(****************************************************************************)
(* Session ownership, for every set of nodes and of claims in flight.  The  *)
(* epoch compare-and-swap protects a claim because an epoch names its       *)
(* owner: every record read from the table, whether already returned to a   *)
(* node or still in the locals of a claim, is a past or the present row     *)
(* (ReadsFaithful), and past rows have smaller epochs.                      *)
(****************************************************************************)
EXTENDS MeshSessionOwner, TLAPS

(* A claim that has decided to write met the takeover condition on the row *)
(* it saw.                                                                 *)
ClaimsDecided ==
    \A c \in Calls :
        /\ call[c] # Idle
        /\ call[c].pc = "write"
        /\ call[c].seen # NoRow
        => CanTakeOver(call[c].seen, call[c].node, call[c].force, call[c].expected)

OwnerInv == TypeOK /\ ReadsFaithful /\ OneOwnerPerEpoch /\ ClaimsDecided

(* Nothing has been read or claimed initially. *)
LEMMA OwnerInit == Init => OwnerInv
BY DEF Init, OwnerInv, TypeOK, ReadsFaithful, Faithful, OneOwnerPerEpoch, ClaimsDecided, MaybeRow

(* claimSessionOwner's read: what it saw is the present row. *)
LEMMA ClaimReadStep ==
    ASSUME OwnerInv, NEW c \in Calls, NEW n \in Nodes, NEW force \in BOOLEAN,
           NEW expected \in ExpectedEpochs, ClaimRead(c, n, force, expected)
    PROVE  OwnerInv'
<1> DEFINE s == [pc |-> "write", node |-> n, force |-> force,
                 expected |-> expected, seen |-> row]
<1>1. s \in InFlight /\ s # Idle
  BY ConstantsAssumption DEF OwnerInv, TypeOK, InFlight
<1>2. /\ call' = [call EXCEPT ![c] = s] /\ row' = row /\ told' = told
      /\ row # NoRow => CanTakeOver(row, n, force, expected)
  BY DEF ClaimRead
<1>3. \A d \in Calls : call'[d] = IF d = c THEN s ELSE call[d]
  BY <1>2 DEF OwnerInv, TypeOK
<1> HIDE DEF s
<1>4. s.pc = "write" /\ s.seen = row /\ s.node = n /\ s.force = force /\ s.expected = expected
  BY DEF s
<1>5. TypeOK'
  BY <1>1, <1>2, <1>3, <1>4 DEF OwnerInv, TypeOK
<1>6. ReadsFaithful'
  <2>1. Faithful(row)
    BY DEF OwnerInv, TypeOK, MaybeRow, OwnerRow, Faithful
  <2>2. \A d \in Calls : call'[d] # Idle => Faithful(call'[d].seen)
    BY <2>1, <1>3, <1>4 DEF OwnerInv, ReadsFaithful
  <2> QED BY <2>2, <1>2 DEF OwnerInv, ReadsFaithful, Faithful
<1>7. OneOwnerPerEpoch'
  BY <1>2 DEF OwnerInv, OneOwnerPerEpoch
<1>8. ClaimsDecided'
  BY <1>2, <1>3, <1>4 DEF OwnerInv, ClaimsDecided
<1> QED BY <1>5, <1>6, <1>7, <1>8 DEF OwnerInv

(* The write: a winning claim moves the row to a larger epoch, so what was *)
(* read before stays behind it; a losing one changes nothing.              *)
LEMMA ClaimWriteStep ==
    ASSUME OwnerInv, NEW c \in Calls, ClaimWrite(c)
    PROVE  OwnerInv'
<1> DEFINE s == call[c]
<1>1. s \in InFlight /\ s # Idle /\ s.pc = "write" /\ told' = told
  BY DEF ClaimWrite, OwnerInv, TypeOK
<1>2. CASE Wins(s) /\ row' = [owner |-> s.node, epoch |-> NextEpoch(s)]
           /\ call' = [call EXCEPT ![c].pc = "reload"]
  <2>1. row' \in OwnerRow /\ row' # NoRow
    BY <1>1, <1>2, ConstantsAssumption DEF InFlight, NextEpoch, MaybeRow, OwnerRow
  <2>2. row # NoRow => row'.epoch > row.epoch
    BY <1>1, <1>2, ConstantsAssumption
    DEF Wins, NextEpoch, OwnerInv, TypeOK, MaybeRow, OwnerRow, InFlight
  <2>3. \A d \in Calls : call'[d] = IF d = c THEN [s EXCEPT !.pc = "reload"] ELSE call[d]
    BY <1>2 DEF OwnerInv, TypeOK
  <2>4. /\ [s EXCEPT !.pc = "reload"] \in InFlight
        /\ [s EXCEPT !.pc = "reload"].seen = s.seen
        /\ [s EXCEPT !.pc = "reload"].pc = "reload"
    BY <1>1 DEF InFlight
  <2> HIDE DEF s
  <2>5. TypeOK'
    BY <1>1, <1>2, <2>1, <2>3, <2>4 DEF OwnerInv, TypeOK, MaybeRow
  <2> DEFINE Past(r) == r # NoRow => r.epoch <= row'.epoch /\ r.epoch # row'.epoch
  <2>6. ASSUME NEW r \in MaybeRow, Faithful(r) PROVE Past(r)
    <3>1. CASE r = NoRow
      BY <3>1
    <3>2. CASE r # NoRow
      <4>1. row # NoRow /\ r.epoch <= row.epoch
        BY <2>6, <3>2 DEF Faithful
      <4>2. r.epoch \in Nat /\ row.epoch \in Nat /\ row'.epoch \in Nat
        BY <2>1, <3>2, <4>1 DEF OwnerInv, TypeOK, MaybeRow, OwnerRow
      <4> QED BY <2>2, <4>1, <4>2
    <3> QED BY <3>1, <3>2
  <2>7. ReadsFaithful'
    <3>1. \A n \in Nodes : told[n] \in MaybeRow /\ Faithful(told[n])
      BY DEF OwnerInv, TypeOK, ReadsFaithful
    <3>2. \A n \in Nodes : Past(told'[n])
      BY <3>1, <2>6, <1>1
    <3>3. ASSUME NEW d \in Calls, call'[d] # Idle PROVE Past(call'[d].seen)
      <4>1. call[d] # Idle /\ call'[d].seen = call[d].seen
        BY <3>3, <2>3, <2>4, <1>1 DEF s
      <4>2. call[d].seen \in MaybeRow /\ Faithful(call[d].seen)
        BY <4>1 DEF OwnerInv, TypeOK, ReadsFaithful, InFlight
      <4> QED BY <4>1, <4>2, <2>6
    <3> QED BY <2>1, <3>2, <3>3 DEF ReadsFaithful, Faithful
  <2>8. OneOwnerPerEpoch'
    BY <1>1 DEF OwnerInv, OneOwnerPerEpoch
  <2>9. ClaimsDecided'
    BY <2>3, <2>4 DEF OwnerInv, ClaimsDecided
  <2> QED BY <2>5, <2>7, <2>8, <2>9 DEF OwnerInv
<1>3. CASE row' = row /\ call' = [call EXCEPT ![c] = Idle]
  BY <1>1, <1>3 DEF OwnerInv, TypeOK, ReadsFaithful, Faithful, OneOwnerPerEpoch, ClaimsDecided
<1> QED BY <1>2, <1>3 DEF ClaimWrite

(* The present row may be handed to any node: records of the same epoch    *)
(* are that row.                                                           *)
LEMMA TellingKeeps ==
    ASSUME OwnerInv, NEW n \in Nodes, row # NoRow, row' = row,
           told' = [told EXCEPT ![n] = row]
    PROVE  /\ told' \in [Nodes -> MaybeRow]
           /\ \A m \in Nodes : Faithful(told'[m])
           /\ OneOwnerPerEpoch'
<1>1. \A m \in Nodes : told'[m] = IF m = n THEN row ELSE told[m]
  BY DEF OwnerInv, TypeOK
<1>2. told' \in [Nodes -> MaybeRow]
  BY DEF OwnerInv, TypeOK
<1>3. Faithful(row)
  BY DEF OwnerInv, TypeOK, MaybeRow, OwnerRow, Faithful
<1>4. \A m \in Nodes : Faithful(told'[m])
  BY <1>1, <1>3 DEF OwnerInv, ReadsFaithful
<1>5. OneOwnerPerEpoch'
  BY <1>1 DEF OwnerInv, OneOwnerPerEpoch, ReadsFaithful, Faithful
<1> QED BY <1>2, <1>4, <1>5

(* The reload at the end of a claim. *)
LEMMA ReloadStep ==
    ASSUME OwnerInv, NEW c \in Calls, Reload(c)
    PROVE  OwnerInv'
<1>1. /\ call[c] \in InFlight /\ call[c] # Idle /\ row # NoRow /\ row' = row
      /\ told' = [told EXCEPT ![call[c].node] = row]
      /\ call' = [call EXCEPT ![c] = Idle]
  BY DEF Reload, OwnerInv, TypeOK
<1>2. call[c].node \in Nodes
  BY <1>1 DEF InFlight
<1>3. /\ told' \in [Nodes -> MaybeRow]
      /\ \A m \in Nodes : Faithful(told'[m])
      /\ OneOwnerPerEpoch'
  BY <1>1, <1>2, TellingKeeps
<1> QED BY <1>1, <1>3 DEF OwnerInv, TypeOK, ReadsFaithful, Faithful, ClaimsDecided

(* The invariant is inductive. *)
LEMMA OwnerStep == OwnerInv /\ [Next]_vars => OwnerInv'
<1> SUFFICES ASSUME OwnerInv, [Next]_vars PROVE OwnerInv'
  OBVIOUS
<1>1. ASSUME NEW c \in Calls, NEW n \in Nodes, NEW force \in BOOLEAN,
             NEW expected \in ExpectedEpochs, ClaimRead(c, n, force, expected)
      PROVE  OwnerInv'
  BY <1>1, ClaimReadStep
<1>2. ASSUME NEW c \in Calls, ClaimWrite(c) PROVE OwnerInv'
  BY <1>2, ClaimWriteStep
<1>3. ASSUME NEW c \in Calls, Reload(c) PROVE OwnerInv'
  BY <1>3, ReloadStep
<1>4. ASSUME NEW c \in Calls, LoseCall(c) PROVE OwnerInv'
  BY <1>4 DEF LoseCall, OwnerInv, TypeOK, ReadsFaithful, Faithful, OneOwnerPerEpoch, ClaimsDecided
<1>5. ASSUME NEW n \in Nodes, GetSessionOwner(n) PROVE OwnerInv'
  <2>1. row # NoRow /\ row' = row /\ call' = call /\ told' = [told EXCEPT ![n] = row]
    BY <1>5 DEF GetSessionOwner
  <2>2. /\ told' \in [Nodes -> MaybeRow]
        /\ \A m \in Nodes : Faithful(told'[m])
        /\ OneOwnerPerEpoch'
    BY <2>1, TellingKeeps
  <2> QED BY <2>1, <2>2 DEF OwnerInv, TypeOK, ReadsFaithful, Faithful, ClaimsDecided
<1>6. CASE UNCHANGED vars
  BY <1>6 DEF vars, OwnerInv, TypeOK, ReadsFaithful, Faithful, OneOwnerPerEpoch, ClaimsDecided
<1> QED BY <1>1, <1>2, <1>3, <1>4, <1>5, <1>6 DEF Next

(* A write that changes the owner replaces the row its claim saw, so the   *)
(* takeover condition that claim met holds of the row it replaces.         *)
LEMMA OwnerTakeover ==
    ASSUME OwnerInv, [Next]_vars, row # NoRow, row' # row, row'.owner # row.owner
    PROVE  /\ row'.epoch = row.epoch + 1
           /\ \E c \in Calls : /\ call[c] # Idle /\ call[c].node = row'.owner
                               /\ call[c].force \/ call[c].expected = row.epoch
<1>1. PICK c \in Calls : ClaimWrite(c)
  BY DEF Next, vars, ClaimRead, Reload, LoseCall, GetSessionOwner
<1>2. /\ call[c] # Idle /\ call[c].pc = "write" /\ Wins(call[c])
      /\ row' = [owner |-> call[c].node, epoch |-> NextEpoch(call[c])]
  BY <1>1 DEF ClaimWrite
<1>3. call[c].seen # NoRow /\ call[c].seen.epoch = row.epoch
  BY <1>2 DEF Wins
<1>4. call[c].seen = row
  BY <1>2, <1>3 DEF OwnerInv, ReadsFaithful, Faithful
<1>5. CanTakeOver(row, call[c].node, call[c].force, call[c].expected)
  BY <1>2, <1>3, <1>4 DEF OwnerInv, ClaimsDecided
<1> QED BY <1>2, <1>3, <1>5 DEF CanTakeOver, NextEpoch

(* OwnerInv holds of every reachable state of claimSessionOwner and         *)
(* getSessionOwner, with any number of nodes and interleaved claims.        *)
THEOREM Ownership == Spec => []OwnerInv
BY OwnerInit, OwnerStep, PTL DEF Spec

(* The owner row, the claims in flight and the records returned by          *)
(* claimSessionOwner and getSessionOwner are well typed.                    *)
THEOREM OwnerTypeCorrect == Spec => []TypeOK
<1>1. OwnerInv => TypeOK
  BY DEF OwnerInv
<1> QED BY <1>1, Ownership, PTL

(* No split-brain: an epoch returned by claimSessionOwner or               *)
(* getSessionOwner names one owner, whoever asked and whenever.            *)
THEOREM NoSplitBrain == Spec => []OneOwnerPerEpoch
<1>1. OwnerInv => OneOwnerPerEpoch
  BY DEF OwnerInv
<1> QED BY <1>1, Ownership, PTL

(* Ownership passes to another node only to a forced claim or to one that  *)
(* named the epoch it replaces, and under the next epoch                   *)
(* (claimSessionOwner).                                                    *)
THEOREM TakeoversNamed == Spec => TakeoverNamed
<1>1. OwnerInv /\ [Next]_vars =>
        [row # NoRow /\ row' # row /\ row'.owner # row.owner
         => /\ row'.epoch = row.epoch + 1
            /\ \E c \in Calls : /\ call[c] # Idle /\ call[c].node = row'.owner
                                /\ call[c].force \/ call[c].expected = row.epoch]_vars
  BY OwnerTakeover
<1> QED BY <1>1, Ownership, PTL DEF Spec, TakeoverNamed

(* A node never learns of an older epoch than it already knows: answers of  *)
(* claimSessionOwner and getSessionOwner that were delayed, lost or overrun *)
(* by other claims never take it back to a past owner.                      *)
EpochsForward ==
    [][\A n \in Nodes : told[n] # NoRow =>
           told'[n] # NoRow /\ told'[n].epoch >= told[n].epoch]_vars

(* A node that is told anything is told the present row, which no record   *)
(* is ahead of.                                                            *)
LEMMA TellingForward ==
    ASSUME OwnerInv, [Next]_vars, NEW n \in Nodes, told[n] # NoRow
    PROVE  told'[n] # NoRow /\ told'[n].epoch >= told[n].epoch
<1>1. told'[n] \in {told[n], row}
  BY DEF Next, vars, ClaimRead, ClaimWrite, Reload, LoseCall, GetSessionOwner, OwnerInv, TypeOK
<1>2. row # NoRow /\ told[n].epoch <= row.epoch
  BY DEF OwnerInv, ReadsFaithful, Faithful
<1>3. told[n].epoch \in Nat /\ row.epoch \in Nat
  BY <1>2 DEF OwnerInv, TypeOK, MaybeRow, OwnerRow
<1> QED BY <1>1, <1>2, <1>3

(* What a node knows of a session's ownership only moves forward, with any *)
(* number of nodes and interleaved claims (claimSessionOwner,              *)
(* getSessionOwner).                                                       *)
THEOREM KnowledgeForward == Spec => EpochsForward
<1>1. OwnerInv /\ [Next]_vars =>
        [\A n \in Nodes : told[n] # NoRow =>
             told'[n] # NoRow /\ told'[n].epoch >= told[n].epoch]_vars
  BY TellingForward
<1> QED BY <1>1, Ownership, PTL DEF Spec, EpochsForward
=============================================================================
