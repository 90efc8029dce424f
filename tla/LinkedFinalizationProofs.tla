---------------------- MODULE LinkedFinalizationProofs ----------------------
(****************************************************************************)
(* Proofs about LinkedFinalization for any number of processes, faults and  *)
(* failures of the run.  They rest on what a version-checked update gives:  *)
(* a write that succeeds acts on the row its process read.                  *)
(****************************************************************************)
EXTENDS LinkedFinalization, TLAPS

(* A row that was read is the current one or has an older version.          *)
Faithful(seen) ==
    /\ seen.version <= row.version
    /\ seen.version = row.version => seen = row

ReadsFaithful ==
    /\ \A p \in Procs : fin[p] # Idle => Faithful(fin[p].seen)
    /\ \A p \in Procs : beat[p] # Idle => Faithful(beat[p].seen)

(* What a finalization has established when it gets to each point, with the *)
(* failures l whose records are marked and at time t.                       *)
Progress(x, l, t) ==
    /\ x.pc \in {"marked", "clear"} => x.epoch \in l
    /\ x.pc = "claiming" =>
          x.seen.pending /\ (x.seen.claim = 0 \/ x.seen.expires <= t)

AllProgress == \A p \in Procs : fin[p] # Idle => Progress(fin[p], linked, now)

(* The inductive invariant.                                                 *)
FinInv ==
    /\ TypeOK
    /\ ReadsFaithful
    /\ AllProgress
    /\ ClearedMeansMarked

-----------------------------------------------------------------------------
(* What a step does to the row: nothing, or a change under a new version.   *)
RowEffect ==
    /\ row' \in Row
    /\ row' = row \/ row'.version = row.version + 1
    /\ now' \in Nat /\ now <= now'
    /\ linked' \subseteq Nat /\ linked \subseteq linked'
    /\ faults' \in Nat
    /\ ~ row'.pending => row'.epoch \in linked'

(* What a step does to a finalization and a renewal: each is kept, ends, or *)
(* moves to a point whose facts hold, with its old read or a read of now.   *)
FinEffect ==
    /\ fin' \in [Procs -> Finalizing \cup {Idle}]
    /\ \A p \in Procs : fin'[p] # Idle =>
          \/ fin'[p] = fin[p]
          \/ /\ \/ fin[p] # Idle /\ fin'[p].seen = fin[p].seen
                \/ row' = row /\ fin'[p].seen = row
             /\ Progress(fin'[p], linked', now')

BeatEffect ==
    /\ beat' \in [Procs -> Renewal \cup {Idle}]
    /\ \A p \in Procs : beat'[p] # Idle =>
          \/ beat'[p] = beat[p]
          \/ row' = row /\ beat'[p].seen = row

(* The types of the parts.                                                  *)
LEMMA Parts ==
    ASSUME TypeOK
    PROVE  /\ now \in Nat /\ row \in Row /\ linked \subseteq Nat /\ faults \in Nat
           /\ row.version \in Nat /\ row.version + 1 \in Nat /\ row.epoch \in Nat
           /\ now + ClaimTtl \in Nat /\ now + 1 \in Nat /\ faults + 1 \in Nat
           /\ 0 \in Tries
           /\ \A p \in Procs : fin[p] # Idle =>
                 /\ fin[p] \in Finalizing /\ fin[p].seen \in Row
                 /\ fin[p].epoch \in Nat /\ fin[p].until \in Nat
           /\ \A p \in Procs : beat[p] # Idle =>
                 beat[p] \in Renewal /\ beat[p].seen \in Row /\ beat[p].until \in Nat
<1>1. /\ now \in Nat /\ row \in Row /\ linked \subseteq Nat /\ faults \in Nat
      /\ row.version \in Nat /\ row.version + 1 \in Nat /\ row.epoch \in Nat
      /\ now + ClaimTtl \in Nat /\ now + 1 \in Nat /\ faults + 1 \in Nat
  BY FinalizationAssumption DEF TypeOK, Row
<1>2. 0 \in Tries
  BY FinalizationAssumption DEF Tries
<1>3. \A p \in Procs : /\ fin[p] # Idle => fin[p] \in Finalizing
                       /\ beat[p] # Idle => beat[p] \in Renewal
  BY DEF TypeOK
<1> QED
  BY <1>1, <1>2, <1>3 DEF Finalizing, Renewal

(* A lost race leaves a finalization that has read the row again.           *)
LEMMA AgainFin ==
    ASSUME TypeOK, NEW x \in Finalizing, Again(x) # Idle
    PROVE  /\ Again(x) \in Finalizing
           /\ Again(x).seen = row /\ Again(x).pc = x.pc /\ Again(x).epoch = x.epoch
<1>1. row \in Row
  BY Parts
<1>2. x.tries + 1 \in Tries /\ Again(x) = [x EXCEPT !.seen = row, !.tries = @ + 1]
  BY FinalizationAssumption DEF Again, Tries, Finalizing
<1> QED
  BY <1>1, <1>2 DEF Finalizing

(* The same for a renewal.                                                  *)
LEMMA AgainBeat ==
    ASSUME TypeOK, NEW x \in Renewal, Again(x) # Idle
    PROVE  Again(x) \in Renewal /\ Again(x).seen = row
<1>1. row \in Row
  BY Parts
<1>2. x.tries + 1 \in Tries /\ Again(x) = [x EXCEPT !.seen = row, !.tries = @ + 1]
  BY FinalizationAssumption DEF Again, Tries, Renewal
<1> QED
  BY <1>1, <1>2 DEF Renewal

(* A version check that succeeds finds the row that was read.               *)
LEMMA SeenIsRow ==
    ASSUME FinInv, NEW p \in Procs
    PROVE  /\ fin[p] # Idle /\ Unchanged(fin[p].seen) => fin[p].seen = row
           /\ beat[p] # Idle /\ Unchanged(beat[p].seen) => beat[p].seen = row
BY DEF FinInv, ReadsFaithful, Faithful, Unchanged

-----------------------------------------------------------------------------
(* A step that leaves the row, the clock and the linked records alone.      *)
LEMMA RowSame ==
    ASSUME FinInv, UNCHANGED <<now, row, linked, faults>>
    PROVE  RowEffect
BY Parts DEF FinInv, RowEffect, ClearedMeansMarked

(* A step that leaves the finalizations alone.                              *)
LEMMA FinSame ==
    ASSUME FinInv, UNCHANGED fin
    PROVE  FinEffect
BY DEF FinInv, TypeOK, FinEffect

(* A step that leaves the renewals alone.                                   *)
LEMMA BeatSame ==
    ASSUME FinInv, UNCHANGED beat
    PROVE  BeatEffect
BY DEF FinInv, TypeOK, BeatEffect

(* A finalization ends.                                                     *)
LEMMA FinQuit ==
    ASSUME FinInv, NEW p \in Procs, Quit(p)
    PROVE  FinEffect
BY DEF FinInv, TypeOK, FinEffect, Quit

(* A finalization moves to x.                                               *)
LEMMA FinMove ==
    ASSUME FinInv, NEW p \in Procs, NEW x \in Finalizing, Step(p, x),
           \/ fin[p] # Idle /\ x.seen = fin[p].seen
           \/ row' = row /\ x.seen = row,
           Progress(x, linked', now')
    PROVE  FinEffect
BY DEF FinInv, TypeOK, FinEffect, Step

(* The claim of a run.                                                      *)
LEMMA ClaimSteps ==
    ASSUME FinInv, NEW p \in Procs, ClaimRead(p) \/ ClaimClock(p) \/ ClaimWrite(p)
    PROVE  RowEffect /\ FinEffect /\ BeatEffect
<1>1. TypeOK
  BY DEF FinInv
<1>2. CASE ClaimRead(p)
  <2> DEFINE x == [pc |-> "claim", epoch |-> row.epoch, claim |-> 0, until |-> 0,
                   seen |-> row, tries |-> 0]
  <2>1. x \in Finalizing /\ x.seen = row /\ x.pc = "claim"
    BY <1>1, Parts DEF Finalizing
  <2>2. Step(p, x) /\ UNCHANGED <<now, row, beat, linked, faults>>
    BY <1>2 DEF ClaimRead
  <2> HIDE DEF x
  <2>3. FinEffect
    BY <2>1, <2>2, FinMove DEF Progress
  <2> QED
    BY <2>2, <2>3, RowSame, BeatSame
<1>3. CASE ClaimClock(p)
  <2>1. fin[p] # Idle /\ UNCHANGED <<now, row, beat, linked, faults>>
    BY <1>3 DEF ClaimClock, At
  <2>2. CASE Quit(p)
    BY <2>1, <2>2, FinQuit, RowSame, BeatSame
  <2>3. CASE ~ Quit(p)
    <3> DEFINE x == [fin[p] EXCEPT !.pc = "claiming", !.until = now + ClaimTtl]
    <3>1. fin[p].seen.pending /\ ~ Claimed(fin[p].seen) /\ Step(p, x)
      BY <1>3, <2>3 DEF ClaimClock
    <3>2. fin[p].seen \in Row /\ fin[p] \in Finalizing
      BY <1>1, <2>1, Parts
    <3>3. fin[p].seen.claim = 0 \/ fin[p].seen.expires <= now
      BY <1>1, <3>1, <3>2, Parts DEF Claimed, Row
    <3>4. x \in Finalizing /\ x.seen = fin[p].seen /\ x.pc = "claiming"
      BY <1>1, <3>2, Parts DEF Finalizing
    <3> HIDE DEF x
    <3>5. Progress(x, linked', now')
      BY <2>1, <3>1, <3>3, <3>4 DEF Progress
    <3>6. FinEffect
      BY <2>1, <3>1, <3>4, <3>5, FinMove
    <3> QED
      BY <2>1, <3>6, RowSame, BeatSame
  <2> QED
    BY <2>2, <2>3
<1>4. CASE ClaimWrite(p)
  <2>1. fin[p] # Idle /\ fin[p].pc = "claiming" /\ UNCHANGED <<now, beat, linked, faults>>
    BY <1>4 DEF ClaimWrite, At
  <2>2. fin[p] \in Finalizing /\ fin[p].until \in Nat
    BY <1>1, <2>1, Parts
  <2>3. CASE Unchanged(fin[p].seen)
    <3> DEFINE x == [fin[p] EXCEPT !.pc = "mark", !.claim = row.version + 1]
               r == [row EXCEPT !.claim = row.version + 1, !.expires = fin[p].until,
                                !.version = @ + 1]
    <3>1. Step(p, x) /\ row' = r
      BY <1>4, <2>3 DEF ClaimWrite
    <3>2. x \in Finalizing /\ x.seen = fin[p].seen /\ x.pc = "mark"
      BY <1>1, <2>2, Parts DEF Finalizing
    <3>3. r \in Row /\ r.version = row.version + 1 /\ r.pending = row.pending
          /\ r.epoch = row.epoch
      BY <1>1, <2>2, Parts DEF Row
    <3> HIDE DEF x, r
    <3>4. FinEffect
      BY <2>1, <3>1, <3>2, FinMove DEF Progress
    <3>5. RowEffect
      BY <1>1, <2>1, <3>1, <3>3, Parts DEF RowEffect, FinInv, ClearedMeansMarked
    <3> QED
      BY <2>1, <3>4, <3>5, BeatSame
  <2>4. CASE ~ Unchanged(fin[p].seen)
    <3>1. UNCHANGED <<now, row, beat, linked, faults>>
      BY <1>4, <2>1, <2>4 DEF ClaimWrite
    <3>2. CASE Again(fin[p]) = Idle
      BY <1>4, <2>4, <3>1, <3>2, FinQuit, RowSame, BeatSame DEF ClaimWrite
    <3>3. CASE Again(fin[p]) # Idle
      <4> DEFINE a == Again(fin[p])
                 x == [a EXCEPT !.pc = "claim"]
      <4>1. Step(p, x)
        BY <1>4, <2>4, <3>3 DEF ClaimWrite
      <4>2. a \in Finalizing /\ a.seen = row
        BY <1>1, <2>2, <3>3, AgainFin
      <4> HIDE DEF a
      <4>3. x \in Finalizing /\ x.seen = row /\ x.pc = "claim"
        BY <4>2 DEF Finalizing
      <4> HIDE DEF x
      <4>4. FinEffect
        BY <3>1, <4>1, <4>3, FinMove DEF Progress
      <4> QED
        BY <3>1, <4>4, RowSame, BeatSame
    <3> QED
      BY <3>2, <3>3
  <2> QED
    BY <2>3, <2>4
<1> QED
  BY <1>2, <1>3, <1>4

(* Marking the linked records, and failing to.                              *)
LEMMA MarkSteps ==
    ASSUME FinInv, NEW p \in Procs, MarkDone(p) \/ MarkFails(p)
    PROVE  RowEffect /\ FinEffect /\ BeatEffect
<1>1. TypeOK
  BY DEF FinInv
<1>2. CASE MarkDone(p)
  <2> DEFINE x == [fin[p] EXCEPT !.pc = "marked"]
  <2>1. fin[p] # Idle /\ fin[p] \in Finalizing /\ fin[p].epoch \in Nat
    BY <1>1, <1>2, Parts DEF MarkDone, At
  <2>2. /\ Step(p, x) /\ linked' = linked \cup {fin[p].epoch}
        /\ UNCHANGED <<now, row, beat, faults>>
    BY <1>2 DEF MarkDone
  <2>3. x \in Finalizing /\ x.seen = fin[p].seen /\ x.pc = "marked" /\ x.epoch = fin[p].epoch
    BY <2>1 DEF Finalizing
  <2> HIDE DEF x
  <2>4. FinEffect
    BY <2>1, <2>2, <2>3, FinMove DEF Progress
  <2>5. RowEffect
    BY <1>1, <2>1, <2>2, Parts DEF RowEffect, FinInv, ClearedMeansMarked
  <2> QED
    BY <2>2, <2>4, <2>5, BeatSame
<1>3. CASE MarkFails(p)
  <2>1. RowEffect
    BY <1>1, <1>3, Parts DEF MarkFails, RowEffect, FinInv, ClearedMeansMarked
  <2> QED
    BY <1>3, <2>1, FinQuit, BeatSame DEF MarkFails
<1> QED
  BY <1>2, <1>3

(* Abandoning a finalization ends it or leaves it alone.                    *)
LEMMA FinAbandon ==
    ASSUME FinInv, NEW p \in Procs, Abandon(p)
    PROVE  FinEffect
BY FinSame, FinQuit DEF Abandon, Quit

(* Renewing the claim.                                                      *)
LEMMA RenewSteps ==
    ASSUME FinInv, NEW p \in Procs, RenewRead(p) \/ RenewWrite(p)
    PROVE  RowEffect /\ FinEffect /\ BeatEffect
<1>1. TypeOK /\ beat \in [Procs -> Renewal \cup {Idle}]
  BY DEF FinInv, TypeOK
<1>2. CASE RenewRead(p)
  <2> DEFINE x == [claim |-> fin[p].claim, until |-> now + ClaimTtl,
                   seen |-> row, tries |-> 0]
  <2>1. fin[p] # Idle /\ fin[p] \in Finalizing
    BY <1>1, <1>2, Parts DEF RenewRead, At
  <2>2. x \in Renewal /\ x.seen = row
    BY <1>1, <2>1, Parts DEF Renewal, Finalizing
  <2>3. beat' = [beat EXCEPT ![p] = x] /\ UNCHANGED <<now, row, fin, linked, faults>>
    BY <1>2 DEF RenewRead
  <2> HIDE DEF x
  <2>4. BeatEffect
    BY <1>1, <2>2, <2>3 DEF BeatEffect
  <2> QED
    BY <2>3, <2>4, RowSame, FinSame
<1>3. CASE RenewWrite(p)
  <2>1. beat[p] # Idle /\ UNCHANGED <<now, linked, faults>>
    BY <1>3 DEF RenewWrite
  <2>2. beat[p] \in Renewal /\ beat[p].until \in Nat
    BY <1>1, <2>1, Parts
  <2>3. ASSUME beat' = [beat EXCEPT ![p] = Idle] PROVE BeatEffect
    BY <1>1, <2>3 DEF BeatEffect
  <2>4. CASE ~ Ours(beat[p])
    BY <1>3, <2>1, <2>3, <2>4, RowSame, FinAbandon DEF RenewWrite
  <2>5. CASE Ours(beat[p]) /\ Unchanged(beat[p].seen)
    <3> DEFINE r == [row EXCEPT !.expires = beat[p].until, !.version = @ + 1]
    <3>1. row' = r /\ beat' = [beat EXCEPT ![p] = Idle] /\ UNCHANGED fin
      BY <1>3, <2>5 DEF RenewWrite
    <3>2. r \in Row /\ r.version = row.version + 1 /\ r.pending = row.pending
          /\ r.epoch = row.epoch
      BY <1>1, <2>2, Parts DEF Row
    <3> HIDE DEF r
    <3>3. RowEffect
      BY <1>1, <2>1, <3>1, <3>2, Parts DEF RowEffect, FinInv, ClearedMeansMarked
    <3> QED
      BY <2>3, <3>1, <3>3, FinSame
  <2>6. CASE Ours(beat[p]) /\ ~ Unchanged(beat[p].seen)
    <3> DEFINE a == Again(beat[p])
    <3>1. /\ beat' = [beat EXCEPT ![p] = a] /\ UNCHANGED row
          /\ Abandon(p) \/ UNCHANGED fin
      BY <1>3, <2>6 DEF RenewWrite
    <3>2. a # Idle => a \in Renewal /\ a.seen = row
      BY <1>1, <2>2, AgainBeat
    <3> HIDE DEF a
    <3>3. BeatEffect
      BY <1>1, <3>1, <3>2 DEF BeatEffect
    <3> QED
      BY <2>1, <3>1, <3>3, RowSame, FinSame, FinAbandon
  <2> QED
    BY <2>4, <2>5, <2>6
<1> QED
  BY <1>2, <1>3

(* Clearing the marker.                                                     *)
LEMMA ClearSteps ==
    ASSUME FinInv, NEW p \in Procs, ClearRead(p) \/ ClearWrite(p)
    PROVE  RowEffect /\ FinEffect /\ BeatEffect
<1>1. TypeOK
  BY DEF FinInv
<1>2. fin[p] # Idle /\ fin[p] \in Finalizing /\ fin[p].epoch \in linked
  BY <1>1, Parts DEF ClearRead, ClearWrite, At, FinInv, AllProgress, Progress
<1>3. CASE ClearRead(p)
  <2> DEFINE x == [fin[p] EXCEPT !.pc = "clear", !.seen = row, !.tries = 0]
  <2>1. Step(p, x) /\ UNCHANGED <<now, row, beat, linked, faults>>
    BY <1>3 DEF ClearRead
  <2>2. x \in Finalizing /\ x.seen = row /\ x.pc = "clear" /\ x.epoch = fin[p].epoch
    BY <1>1, <1>2, Parts DEF Finalizing
  <2> HIDE DEF x
  <2>3. FinEffect
    BY <1>2, <2>1, <2>2, FinMove DEF Progress
  <2> QED
    BY <2>1, <2>3, RowSame, BeatSame
<1>4. CASE ClearWrite(p)
  <2>1. fin[p].pc = "clear" /\ UNCHANGED <<now, beat, linked, faults>>
    BY <1>4 DEF ClearWrite, At
  <2>2. CASE ~ StillOurs(fin[p])
    BY <1>4, <2>1, <2>2, FinQuit, RowSame, BeatSame DEF ClearWrite
  <2>3. CASE StillOurs(fin[p]) /\ Unchanged(fin[p].seen)
    <3> DEFINE r == [row EXCEPT !.pending = FALSE, !.claim = 0, !.expires = 0,
                                !.version = @ + 1]
    <3>1. row' = r /\ Quit(p)
      BY <1>4, <2>3 DEF ClearWrite
    <3>2. r \in Row /\ r.version = row.version + 1 /\ r.epoch = row.epoch
      BY <1>1, Parts DEF Row
    <3>3. row.epoch \in linked
      BY <1>2, <2>3, SeenIsRow DEF StillOurs
    <3> HIDE DEF r
    <3>4. RowEffect
      BY <1>1, <2>1, <3>1, <3>2, <3>3, Parts DEF RowEffect
    <3> QED
      BY <2>1, <3>1, <3>4, FinQuit, BeatSame
  <2>4. CASE StillOurs(fin[p]) /\ ~ Unchanged(fin[p].seen)
    <3> DEFINE a == Again(fin[p])
    <3>1. Step(p, a) /\ UNCHANGED row
      BY <1>4, <2>4 DEF ClearWrite
    <3>2. a # Idle => a \in Finalizing /\ a.seen = row /\ a.pc = "clear"
                      /\ a.epoch = fin[p].epoch
      BY <1>1, <1>2, <2>1, AgainFin
    <3> HIDE DEF a
    <3>3. CASE a = Idle
      BY <2>1, <3>1, <3>3, FinQuit, RowSame, BeatSame DEF Step, Quit
    <3>4. CASE a # Idle
      <4>1. FinEffect
        BY <1>2, <2>1, <3>1, <3>2, <3>4, FinMove DEF Progress
      <4> QED
        BY <2>1, <3>1, <4>1, RowSame, BeatSame
    <3> QED
      BY <3>3, <3>4
  <2> QED
    BY <2>2, <2>3, <2>4
<1> QED
  BY <1>3, <1>4

(* Crashes, other writers, the next failure and the clock.                  *)
LEMMA OtherSteps ==
    ASSUME FinInv,
           \/ \E p \in Procs : Crash(p)
           \/ FailAgain \/ OtherWrite \/ Tick \/ Stall \/ UNCHANGED vars
    PROVE  RowEffect /\ FinEffect /\ BeatEffect
<1>1. TypeOK /\ row \in Row
  BY DEF FinInv, TypeOK
<1>2. ASSUME NEW p \in Procs, Crash(p) PROVE RowEffect /\ FinEffect /\ BeatEffect
  <2>1. BeatEffect
    BY <1>2 DEF Crash, BeatEffect, FinInv, TypeOK
  <2>2. RowEffect
    BY <1>1, <1>2, Parts DEF Crash, RowEffect, FinInv, ClearedMeansMarked
  <2> QED
    BY <1>2, <2>1, <2>2, FinQuit DEF Crash, Quit
<1>3. CASE FailAgain
  <2> DEFINE r == [row EXCEPT !.epoch = @ + 1, !.pending = TRUE, !.version = @ + 1]
  <2>1. r \in Row /\ r.version = row.version + 1 /\ r.pending = TRUE
    <3>1. row.epoch + 1 \in Nat /\ row.version + 1 \in Nat
      BY <1>1, Parts
    <3>2. r \in Row
      BY <1>1, <3>1 DEF Row
    <3> QED
      BY <1>1, <3>2 DEF Row
  <2>2. row' = r /\ UNCHANGED <<now, fin, beat, linked, faults>>
    BY <1>3 DEF FailAgain
  <2> HIDE DEF r
  <2>3. RowEffect
    BY <1>1, <2>1, <2>2, Parts DEF RowEffect
  <2> QED
    BY <2>2, <2>3, FinSame, BeatSame
<1>4. CASE OtherWrite
  <2> DEFINE r == [row EXCEPT !.version = @ + 1]
  <2>1. r \in Row /\ r.version = row.version + 1 /\ r.pending = row.pending
        /\ r.epoch = row.epoch
    BY <1>1, Parts DEF Row
  <2>2. row' = r /\ faults' = faults + 1 /\ UNCHANGED <<now, fin, beat, linked>>
    BY <1>4 DEF OtherWrite
  <2> HIDE DEF r
  <2>3. RowEffect
    BY <1>1, <2>1, <2>2, Parts DEF RowEffect, FinInv, ClearedMeansMarked
  <2> QED
    BY <2>2, <2>3, FinSame, BeatSame
<1>5. CASE Tick \/ Stall
  <2>1. RowEffect
    BY <1>1, <1>5, Parts DEF Tick, Stall, RowEffect, FinInv, ClearedMeansMarked
  <2> QED
    BY <1>5, <2>1, FinSame, BeatSame DEF Tick, Stall
<1>6. CASE UNCHANGED vars
  BY <1>6, RowSame, FinSame, BeatSame DEF vars
<1> QED
  BY <1>2, <1>3, <1>4, <1>5, <1>6

(* Every step has these effects.                                            *)
LEMMA StepEffect ==
    ASSUME FinInv, [Next]_vars
    PROVE  RowEffect /\ FinEffect /\ BeatEffect
BY ClaimSteps, MarkSteps, RenewSteps, ClearSteps, OtherSteps DEF Next, Finalize

(* The invariant holds at the start.                                        *)
LEMMA InitInv == Init => FinInv
<1> SUFFICES ASSUME Init PROVE FinInv
  OBVIOUS
<1>1. TypeOK
  BY DEF Init, TypeOK, Row
<1>2. ReadsFaithful /\ AllProgress /\ ClearedMeansMarked
  BY DEF Init, ReadsFaithful, AllProgress, ClearedMeansMarked
<1> QED
  BY <1>1, <1>2 DEF FinInv

(* Every step preserves it.                                                 *)
LEMMA StepInv == FinInv /\ [Next]_vars => FinInv'
<1> SUFFICES ASSUME FinInv, [Next]_vars PROVE FinInv'
  OBVIOUS
<1>1. RowEffect /\ FinEffect /\ BeatEffect
  BY StepEffect
<1>2. TypeOK /\ ReadsFaithful /\ AllProgress
  BY DEF FinInv
<1>3. TypeOK'
  BY <1>1 DEF TypeOK, RowEffect, FinEffect, BeatEffect
<1>4. ClearedMeansMarked'
  BY <1>1 DEF RowEffect, ClearedMeansMarked
<1>5. ASSUME NEW seen \in Row, Faithful(seen) PROVE Faithful(seen)'
  <2>1. seen.version \in Nat /\ row.version \in Nat
    BY <1>2, Parts DEF Row
  <2>2. CASE row' = row
    BY <1>5, <2>2 DEF Faithful
  <2>3. CASE row'.version = row.version + 1
    BY <1>5, <2>1, <2>3 DEF Faithful
  <2> QED
    BY <1>1, <2>2, <2>3 DEF RowEffect
<1>6. ASSUME row' = row PROVE Faithful(row)'
  BY <1>2, <1>6, Parts DEF Faithful
<1>7. \A p \in Procs : /\ fin[p] # Idle => fin[p].seen \in Row
                       /\ beat[p] # Idle => beat[p].seen \in Row
  BY <1>2, Parts
<1>8. ReadsFaithful'
  <2>1. ASSUME NEW p \in Procs, fin'[p] # Idle PROVE Faithful(fin[p].seen)'
    BY <1>1, <1>2, <1>5, <1>6, <1>7, <2>1 DEF FinEffect, ReadsFaithful, Faithful
  <2>2. ASSUME NEW p \in Procs, beat'[p] # Idle PROVE Faithful(beat[p].seen)'
    BY <1>1, <1>2, <1>5, <1>6, <1>7, <2>2 DEF BeatEffect, ReadsFaithful, Faithful
  <2> QED
    BY <2>1, <2>2 DEF ReadsFaithful
<1>9. AllProgress'
  <2> SUFFICES ASSUME NEW p \in Procs, fin'[p] # Idle
               PROVE  Progress(fin'[p], linked', now')
    BY DEF AllProgress
  <2>1. CASE fin'[p] = fin[p]
    <3>1. Progress(fin[p], linked, now)
      BY <1>2, <2>1 DEF AllProgress
    <3>2. linked \subseteq linked' /\ now <= now' /\ now \in Nat /\ now' \in Nat
      BY <1>1, <1>2, Parts DEF RowEffect
    <3>3. fin[p].seen.expires \in Nat
      BY <1>7, <2>1 DEF Row
    <3> QED
      BY <2>1, <3>1, <3>2, <3>3 DEF Progress
  <2> QED
    BY <1>1, <2>1 DEF FinEffect
<1> QED
  BY <1>3, <1>4, <1>8, <1>9 DEF FinInv

(* The inductive invariant holds throughout.                                *)
THEOREM FinalizationInvariant == Spec => []FinInv
<1> QED
  BY InitInv, StepInv, PTL DEF Spec

(* Rows, claims and finalizers in flight stay well typed through every      *)
(* claim, takeover and clear.                                               *)
THEOREM FinalizationTypeCorrect == Spec => []TypeOK
<1>1. FinInv => TypeOK
  BY DEF FinInv
<1> QED
  BY <1>1, FinalizationInvariant, PTL

(* The marker of a failure is cleared only after its linked records have    *)
(* been marked, for any number of processes, takeovers and failures.        *)
THEOREM NoUnmarkedClear == Spec => []ClearedMeansMarked
<1>1. FinInv => ClearedMeansMarked
  BY DEF FinInv
<1> QED
  BY <1>1, FinalizationInvariant, PTL

(* No claim is taken over before it has expired.                            *)
THEOREM NoClaimStolen == Spec => LiveClaimKept
<1> DEFINE A == row.claim # 0 /\ row'.claim # row.claim /\ row'.claim # 0
                => row.expires <= now
<1>1. FinInv /\ [Next]_vars => [A]_vars
  <2> SUFFICES ASSUME FinInv, Next PROVE A
    OBVIOUS
  <2>1. TypeOK /\ row \in Row
    BY DEF FinInv, TypeOK
  <2>2. ASSUME NEW p \in Procs, ClaimWrite(p) PROVE A
    <3>1. CASE Unchanged(fin[p].seen)
      <4>1. fin[p] # Idle /\ fin[p].pc = "claiming" /\ fin[p].seen = row
        BY <2>2, <3>1, SeenIsRow DEF ClaimWrite, At
      <4> QED
        BY <4>1 DEF FinInv, AllProgress, Progress
    <3>2. CASE ~ Unchanged(fin[p].seen)
      BY <2>2, <3>2 DEF ClaimWrite
    <3> QED
      BY <3>1, <3>2
  <2>3. ASSUME row'.claim \in {0, row.claim} PROVE A
    BY <2>3
  <2>4. ASSUME NEW p \in Procs, RenewWrite(p) \/ ClearWrite(p)
        PROVE  row'.claim \in {0, row.claim}
    BY <2>1, <2>4 DEF RenewWrite, ClearWrite, Row
  <2>5. CASE FailAgain \/ OtherWrite
    BY <2>1, <2>5 DEF FailAgain, OtherWrite, Row
  <2>6. CASE Tick \/ Stall \/ \E p \in Procs : Crash(p)
    BY <2>6 DEF Tick, Stall, Crash
  <2>7. ASSUME NEW p \in Procs,
               \/ ClaimRead(p) \/ ClaimClock(p) \/ MarkDone(p) \/ MarkFails(p)
               \/ RenewRead(p) \/ ClearRead(p)
        PROVE  A
    BY <2>7 DEF ClaimRead, ClaimClock, MarkDone, MarkFails, RenewRead, ClearRead
  <2> QED
    BY <2>2, <2>3, <2>4, <2>5, <2>6, <2>7 DEF Next, Finalize
<1> QED
  BY <1>1, FinalizationInvariant, PTL DEF Spec, LiveClaimKept

(* Only the process whose claim stands on the row clears the marker.        *)
THEOREM OnlyClaimantClears == Spec => ClaimantClears
<1> DEFINE A == row.pending /\ ~ row'.pending
                => \E p \in Procs : At(p, "clear") /\ fin[p].claim = row.claim
                                      /\ fin'[p] = Idle
<1>1. FinInv /\ [Next]_vars => [A]_vars
  <2> SUFFICES ASSUME FinInv, Next PROVE A
    OBVIOUS
  <2>1. TypeOK /\ row \in Row /\ fin \in [Procs -> Finalizing \cup {Idle}]
    BY DEF FinInv, TypeOK
  <2>2. ASSUME NEW p \in Procs, ClearWrite(p) PROVE A
    <3>1. CASE StillOurs(fin[p]) /\ Unchanged(fin[p].seen)
      <4>1. fin[p] # Idle /\ fin[p].seen = row /\ At(p, "clear")
        BY <2>2, <3>1, SeenIsRow DEF ClearWrite, At
      <4>2. Quit(p)
        BY <2>2, <3>1 DEF ClearWrite
      <4>3. fin[p].claim = row.claim /\ fin'[p] = Idle
        BY <2>1, <3>1, <4>1, <4>2 DEF StillOurs, Quit
      <4> QED
        BY <4>1, <4>3
    <3>2. CASE ~ (StillOurs(fin[p]) /\ Unchanged(fin[p].seen))
      BY <2>2, <3>2 DEF ClearWrite
    <3> QED
      BY <3>1, <3>2
  <2>3. ASSUME row'.pending = row.pending \/ row'.pending PROVE A
    BY <2>3
  <2>4. ASSUME NEW p \in Procs, ClaimWrite(p) \/ RenewWrite(p)
        PROVE  row'.pending = row.pending
    BY <2>1, <2>4 DEF ClaimWrite, RenewWrite, Row
  <2>5. CASE FailAgain \/ OtherWrite
    BY <2>1, <2>5 DEF FailAgain, OtherWrite, Row
  <2>6. CASE Tick \/ Stall \/ \E p \in Procs : Crash(p)
    BY <2>6 DEF Tick, Stall, Crash
  <2>7. ASSUME NEW p \in Procs,
               \/ ClaimRead(p) \/ ClaimClock(p) \/ MarkDone(p) \/ MarkFails(p)
               \/ RenewRead(p) \/ ClearRead(p)
        PROVE  A
    BY <2>7 DEF ClaimRead, ClaimClock, MarkDone, MarkFails, RenewRead, ClearRead
  <2> QED
    BY <2>2, <2>3, <2>4, <2>5, <2>6, <2>7 DEF Next, Finalize
<1> QED
  BY <1>1, FinalizationInvariant, PTL DEF Spec, ClaimantClears
=============================================================================
