-------------------------- MODULE DurableRunProofs --------------------------
(****************************************************************************)
(* Proofs about DurableRun for any number of processes, executions, calls   *)
(* and attempts.  Two facts carry them: a version names one state of the    *)
(* row, so a version-checked update acts on what its caller read, and a     *)
(* lease owner id is never issued twice.                                    *)
(****************************************************************************)
EXTENDS DurableRun, TLAPS

-----------------------------------------------------------------------------
(* What a call or a recovery pass read met the conditions of its kind.      *)
CallDecided(x) ==
    /\ x.kind = "pause" => x.seen.status \in {"queued", "running", "waiting"}
    /\ x.kind = "resume" => x.seen.status = "paused"
    /\ x.kind = "wake" => x.seen.status = "waiting"
    /\ x.kind = "retry" =>
          x.seen.status = "failed" /\ ~ x.seen.pending /\ ~ x.seen.chat
    /\ x.kind = "recover" => x.seen.status = "dead_lettered" /\ x.seen.attempt < Ceiling

PassDecided(x) == x.kind = "sweep" => x.seen.status = "waiting"

ReadsDecided ==
    /\ \A c \in Calls : call[c] # Idle => CallDecided(call[c])
    /\ \A p \in Procs : loop[p] # Idle => PassDecided(loop[p])

(* No owner id is ahead of the version, and no two executions share one.    *)
OwnersUnique ==
    /\ run.owner # NoOwner => run.owner[2] <= run.version
    /\ \A e \in Execs : exec[e] # Idle => exec[e].owner[2] <= run.version
    /\ \A e, f \in Execs :
          exec[e] # Idle /\ exec[f] # Idle /\ exec[e].owner = exec[f].owner => e = f

(* Only a Chat run waits for its dead letter as a failed run.               *)
OnlyChatWaits == run.exhausted => run.chat

(* The inductive invariant.                                                 *)
RunInv ==
    /\ TypeOK
    /\ VersionNamesRow
    /\ ReadsDecided
    /\ OwnersUnique
    /\ RowConsistent
    /\ DeadLetterMatches
    /\ AttemptCeiling
    /\ OnlyChatWaits

-----------------------------------------------------------------------------
(* Rows written by transitions are rows, and what they contain.             *)

(* A transition installs its status, clears the lease and moves the version. *)
LEMMA MovedRow ==
    ASSUME NEW row \in RunRow, NEW s \in Statuses
    PROVE  /\ Moved(row, s) \in RunRow
           /\ Moved(row, s).status = s
           /\ Moved(row, s).owner = NoOwner
           /\ Moved(row, s).expires = 0
           /\ Moved(row, s).version = row.version + 1
           /\ Moved(row, s).attempt = row.attempt
           /\ Moved(row, s).max = row.max
           /\ Moved(row, s).wait = row.wait
           /\ Moved(row, s).chat = row.chat
           /\ Moved(row, s).pending = row.pending
           /\ Moved(row, s).exhausted = row.exhausted
<1>1. row.version + 1 \in Nat
  BY DEF RunRow
<1>2. Moved(row, s) \in RunRow
  BY <1>1 DEF Moved, RunRow
<1> QED
  BY <1>2 DEF Moved, RunRow

(* A row with another attempt, budget, wake registration or pending flag.   *)
LEMMA RowFields ==
    ASSUME NEW row \in RunRow, NEW n \in Nat, NEW w \in Events \cup {NoWait},
           NEW b \in BOOLEAN
    PROVE  /\ [row EXCEPT !.attempt = n] \in RunRow
           /\ [row EXCEPT !.max = n] \in RunRow
           /\ [row EXCEPT !.wait = w] \in RunRow
           /\ [row EXCEPT !.pending = b] \in RunRow
           /\ [row EXCEPT !.version = n] \in RunRow
BY DEF RunRow

(* A fresh owner id is an owner id of that process.                         *)
LEMMA FreshOwnerType ==
    ASSUME TypeOK, NEW p \in Procs
    PROVE  /\ FreshOwner(p) \in Owners
           /\ FreshOwner(p)[1] = p
           /\ FreshOwner(p)[2] = run.version + 1
BY DEF TypeOK, FreshOwner, Owners, RunRow

(* A renewal keeps the row a row.                                           *)
LEMMA RenewedRow ==
    ASSUME TypeOK
    PROVE  /\ Renewed \in RunRow
           /\ Renewed.status = run.status
           /\ Renewed.owner = run.owner
           /\ Renewed.version = run.version + 1
           /\ Renewed.attempt = run.attempt
           /\ Renewed.max = run.max
           /\ Renewed.wait = run.wait
           /\ Renewed.chat = run.chat
           /\ Renewed.pending = run.pending
           /\ Renewed.exhausted = run.exhausted
<1>1. /\ run \in RunRow
      /\ now + LeaseTtl \in Nat
      /\ run.version + 1 \in Nat
  BY DurableAssumption DEF TypeOK, RunRow
<1>2. Renewed \in RunRow
  BY <1>1 DEF Renewed, RunRow
<1> QED
  BY <1>1, <1>2 DEF Renewed, RunRow

-----------------------------------------------------------------------------
(* The part of the invariant that concerns one row r and its dead letter d. *)
RowOK(r, d) ==
    /\ r \in RunRow
    /\ d \in {"none", "open", "resolved"}
    /\ r.status = "running" <=> r.owner # NoOwner
    /\ r.pending \/ r.exhausted => r.status = "failed"
    /\ r.exhausted => r.chat
    /\ r.status = "waiting" => r.wait # NoWait
    /\ r.status = "dead_lettered" => d = "open"
    /\ d = "open" => r.status = "dead_lettered" \/ r.exhausted
    /\ r.max <= Ceiling
    /\ r.attempt <= Ceiling + 1
    /\ r.status # "dead_lettered" /\ ~ r.exhausted => r.attempt <= Ceiling

(* The invariant contains it for the row of the run.                        *)
LEMMA RowOKEquiv ==
    (RowOK(run, deadLetter) <=>
        /\ run \in RunRow
        /\ deadLetter \in {"none", "open", "resolved"}
        /\ RowConsistent
        /\ DeadLetterMatches
        /\ AttemptCeiling
        /\ OnlyChatWaits)
BY DEF RowOK, RowConsistent, DeadLetterMatches, AttemptCeiling, OnlyChatWaits

(* Leaving an open status for one that keeps no lease keeps the row sound.  *)
LEMMA MoveOpen ==
    ASSUME NEW r, NEW d, RowOK(r, d),
           r.status \in {"queued", "running", "waiting", "paused"},
           NEW s \in {"queued", "paused", "cancelled", "completed", "failed"}
    PROVE  RowOK(Moved(r, s), d)
<1>1. r \in RunRow /\ s \in Statuses
  BY DEF RowOK, Statuses, Terminal
<1> QED
  BY <1>1, MovedRow DEF RowOK

(* So does requeueing without a wake registration.                          *)
LEMMA RequeueOpen ==
    ASSUME NEW r, NEW d, RowOK(r, d), r.status \in {"waiting", "paused"}
    PROVE  RowOK(Requeued(r), d) /\ Requeued(r).version = r.version + 1
                                /\ Requeued(r).status = "queued"
                                /\ Requeued(r).owner = NoOwner
<1> DEFINE m == Moved(r, "queued")
<1>1. r \in RunRow /\ "queued" \in Statuses
  BY DEF RowOK, Statuses
<1>2. RowOK(m, d)
  BY MoveOpen
<1>3. m.status = "queued" /\ m.owner = NoOwner /\ m.version = r.version + 1
  BY <1>1, MovedRow
<1>4. m \in RunRow
  BY <1>2 DEF RowOK
<1>5. Requeued(r) = [m EXCEPT !.wait = NoWait]
  BY DEF Requeued
<1> HIDE DEF m
<1>6. [m EXCEPT !.wait = NoWait] \in RunRow
  BY <1>4 DEF RunRow
<1> QED
  BY <1>2, <1>3, <1>4, <1>5, <1>6 DEF RowOK, RunRow

(* Parking a running run for event k.                                       *)
LEMMA ParkRunning ==
    ASSUME NEW r, NEW d, RowOK(r, d), r.status = "running", NEW k \in Events
    PROVE  LET w == [Moved(r, "waiting") EXCEPT !.wait = k]
           IN  RowOK(w, d) /\ w.version = r.version + 1 /\ w.status = "waiting"
                           /\ w.owner = NoOwner
<1> DEFINE m == Moved(r, "waiting")
<1>1. r \in RunRow /\ "waiting" \in Statuses
  BY DEF RowOK, Statuses
<1>2. m \in RunRow /\ m.status = "waiting" /\ m.owner = NoOwner
      /\ m.version = r.version + 1 /\ m.attempt = r.attempt /\ m.max = r.max
      /\ m.pending = r.pending /\ m.exhausted = r.exhausted
  BY <1>1, MovedRow
<1> HIDE DEF m
<1>3. [m EXCEPT !.wait = k] \in RunRow
  BY <1>2 DEF RunRow
<1>4. k # NoWait
  BY DurableAssumption
<1>5. RowOK([m EXCEPT !.wait = k], d)
  BY <1>2, <1>3, <1>4 DEF RowOK, RunRow
<1>6. [m EXCEPT !.wait = k].version = r.version + 1
      /\ [m EXCEPT !.wait = k].status = "waiting"
      /\ [m EXCEPT !.wait = k].owner = NoOwner
  BY <1>2 DEF RunRow
<1> QED
  BY <1>5, <1>6 DEF m

(* Failing a running run; b: its linked state is to be finalized.           *)
LEMMA FailRow ==
    ASSUME NEW r, NEW d, RowOK(r, d), r.status = "running", NEW b \in BOOLEAN
    PROVE  LET w == [Moved(r, "failed") EXCEPT !.pending = b]
           IN  RowOK(w, d) /\ w.version = r.version + 1 /\ w.status = "failed"
                           /\ w.owner = NoOwner
<1> DEFINE m == Moved(r, "failed")
<1>1. r \in RunRow /\ "failed" \in Statuses
  BY DEF RowOK, Statuses, Terminal
<1>2. m \in RunRow /\ m.status = "failed" /\ m.owner = NoOwner
      /\ m.version = r.version + 1 /\ m.attempt = r.attempt /\ m.max = r.max
      /\ m.exhausted = r.exhausted
  BY <1>1, MovedRow
<1> HIDE DEF m
<1>3. [m EXCEPT !.pending = b] \in RunRow
  BY <1>2 DEF RunRow
<1>5. RowOK([m EXCEPT !.pending = b], d)
  BY <1>2, <1>3 DEF RowOK, RunRow
<1>6. [m EXCEPT !.pending = b].version = r.version + 1
      /\ [m EXCEPT !.pending = b].status = "failed"
      /\ [m EXCEPT !.pending = b].owner = NoOwner
  BY <1>2 DEF RunRow
<1> QED
  BY <1>5, <1>6 DEF m

(* A Chat run whose attempts are used up fails and waits for its letter.    *)
LEMMA ExhaustChat ==
    ASSUME NEW r, NEW d, RowOK(r, d), r.status = "running", r.chat
    PROVE  /\ RowOK(Exhausted(r), d)
           /\ Exhausted(r).version = r.version + 1
           /\ Exhausted(r).status = "failed"
           /\ Exhausted(r).owner = NoOwner
<1> DEFINE m == Moved(r, "failed")
           w == [m EXCEPT !.pending = TRUE, !.attempt = @ + 1, !.exhausted = TRUE]
<1>1. r \in RunRow /\ "failed" \in Statuses
  BY DEF RowOK, Statuses, Terminal
<1>2. m \in RunRow /\ m.status = "failed" /\ m.owner = NoOwner
      /\ m.version = r.version + 1 /\ m.attempt = r.attempt /\ m.max = r.max
      /\ m.chat = r.chat
  BY <1>1, MovedRow
<1>3. r.attempt \in Nat /\ Ceiling \in Nat /\ r.attempt + 1 \in Nat
      /\ r.attempt <= Ceiling /\ r.attempt + 1 <= Ceiling + 1
  BY <1>1, DurableAssumption DEF RunRow, RowOK
<1>4. Exhausted(r) = w
  BY <1>1, <1>2 DEF Exhausted, Failed, RunRow
<1> HIDE DEF m
<1>5. w \in RunRow /\ w.status = "failed" /\ w.owner = NoOwner
      /\ w.version = r.version + 1 /\ w.attempt = r.attempt + 1 /\ w.max = r.max
      /\ w.chat = r.chat /\ w.exhausted
  BY <1>2, <1>3 DEF RunRow
<1> HIDE DEF w
<1>6. RowOK(w, d)
  BY <1>3, <1>5 DEF RowOK
<1> QED
  BY <1>4, <1>5, <1>6

(* Once it is finalized it gets its dead letter.                            *)
LEMMA ProjectRow ==
    ASSUME NEW r, NEW d, RowOK(r, d), r.status = "failed", ~ r.pending
    PROVE  LET w == [Moved(r, "dead_lettered") EXCEPT !.exhausted = FALSE]
           IN  /\ RowOK(w, "open")
               /\ w.version = r.version + 1 /\ w.status = "dead_lettered"
               /\ w.owner = NoOwner
<1> DEFINE m == Moved(r, "dead_lettered")
           w == [m EXCEPT !.exhausted = FALSE]
<1>1. r \in RunRow /\ "dead_lettered" \in Statuses
  BY DEF RowOK, Statuses, Terminal
<1>2. m \in RunRow /\ m.status = "dead_lettered" /\ m.owner = NoOwner
      /\ m.version = r.version + 1 /\ m.attempt = r.attempt /\ m.max = r.max
      /\ m.pending = r.pending
  BY <1>1, MovedRow
<1> HIDE DEF m
<1>3. w \in RunRow /\ w.status = "dead_lettered" /\ w.owner = NoOwner
      /\ w.version = r.version + 1 /\ w.attempt = r.attempt /\ w.max = r.max
      /\ w.pending = r.pending /\ ~ w.exhausted
  BY <1>2 DEF RunRow
<1> HIDE DEF w
<1>4. RowOK(w, "open")
  BY <1>3 DEF RowOK
<1> QED
  BY <1>3, <1>4 DEF w, m

(* A retry of a running or failed run, and what its two outcomes are.       *)
LEMMA RetryRow ==
    ASSUME NEW r, NEW d, RowOK(r, d), r.status \in {"running", "failed"},
           ~ r.pending, ~ r.exhausted
    PROVE  LET q == [Moved(r, "queued") EXCEPT !.attempt = @ + 1]
               x == [Moved(r, "dead_lettered") EXCEPT !.attempt = @ + 1]
           IN  /\ r.attempt + 1 <= r.max => RowOK(q, d)
               /\ RowOK(x, "open")
               /\ q.version = r.version + 1 /\ x.version = r.version + 1
               /\ q.status = "queued" /\ x.status = "dead_lettered"
               /\ q.owner = NoOwner /\ x.owner = NoOwner
<1> DEFINE m == Moved(r, "queued")
           n == Moved(r, "dead_lettered")
<1>1. r \in RunRow /\ "queued" \in Statuses /\ "dead_lettered" \in Statuses
  BY DEF RowOK, Statuses, Terminal
<1>2. m \in RunRow /\ m.status = "queued" /\ m.owner = NoOwner
      /\ m.version = r.version + 1 /\ m.attempt = r.attempt /\ m.max = r.max
      /\ m.pending = r.pending /\ m.exhausted = r.exhausted
  BY <1>1, MovedRow
<1>3. n \in RunRow /\ n.status = "dead_lettered" /\ n.owner = NoOwner
      /\ n.version = r.version + 1 /\ n.attempt = r.attempt /\ n.max = r.max
      /\ n.pending = r.pending /\ n.exhausted = r.exhausted
  BY <1>1, MovedRow
<1> HIDE DEF m, n
<1>4. /\ r.attempt \in Nat /\ r.max \in Nat /\ Ceiling \in Nat
      /\ r.attempt + 1 \in Nat
  BY <1>1, DurableAssumption DEF RunRow
<1>5. r.attempt <= Ceiling /\ r.max <= Ceiling /\ d # "open" /\ d \in {"none", "resolved"}
  BY DEF RowOK
<1>6. r.attempt + 1 <= Ceiling + 1 /\ (r.attempt + 1 <= r.max => r.attempt + 1 <= Ceiling)
  BY <1>4, <1>5
<1>7. [m EXCEPT !.attempt = @ + 1] \in RunRow
      /\ [m EXCEPT !.attempt = @ + 1].attempt = r.attempt + 1
      /\ [m EXCEPT !.attempt = @ + 1].max = r.max
      /\ [m EXCEPT !.attempt = @ + 1].version = r.version + 1
      /\ [m EXCEPT !.attempt = @ + 1].status = "queued"
      /\ [m EXCEPT !.attempt = @ + 1].owner = NoOwner
      /\ [m EXCEPT !.attempt = @ + 1].pending = r.pending
      /\ [m EXCEPT !.attempt = @ + 1].exhausted = r.exhausted
  BY <1>2, <1>4 DEF RunRow
<1>8. [n EXCEPT !.attempt = @ + 1] \in RunRow
      /\ [n EXCEPT !.attempt = @ + 1].attempt = r.attempt + 1
      /\ [n EXCEPT !.attempt = @ + 1].max = r.max
      /\ [n EXCEPT !.attempt = @ + 1].version = r.version + 1
      /\ [n EXCEPT !.attempt = @ + 1].status = "dead_lettered"
      /\ [n EXCEPT !.attempt = @ + 1].owner = NoOwner
      /\ [n EXCEPT !.attempt = @ + 1].pending = r.pending
      /\ [n EXCEPT !.attempt = @ + 1].exhausted = r.exhausted
  BY <1>3, <1>4 DEF RunRow
<1>9. r.attempt + 1 <= r.max => RowOK([m EXCEPT !.attempt = @ + 1], d)
  BY <1>5, <1>6, <1>7 DEF RowOK
<1>10. RowOK([n EXCEPT !.attempt = @ + 1], "open")
  BY <1>5, <1>6, <1>8 DEF RowOK
<1> QED
  BY <1>7, <1>8, <1>9, <1>10 DEF m, n

(* Recovering a dead-lettered run below the ceiling.                        *)
LEMMA RecoverRow ==
    ASSUME NEW r, RowOK(r, "open"), r.status = "dead_lettered",
           r.attempt < Ceiling, NEW k \in Nat
    PROVE  LET q == [Moved(r, "queued") EXCEPT !.max = RaisedMax(r, k)]
           IN  /\ RowOK(q, "resolved")
               /\ q.version = r.version + 1 /\ q.status = "queued"
               /\ q.owner = NoOwner
<1> DEFINE m == Moved(r, "queued")
           x == RaisedMax(r, k)
<1>1. r \in RunRow /\ "queued" \in Statuses /\ r.status = "dead_lettered"
  BY DEF RowOK, Statuses
<1>2. m \in RunRow /\ m.status = "queued" /\ m.owner = NoOwner
      /\ m.version = r.version + 1 /\ m.attempt = r.attempt
      /\ m.pending = r.pending /\ m.exhausted = r.exhausted
  BY <1>1, MovedRow
<1>3. r.attempt \in Nat /\ r.max \in Nat /\ Ceiling \in Nat /\ r.max <= Ceiling
  BY <1>1, DurableAssumption DEF RunRow, RowOK
<1>4. x \in Nat /\ x <= Ceiling
  BY <1>3 DEF RaisedMax, Larger, Smaller
<1> HIDE DEF m, x
<1>5. [m EXCEPT !.max = x] \in RunRow
      /\ [m EXCEPT !.max = x].attempt = r.attempt
      /\ [m EXCEPT !.max = x].max = x
      /\ [m EXCEPT !.max = x].version = r.version + 1
      /\ [m EXCEPT !.max = x].status = "queued"
      /\ [m EXCEPT !.max = x].owner = NoOwner
      /\ [m EXCEPT !.max = x].pending = r.pending
      /\ [m EXCEPT !.max = x].exhausted = r.exhausted
  BY <1>2, <1>4 DEF RunRow
<1>6. r.attempt <= Ceiling /\ r.attempt <= Ceiling + 1 /\ ~ r.pending /\ ~ r.exhausted
  BY <1>1, <1>3 DEF RowOK
<1>7. RowOK([m EXCEPT !.max = x], "resolved")
  BY <1>4, <1>5, <1>6 DEF RowOK
<1> QED
  BY <1>5, <1>7 DEF m, x

(* Renewing, revoking and claiming keep the row sound.                      *)
LEMMA LeaseRows ==
    ASSUME TypeOK, RowOK(run, deadLetter)
    PROVE  /\ RowOK(Renewed, deadLetter)
           /\ \A o \in Owners : RowOK(Revoked(o), deadLetter)
           /\ \A o \in Owners : \/ Revoked(o) = run
                               \/ /\ Revoked(o).version = run.version + 1
                                  /\ Revoked(o).status = run.status
                                  /\ Revoked(o).owner = FreshOwner(o[1])
<1>1. RowOK(Renewed, deadLetter)
  BY RenewedRow DEF RowOK
<1>2. ASSUME NEW o \in Owners
      PROVE  /\ RowOK(Revoked(o), deadLetter)
             /\ \/ Revoked(o) = run
                \/ /\ Revoked(o).version = run.version + 1
                   /\ Revoked(o).status = run.status
                   /\ Revoked(o).owner = FreshOwner(o[1])
  <2>1. CASE ~ (run.status = "running" /\ run.owner = o)
    BY <2>1 DEF Revoked
  <2>2. CASE run.status = "running" /\ run.owner = o
    <3> DEFINE f == FreshOwner(o[1])
               w == [run EXCEPT !.owner = f, !.version = @ + 1]
    <3>1. f \in Owners /\ f # NoOwner
      BY FreshOwnerType, DurableAssumption DEF Owners
    <3>2. run \in RunRow /\ run.version + 1 \in Nat
      BY DEF TypeOK, RunRow
    <3>3. Revoked(o) = w
      BY <2>2 DEF Revoked
    <3> HIDE DEF f
    <3>4. w \in RunRow
      BY <3>1, <3>2 DEF RunRow
    <3>5. w.status = run.status /\ w.owner = f /\ w.version = run.version + 1
          /\ w.attempt = run.attempt /\ w.max = run.max /\ w.wait = run.wait
          /\ w.chat = run.chat /\ w.pending = run.pending
          /\ w.exhausted = run.exhausted
      BY <3>2 DEF RunRow
    <3> HIDE DEF w
    <3>6. RowOK(w, deadLetter)
      BY <2>2, <3>1, <3>4, <3>5 DEF RowOK
    <3> QED
      BY <3>3, <3>5, <3>6 DEF f
  <2> QED
    BY <2>1, <2>2
<1> QED
  BY <1>1, <1>2

(* A claim of a queued run keeps the row sound.                             *)
LEMMA ClaimRow ==
    ASSUME TypeOK, RowOK(run, deadLetter), run.status = "queued", NEW p \in Procs
    PROVE  LET w == [run EXCEPT !.status = "running", !.owner = FreshOwner(p),
                                !.expires = now + LeaseTtl, !.version = @ + 1]
           IN  /\ RowOK(w, deadLetter)
               /\ w.version = run.version + 1 /\ w.status = "running"
               /\ w.owner = FreshOwner(p)
<1> DEFINE f == FreshOwner(p)
           w == [run EXCEPT !.status = "running", !.owner = f,
                            !.expires = now + LeaseTtl, !.version = @ + 1]
<1>1. f \in Owners /\ f # NoOwner
  BY FreshOwnerType, DurableAssumption
<1>2. /\ run \in RunRow /\ run.version + 1 \in Nat
      /\ now + LeaseTtl \in Nat /\ "running" \in Statuses
  BY DurableAssumption DEF TypeOK, RunRow, Statuses
<1> HIDE DEF f
<1>3. w \in RunRow
  BY <1>1, <1>2 DEF RunRow
<1>4. w.status = "running" /\ w.owner = f /\ w.version = run.version + 1
      /\ w.attempt = run.attempt /\ w.max = run.max /\ w.wait = run.wait
      /\ w.chat = run.chat /\ w.pending = run.pending /\ w.exhausted = run.exhausted
  BY <1>2 DEF RunRow
<1> HIDE DEF w
<1>5. RowOK(w, deadLetter)
  BY <1>1, <1>3, <1>4 DEF RowOK
<1> QED
  BY <1>4, <1>5 DEF f, w

-----------------------------------------------------------------------------
(* What any step does to the row: it keeps it sound, changes it under a new *)
(* version, follows the status diagram, and installs no owner id but a      *)
(* fresh one.                                                               *)
RowEffect ==
    /\ RowOK(run', deadLetter')
    /\ run' = run \/ run'.version = run.version + 1
    /\ run'.status = run.status \/ Lifecycle!Next
    /\ \/ run'.owner \in {NoOwner, run.owner}
       \/ \E p \in Procs : run'.owner = FreshOwner(p)

(* An execution slot in use holds an execution.                             *)
LEMMA ExecType ==
    ASSUME TypeOK, NEW e \in Execs, exec[e] # Idle
    PROVE  exec[e] \in Execution /\ exec[e].owner \in Owners /\ exec[e].proc \in Procs
<1>1. exec[e] \in Execution
  BY DEF TypeOK
<1> QED
  BY <1>1 DEF Execution

(* A version check that succeeds finds the row the caller read.             *)
LEMMA SeenByCall ==
    ASSUME RunInv, NEW c \in Calls, call[c] # Idle
    PROVE  /\ call[c] \in OperatorCall
           /\ call[c].seen \in RunRow
           /\ Unchanged(call[c].seen) => call[c].seen = run
<1>1. call[c] \in OperatorCall
  BY DEF RunInv, TypeOK
<1> QED
  BY <1>1 DEF RunInv, VersionNamesRow, Faithful, Unchanged, OperatorCall

(* The same for the row a recovery pass observed.                           *)
LEMMA SeenByLoop ==
    ASSUME RunInv, NEW p \in Procs, loop[p] # Idle
    PROVE  /\ loop[p] \in RecoveryPass
           /\ loop[p].seen \in RunRow
           /\ Unchanged(loop[p].seen) => loop[p].seen = run
<1>1. loop[p] \in RecoveryPass
  BY DEF RunInv, TypeOK
<1> QED
  BY <1>1 DEF RunInv, VersionNamesRow, Faithful, Unchanged, RecoveryPass

(* A step that leaves the row and the dead letter alone.                    *)
LEMMA SameRow ==
    ASSUME RunInv, run' = run, deadLetter' = deadLetter
    PROVE  RowEffect
BY RowOKEquiv DEF RunInv, TypeOK, RowEffect

(* A step that moves the row out of an open status.                         *)
LEMMA MoveStep ==
    ASSUME RunInv, deadLetter' = deadLetter,
           NEW s \in {"queued", "paused", "cancelled", "completed", "failed"},
           run.status \in {"queued", "running", "waiting", "paused"},
           s = "queued" => run.status # "queued",
           s \in {"completed", "failed"} => run.status = "running",
           s = "paused" => run.status # "paused",
           run' = Moved(run, s)
    PROVE  RowEffect
<1>1. RowOK(run, deadLetter) /\ run \in RunRow /\ s \in Statuses
  BY RowOKEquiv DEF RunInv, TypeOK, Statuses, Terminal
<1>2. RowOK(run', deadLetter')
  BY <1>1, MoveOpen
<1>3. run'.status = s /\ run'.owner = NoOwner /\ run'.version = run.version + 1
  BY <1>1, MovedRow
<1>4. Lifecycle!Next
  BY <1>3 DEF Lifecycle!Next, Lifecycle!Claim, Lifecycle!Requeue, Lifecycle!Park,
     Lifecycle!Wake, Lifecycle!Finish, Lifecycle!Pause, Lifecycle!Resume,
     Lifecycle!Cancel, Lifecycle!Held
<1> QED
  BY <1>2, <1>3, <1>4 DEF RowEffect

(* A step that fails a running run.                                         *)
LEMMA FailStep ==
    ASSUME RunInv, deadLetter' = deadLetter, run.status = "running", run' = Failed(run)
    PROVE  RowEffect
<1>1. RowOK(run, deadLetter) /\ run.chat \in BOOLEAN
  BY RowOKEquiv DEF RunInv, TypeOK, RunRow
<1> QED
  BY <1>1, FailRow DEF Failed, RowEffect, Lifecycle!Next, Lifecycle!Finish

(* The steps of an execution.                                               *)
LEMMA ExecuteRow ==
    ASSUME RunInv, NEW e \in Execs, Execute(e)
    PROVE  RowEffect
<1> USE DEF HoldsLease, At
<1>1. TypeOK /\ RowOK(run, deadLetter) /\ run \in RunRow
  BY RowOKEquiv DEF RunInv, TypeOK
<1>2. ASSUME NEW p \in Procs, Claim(e, p) PROVE RowEffect
  BY <1>1, <1>2, ClaimRow DEF Claim, RowEffect, Lifecycle!Next, Lifecycle!Claim
<1>3. ASSUME NEW t \in {"paused", "cancelled"}, ContinuationGate(e, t) PROVE RowEffect
  BY <1>3, SameRow, MoveStep DEF ContinuationGate
<1>4. ASSUME run' = Renewed, deadLetter' = deadLetter PROVE RowEffect
  BY <1>1, <1>4, LeaseRows, RenewedRow DEF RowEffect
<1>5. CASE Begin(e)
  BY <1>4, <1>5, SameRow DEF Begin
<1>6. CASE Heartbeat(e)
  BY <1>4, <1>6, SameRow DEF Heartbeat
<1>7. CASE HeartbeatUnavailable(e)
  <2>1. exec[e].owner \in Owners /\ exec[e].owner[1] \in Procs
    BY <1>1, <1>7, ExecType DEF HeartbeatUnavailable, Owners
  <2>2. deadLetter' = deadLetter /\ run' \in {run, Revoked(exec[e].owner)}
    BY <1>7 DEF HeartbeatUnavailable
  <2> QED
    BY <1>1, <2>1, <2>2, LeaseRows, SameRow DEF RowEffect
<1>8. CASE BlockedBySwitch(e)
  BY <1>8, SameRow DEF BlockedBySwitch
<1>9. CASE CompleteRun(e) \/ FailRun(e)
  BY <1>9, SameRow, MoveStep, FailStep DEF CompleteRun, FailRun, Settle
<1>10. ASSUME NEW k \in Events, ParkWaiting(e, k) PROVE RowEffect
  <2>1. CASE HoldsLease(exec[e].owner)
    BY <1>1, <1>10, <2>1, ParkRunning
    DEF ParkWaiting, RowEffect, Lifecycle!Next, Lifecycle!Park
  <2>2. CASE ~ HoldsLease(exec[e].owner)
    BY <1>10, <2>2, SameRow DEF ParkWaiting
  <2> QED
    BY <2>1, <2>2
<1>11. CASE ScheduleRunningRetry(e)
  <2>1. CASE HoldsLease(exec[e].owner)
    <3>1. ~ run.pending /\ ~ run.exhausted /\ run.status = "running"
      BY <2>1 DEF RunInv, RowConsistent
    <3>2. PersistRetry(run)
      BY <1>11, <2>1 DEF ScheduleRunningRetry
    <3>3. CASE run.attempt + 1 > run.max /\ run.chat
      BY <1>1, <3>1, <3>2, <3>3, ExhaustChat
      DEF PersistRetry, RowEffect, Lifecycle!Next, Lifecycle!Finish
    <3>4. CASE run.attempt + 1 > run.max /\ ~ run.chat
      BY <1>1, <3>1, <3>2, <3>4, RetryRow
      DEF PersistRetry, Exhausted, RowEffect, Lifecycle!Next, Lifecycle!Exhaust
    <3>5. CASE ~ (run.attempt + 1 > run.max)
      <4>1. run.attempt + 1 <= run.max
        BY <1>1, <3>5 DEF RunRow
      <4> QED
        BY <1>1, <3>1, <3>2, <3>5, <4>1, RetryRow
        DEF PersistRetry, RowEffect, Lifecycle!Next, Lifecycle!Requeue
    <3> QED
      BY <3>3, <3>4, <3>5
  <2>2. CASE ~ HoldsLease(exec[e].owner)
    BY <1>11, <2>2, SameRow DEF ScheduleRunningRetry
  <2> QED
    BY <2>1, <2>2
<1>12. ASSUME NEW k \in Events \cup {NoWait}, TimedOut(e, k) PROVE RowEffect
  <2>1. CASE HoldsLease(exec[e].owner) /\ k = NoWait
    BY <1>12, <2>1, FailStep DEF TimedOut
  <2>2. CASE HoldsLease(exec[e].owner) /\ k # NoWait
    BY <1>1, <1>12, <2>2, ParkRunning
    DEF TimedOut, RowEffect, Lifecycle!Next, Lifecycle!Park
  <2>3. CASE ~ HoldsLease(exec[e].owner)
    BY <1>12, <2>3, SameRow DEF TimedOut
  <2> QED
    BY <2>1, <2>2, <2>3
<1> QED
  BY <1>2, <1>3, <1>5, <1>6, <1>7, <1>8, <1>9, <1>10, <1>11, <1>12 DEF Execute

(* The steps of an operator call.                                           *)
LEMMA OperateRow ==
    ASSUME RunInv, NEW c \in Calls, Operate(c)
    PROVE  RowEffect
<1>1. TypeOK /\ RowOK(run, deadLetter) /\ run \in RunRow
  BY RowOKEquiv DEF RunInv, TypeOK
<1>2. ASSUME NEW kind, Read(c, kind) PROVE RowEffect
  BY <1>2, SameRow DEF Read
<1>3. CASE PauseWrite(c)
  <2>1. CASE Unchanged(call[c].seen)
    <3>1. call[c].seen = run
      BY <1>3, <2>1, SeenByCall DEF PauseWrite, Pending
    <3>2. run.status \in {"queued", "running", "waiting"}
      BY <1>3, <3>1 DEF PauseWrite, Pending, RunInv, ReadsDecided, CallDecided
    <3> QED
      BY <1>3, <2>1, <3>1, <3>2, MoveStep DEF PauseWrite
  <2>2. CASE ~ Unchanged(call[c].seen)
    BY <1>3, <2>2, SameRow DEF PauseWrite
  <2> QED
    BY <2>1, <2>2
<1>4. ASSUME run.status \in {"waiting", "paused"}, run' = Requeued(run),
             deadLetter' = deadLetter
      PROVE  RowEffect
  BY <1>1, <1>4, RequeueOpen
  DEF RowEffect, Lifecycle!Next, Lifecycle!Wake, Lifecycle!Resume
<1>5. CASE ResumeWrite(c)
  <2>1. CASE Unchanged(call[c].seen)
    <3>1. call[c].seen = run
      BY <1>5, <2>1, SeenByCall DEF ResumeWrite, Pending
    <3>2. run.status = "paused"
      BY <1>5, <3>1 DEF ResumeWrite, Pending, RunInv, ReadsDecided, CallDecided
    <3> QED
      BY <1>4, <1>5, <2>1, <3>1, <3>2 DEF ResumeWrite
  <2>2. CASE ~ Unchanged(call[c].seen)
    BY <1>5, <2>2, SameRow DEF ResumeWrite
  <2> QED
    BY <2>1, <2>2
<1>6. CASE WakeWrite(c)
  <2>1. CASE Unchanged(call[c].seen)
    <3>1. call[c].seen = run
      BY <1>6, <2>1, SeenByCall DEF WakeWrite, Pending
    <3>2. run.status = "waiting"
      BY <1>6, <3>1 DEF WakeWrite, Pending, RunInv, ReadsDecided, CallDecided
    <3> QED
      BY <1>4, <1>6, <2>1, <3>1, <3>2 DEF WakeWrite
  <2>2. CASE ~ Unchanged(call[c].seen)
    BY <1>6, <2>2, SameRow DEF WakeWrite
  <2> QED
    BY <2>1, <2>2
<1>7. CASE RetryWrite(c)
  <2>1. CASE Unchanged(call[c].seen)
    <3>1. call[c].seen = run
      BY <1>7, <2>1, SeenByCall DEF RetryWrite, Pending
    <3>2. ~ run.pending /\ ~ run.chat /\ ~ run.exhausted /\ run.status = "failed"
      BY <1>7, <3>1
      DEF RetryWrite, Pending, RunInv, ReadsDecided, CallDecided, OnlyChatWaits
    <3>3. PersistRetry(run)
      BY <1>7, <2>1, <3>1 DEF RetryWrite
    <3>4. CASE run.attempt + 1 > run.max
      BY <1>1, <3>2, <3>3, <3>4, RetryRow
      DEF PersistRetry, Exhausted, RowEffect, Lifecycle!Next, Lifecycle!Exhaust
    <3>5. CASE ~ (run.attempt + 1 > run.max)
      <4>1. run.attempt + 1 <= run.max
        BY <1>1, <3>5 DEF RunRow
      <4> QED
        BY <1>1, <3>2, <3>3, <3>5, <4>1, RetryRow
        DEF PersistRetry, RowEffect, Lifecycle!Next, Lifecycle!RetryFailed
    <3> QED
      BY <3>4, <3>5
  <2>2. CASE ~ Unchanged(call[c].seen)
    BY <1>7, <2>2, SameRow DEF RetryWrite
  <2> QED
    BY <2>1, <2>2
<1>8. ASSUME NEW m \in Overrides, RecoverWrite(c, m) PROVE RowEffect
  <2>1. CASE deadLetter = "open" /\ Unchanged(call[c].seen)
    <3>1. call[c].seen = run
      BY <1>8, <2>1, SeenByCall DEF RecoverWrite, Pending
    <3>2. run.status = "dead_lettered" /\ run.attempt < Ceiling
      BY <1>8, <3>1 DEF RecoverWrite, Pending, RunInv, ReadsDecided, CallDecided
    <3>3. /\ run' = [Moved(run, "queued") EXCEPT !.max = RaisedMax(run, m)]
          /\ deadLetter' = "resolved"
      BY <1>8, <2>1, <3>1 DEF RecoverWrite, Recover
    <3>4. m \in Nat
      BY DurableAssumption
    <3> QED
      BY <1>1, <2>1, <3>2, <3>3, <3>4, RecoverRow
      DEF RowEffect, Lifecycle!Next, Lifecycle!Recover
  <2>2. CASE ~ (deadLetter = "open" /\ Unchanged(call[c].seen))
    BY <1>8, <2>2, SameRow DEF RecoverWrite, Recover
  <2> QED
    BY <2>1, <2>2
<1>9. CASE LoseCall(c)
  BY <1>9, SameRow DEF LoseCall
<1> QED
  BY <1>2, <1>3, <1>5, <1>6, <1>7, <1>8, <1>9
  DEF Operate, PauseRead, ResumeRead, WakeRead, RetryRead, RecoverRead

(* The passes of a worker loop.                                             *)
LEMMA RecoveryRow ==
    ASSUME RunInv, NEW p \in Procs, Recovery(p)
    PROVE  RowEffect
<1>1. TypeOK /\ RowOK(run, deadLetter) /\ run \in RunRow
  BY RowOKEquiv DEF RunInv, TypeOK
<1>2. ASSUME NEW kind, Observe(p, kind) PROVE RowEffect
  BY <1>2, SameRow DEF Observe
<1>3. ASSUME run.status = "running", run' \in RecoveredRows, deadLetter' = deadLetter
      PROVE  RowEffect
  <2>1. CASE run' = Moved(run, "queued")
    BY <1>3, <2>1, MoveStep
  <2>2. CASE run' = [Moved(run, "failed") EXCEPT !.pending = TRUE]
    BY <1>1, <1>3, <2>2, FailRow
    DEF RowEffect, Lifecycle!Next, Lifecycle!Finish
  <2> QED
    BY <1>3, <2>1, <2>2 DEF RecoveredRows
<1>4. CASE ReclaimWrite(p)
  BY <1>3, <1>4, SameRow DEF ReclaimWrite, LeaseExpired
<1>5. CASE ExitedWrite(p)
  BY <1>3, <1>5, SameRow DEF ExitedWrite, HoldsLease
<1>6. CASE SweepWrite(p)
  <2>1. CASE Unchanged(loop[p].seen)
    <3>1. loop[p].seen = run
      BY <1>6, <2>1, SeenByLoop DEF SweepWrite, InPass
    <3>2. run.status = "waiting"
      BY <1>6, <3>1 DEF SweepWrite, InPass, RunInv, ReadsDecided, PassDecided
    <3>3. run' = Requeued(run) /\ deadLetter' = deadLetter
      BY <1>6, <2>1, <3>1 DEF SweepWrite
    <3> QED
      BY <1>1, <3>2, <3>3, RequeueOpen DEF RowEffect, Lifecycle!Next, Lifecycle!Wake
  <2>2. CASE ~ Unchanged(loop[p].seen)
    BY <1>6, <2>2, SameRow DEF SweepWrite
  <2> QED
    BY <2>1, <2>2
<1> QED
  BY <1>2, <1>4, <1>5, <1>6 DEF Recovery, ReclaimRead, ExitedRead, SweepRead

(* Every step has a sound effect on the row.                                *)
LEMMA RowStep ==
    ASSUME RunInv, [Next]_vars
    PROVE  RowEffect
<1>1. TypeOK /\ RowOK(run, deadLetter) /\ run \in RunRow /\ run.version + 1 \in Nat
  BY RowOKEquiv DEF RunInv, TypeOK, RunRow
<1>2. ASSUME NEW p \in Procs, Crash(p) PROVE RowEffect
  BY <1>2, SameRow DEF Crash
<1>3. ASSUME NEW p \in Procs, StopWorker(p) PROVE RowEffect
  <2>1. ASSUME NEW e \in ExecutingOn(p), run' = Revoked(exec[e].owner) PROVE RowEffect
    <3>1. exec[e].owner \in Owners /\ exec[e].owner[1] \in Procs
      BY <1>1, ExecType DEF ExecutingOn, At, Owners
    <3> QED
      BY <1>1, <1>3, <2>1, <3>1, LeaseRows, SameRow DEF RowEffect, StopWorker
  <2> QED
    BY <1>3, <2>1, SameRow DEF StopWorker
<1>4. CASE Cancel
  BY <1>1, <1>4, MoveStep DEF Cancel, RunRow, Statuses
<1>5. CASE ClaimFinalization
  <2> DEFINE w == [run EXCEPT !.version = @ + 1]
  <2>1. w \in RunRow
    BY <1>1 DEF RunRow
  <2>2. w.status = run.status /\ w.owner = run.owner /\ w.version = run.version + 1
        /\ w.attempt = run.attempt /\ w.max = run.max /\ w.wait = run.wait
        /\ w.chat = run.chat /\ w.pending = run.pending /\ w.exhausted = run.exhausted
    BY <1>1 DEF RunRow
  <2>3. run' = w /\ deadLetter' = deadLetter
    BY <1>5 DEF ClaimFinalization
  <2> HIDE DEF w
  <2> QED
    BY <1>1, <2>1, <2>2, <2>3 DEF RowEffect, RowOK
<1>6. CASE ClearFinalization
  <2> DEFINE w == [run EXCEPT !.pending = FALSE, !.version = @ + 1]
  <2>1. w \in RunRow
    BY <1>1 DEF RunRow
  <2>2. w.status = run.status /\ w.owner = run.owner /\ w.version = run.version + 1
        /\ w.attempt = run.attempt /\ w.max = run.max /\ w.wait = run.wait
        /\ w.chat = run.chat /\ ~ w.pending /\ w.exhausted = run.exhausted
    BY <1>1 DEF RunRow
  <2>3. run' = w /\ deadLetter' = deadLetter
    BY <1>6 DEF ClearFinalization
  <2> HIDE DEF w
  <2> QED
    BY <1>1, <2>1, <2>2, <2>3 DEF RowEffect, RowOK
<1>7. CASE ProjectDeadLetter
  BY <1>1, <1>7, ProjectRow
  DEF ProjectDeadLetter, RowEffect, Lifecycle!Next, Lifecycle!Exhaust
<1>8. CASE ProjectLetter
  BY <1>1, <1>8 DEF ProjectLetter, RowEffect, RowOK
<1>9. CASE ToggleKillSwitch \/ Tick \/ UNCHANGED vars
  BY <1>9, SameRow DEF ToggleKillSwitch, Tick, vars
<1> QED
  BY <1>2, <1>3, <1>4, <1>5, <1>6, <1>7, <1>8, <1>9, ExecuteRow, OperateRow,
    RecoveryRow DEF Next

-----------------------------------------------------------------------------
(* What a step does to the executions: each keeps its owner id, ends, or is *)
(* the one execution that a claim starts under a fresh id.                  *)
ExecEffect ==
    /\ exec' \in [Execs -> Execution \cup {Idle}]
    /\ \/ \A e \in Execs : exec'[e] # Idle =>
              exec[e] # Idle /\ exec'[e].owner = exec[e].owner
       \/ \E e \in Execs, p \in Procs :
              /\ run'.version = run.version + 1
              /\ exec'[e] \in Execution
              /\ exec'[e].owner = FreshOwner(p)
              /\ \A f \in Execs \ {e} : exec'[f] = exec[f]

(* Every step has that effect on the executions.                            *)
LEMMA ExecStep ==
    ASSUME RunInv, [Next]_vars
    PROVE  ExecEffect
<1>1. TypeOK /\ exec \in [Execs -> Execution \cup {Idle}] /\ run \in RunRow
      /\ Idle \notin Execution
  BY DurableAssumption DEF RunInv, TypeOK
<1>2. ASSUME exec' = exec PROVE ExecEffect
  BY <1>1, <1>2 DEF ExecEffect
<1>3. ASSUME NEW e \in Execs, Leave(e) PROVE ExecEffect
  BY <1>1, <1>3 DEF ExecEffect, Leave
<1>4. ASSUME NEW e \in Execs, exec[e] # Idle,
             NEW q \in {"claimed", "executing", "blocked", "aborted"}, Goto(e, q)
      PROVE  ExecEffect
  <2> DEFINE x == [exec[e] EXCEPT !.pc = q]
  <2>1. exec[e] \in Execution
    BY <1>1, <1>4
  <2>2. x \in Execution /\ x.owner = exec[e].owner
    BY <2>1 DEF Execution
  <2>3. exec' = [exec EXCEPT ![e] = x]
    BY <1>4 DEF Goto
  <2> HIDE DEF x
  <2> QED
    BY <1>1, <1>4, <2>2, <2>3 DEF ExecEffect
<1>5. ASSUME NEW e \in Execs, NEW p \in Procs, Claim(e, p) PROVE ExecEffect
  <2> DEFINE x == [proc |-> p, owner |-> FreshOwner(p), pc |-> "claimed"]
  <2>1. x \in Execution /\ x.owner = FreshOwner(p)
    BY <1>1, FreshOwnerType DEF Execution
  <2>2. run'.version = run.version + 1
    BY <1>1, <1>5 DEF Claim, RunRow
  <2>3. exec' = [exec EXCEPT ![e] = x]
    BY <1>5 DEF Claim
  <2> HIDE DEF x
  <2> QED
    BY <1>1, <2>1, <2>2, <2>3 DEF ExecEffect
<1>6. ASSUME NEW e \in Execs, Execute(e) PROVE ExecEffect
  BY <1>2, <1>3, <1>4, <1>5, <1>6
  DEF Execute, ContinuationGate, Begin, Heartbeat, HeartbeatUnavailable,
      BlockedBySwitch, CompleteRun, FailRun, Settle, ParkWaiting, TimedOut,
      ScheduleRunningRetry, At
<1>7. ASSUME NEW p \in Procs, Crash(p) PROVE ExecEffect
  BY <1>1, <1>7 DEF Crash, ExecEffect
<1>8. ASSUME NEW p \in Procs, StopWorker(p) PROVE ExecEffect
  <2>1. ASSUME NEW e \in ExecutingOn(p)
        PROVE  /\ exec[e] # Idle
               /\ [exec[e] EXCEPT !.pc = "aborted"] \in Execution
               /\ [exec[e] EXCEPT !.pc = "aborted"].owner = exec[e].owner
    <3>1. exec[e] # Idle /\ exec[e] \in Execution
      BY <1>1 DEF ExecutingOn, At
    <3> QED
      BY <3>1 DEF Execution
  <2>2. exec' = [e \in Execs |->
                  IF e \in ExecutingOn(p) THEN [exec[e] EXCEPT !.pc = "aborted"]
                  ELSE exec[e]]
    BY <1>8 DEF StopWorker
  <2> QED
    BY <1>1, <2>1, <2>2 DEF ExecEffect
<1>9. CASE \/ \E c \in Calls : Operate(c)
           \/ \E p \in Procs : Recovery(p)
           \/ Cancel \/ ClaimFinalization \/ ClearFinalization \/ ProjectLetter
           \/ ProjectDeadLetter
           \/ ToggleKillSwitch \/ Tick \/ UNCHANGED vars
  BY <1>2, <1>9
  DEF Operate, PauseRead, PauseWrite, ResumeRead, ResumeWrite, WakeRead, WakeWrite,
      RetryRead, RetryWrite, RecoverRead, RecoverWrite, LoseCall, Read, Recovery,
      ReclaimRead, ReclaimWrite, ExitedRead, ExitedWrite, SweepRead, SweepWrite,
      Observe, Cancel, ClaimFinalization, ClearFinalization, ProjectLetter,
      ProjectDeadLetter,
      ToggleKillSwitch, Tick, vars
<1> QED
  BY <1>6, <1>7, <1>8, <1>9 DEF Next

-----------------------------------------------------------------------------
(* What a step does to the reads in progress: each is kept, ends, or is a   *)
(* read of the current row that met the conditions of its kind.             *)
ReadEffect ==
    /\ call' \in [Calls -> OperatorCall \cup {Idle}]
    /\ loop' \in [Procs -> RecoveryPass \cup {Idle}]
    /\ \A c \in Calls : call'[c] # Idle =>
          \/ call'[c] = call[c]
          \/ run' = run /\ call'[c].seen = run /\ CallDecided(call'[c])
    /\ \A p \in Procs : loop'[p] # Idle =>
          \/ loop'[p] = loop[p]
          \/ run' = run /\ loop'[p].seen = run /\ PassDecided(loop'[p])

(* Every step has that effect on the reads in progress.                     *)
LEMMA ReadStep ==
    ASSUME RunInv, [Next]_vars
    PROVE  ReadEffect
<1>1. /\ TypeOK /\ run \in RunRow
      /\ call \in [Calls -> OperatorCall \cup {Idle}]
      /\ loop \in [Procs -> RecoveryPass \cup {Idle}]
  BY DEF RunInv, TypeOK
<1>2. ASSUME call' = call, loop' = loop PROVE ReadEffect
  BY <1>1, <1>2 DEF ReadEffect
<1>3. ASSUME NEW c \in Calls, Done(c), loop' = loop PROVE ReadEffect
  BY <1>1, <1>3 DEF ReadEffect, Done
<1>4. ASSUME NEW p \in Procs, EndPass(p), call' = call PROVE ReadEffect
  BY <1>1, <1>4 DEF ReadEffect, EndPass
<1>5. ASSUME NEW c \in Calls,
             NEW kind \in {"pause", "resume", "retry", "wake", "recover"},
             CallDecided([kind |-> kind, seen |-> run]), Read(c, kind)
      PROVE  ReadEffect
  <2> DEFINE x == [kind |-> kind, seen |-> run]
  <2>1. x \in OperatorCall /\ x.seen = run /\ CallDecided(x)
    BY <1>1, <1>5 DEF OperatorCall
  <2>2. call' = [call EXCEPT ![c] = x] /\ loop' = loop /\ run' = run
    BY <1>5 DEF Read
  <2> HIDE DEF x
  <2> QED
    BY <1>1, <2>1, <2>2 DEF ReadEffect
<1>6. ASSUME NEW p \in Procs, NEW kind \in {"reclaim", "exited", "sweep"},
             PassDecided([kind |-> kind, seen |-> run]), Observe(p, kind)
      PROVE  ReadEffect
  <2> DEFINE x == [kind |-> kind, seen |-> run]
  <2>1. x \in RecoveryPass /\ x.seen = run /\ PassDecided(x)
    BY <1>1, <1>6 DEF RecoveryPass
  <2>2. loop' = [loop EXCEPT ![p] = x] /\ call' = call /\ run' = run
    BY <1>6 DEF Observe
  <2> HIDE DEF x
  <2> QED
    BY <1>1, <2>1, <2>2 DEF ReadEffect
<1>7. ASSUME NEW c \in Calls, Operate(c) PROVE ReadEffect
  <2>1. CASE PauseRead(c)
    <3>1. run.status \in {"queued", "running", "waiting"}
      BY <1>1, <2>1 DEF PauseRead, RunRow, Statuses
    <3> QED
      BY <1>5, <2>1, <3>1 DEF PauseRead, CallDecided
  <2>2. CASE ResumeRead(c)
    BY <1>5, <2>2 DEF ResumeRead, CallDecided
  <2>3. ASSUME NEW k \in Events, WakeRead(c, k) PROVE ReadEffect
    BY <1>5, <2>3 DEF WakeRead, CallDecided
  <2>4. CASE RetryRead(c)
    BY <1>5, <2>4 DEF RetryRead, CallDecided
  <2>5. CASE RecoverRead(c)
    BY <1>5, <2>5 DEF RecoverRead, CallDecided
  <2> QED
    BY <1>3, <1>7, <2>1, <2>2, <2>3, <2>4, <2>5
    DEF Operate, PauseWrite, ResumeWrite, WakeWrite, RetryWrite, RecoverWrite, LoseCall
<1>8. ASSUME NEW p \in Procs, Recovery(p) PROVE ReadEffect
  <2>1. CASE ReclaimRead(p)
    BY <1>6, <2>1 DEF ReclaimRead, PassDecided
  <2>2. CASE ExitedRead(p)
    BY <1>6, <2>2 DEF ExitedRead, PassDecided
  <2>3. CASE SweepRead(p)
    BY <1>6, <2>3 DEF SweepRead, PassDecided
  <2> QED
    BY <1>4, <1>8, <2>1, <2>2, <2>3 DEF Recovery, ReclaimWrite, ExitedWrite, SweepWrite
<1>9. ASSUME NEW p \in Procs, Crash(p) PROVE ReadEffect
  BY <1>4, <1>9 DEF Crash, EndPass
<1>10. CASE \/ \E e \in Execs : Execute(e)
            \/ \E p \in Procs : StopWorker(p)
            \/ Cancel \/ ClaimFinalization \/ ClearFinalization \/ ProjectLetter
            \/ ProjectDeadLetter
            \/ ToggleKillSwitch \/ Tick \/ UNCHANGED vars
  BY <1>2, <1>10
  DEF Execute, Claim, ContinuationGate, Begin, Heartbeat, HeartbeatUnavailable,
      BlockedBySwitch, CompleteRun, FailRun, Settle, ParkWaiting, TimedOut,
      ScheduleRunningRetry, StopWorker, Cancel,
      ClaimFinalization, ClearFinalization, ProjectLetter, ProjectDeadLetter,
      ToggleKillSwitch, Tick, vars
<1> QED
  BY <1>7, <1>8, <1>9, <1>10 DEF Next

(* The clock, the retry time, the processes and the switch keep their types. *)
LEMMA RestStep ==
    ASSUME RunInv, [Next]_vars
    PROVE  /\ now' \in Nat /\ retryAt' \in Nat
           /\ dead' \subseteq Procs /\ stopped' \subseteq Procs
           /\ killSwitch' \in BOOLEAN
<1>1. /\ now \in Nat /\ retryAt \in Nat
      /\ dead \subseteq Procs /\ stopped \subseteq Procs
      /\ killSwitch \in BOOLEAN
  BY DEF RunInv, TypeOK
<1>2. \A d \in RetryDelays : now + d \in Nat
  BY <1>1, DurableAssumption
<1>3. now' \in {now, now + 1}
  BY DEF Next, vars, Execute, Claim, ContinuationGate, Begin, Heartbeat,
     HeartbeatUnavailable, BlockedBySwitch, CompleteRun, FailRun, Settle, ParkWaiting,
     TimedOut, ScheduleRunningRetry,
     Operate, PauseRead, PauseWrite, ResumeRead, ResumeWrite, WakeRead, WakeWrite,
     RetryRead, RetryWrite, RecoverRead, RecoverWrite, LoseCall, Read, Recovery,
     ReclaimRead, ReclaimWrite, ExitedRead, ExitedWrite, SweepRead, SweepWrite, Observe,
     Crash, StopWorker, Cancel, ClaimFinalization, ClearFinalization, ProjectLetter,
     ProjectDeadLetter,
     ToggleKillSwitch, Tick
<1>4. retryAt' \in {retryAt} \cup {now + d : d \in RetryDelays}
  BY DEF Next, vars, Execute, Claim, ContinuationGate, Begin, Heartbeat,
     HeartbeatUnavailable, BlockedBySwitch, CompleteRun, FailRun, Settle, ParkWaiting,
     TimedOut, ScheduleRunningRetry,
     PersistRetry, Operate, PauseRead, PauseWrite, ResumeRead, ResumeWrite, WakeRead,
     WakeWrite, RetryRead, RetryWrite, RecoverRead, RecoverWrite, LoseCall, Read,
     Recovery,
     ReclaimRead, ReclaimWrite, ExitedRead, ExitedWrite, SweepRead, SweepWrite, Observe,
     Crash, StopWorker, Cancel, ClaimFinalization, ClearFinalization, ProjectLetter,
     ProjectDeadLetter,
     ToggleKillSwitch, Tick
<1>5. dead' \subseteq Procs /\ stopped' \subseteq Procs
  BY <1>1 DEF Next, vars, Execute, Claim, ContinuationGate, Begin, Heartbeat,
     HeartbeatUnavailable, BlockedBySwitch, CompleteRun, FailRun, Settle, ParkWaiting,
     TimedOut, ScheduleRunningRetry,
     Operate, PauseRead, PauseWrite, ResumeRead, ResumeWrite, WakeRead, WakeWrite,
     RetryRead, RetryWrite, RecoverRead, RecoverWrite, LoseCall, Read, Recovery,
     ReclaimRead, ReclaimWrite, ExitedRead, ExitedWrite, SweepRead, SweepWrite, Observe,
     Crash, StopWorker, Cancel, ClaimFinalization, ClearFinalization, ProjectLetter,
     ProjectDeadLetter,
     ToggleKillSwitch, Tick
<1>6. killSwitch' = killSwitch \/ killSwitch' = ~ killSwitch
  BY DEF Next, vars, Execute, Claim, ContinuationGate, Begin, Heartbeat,
     HeartbeatUnavailable, BlockedBySwitch, CompleteRun, FailRun, Settle, ParkWaiting,
     TimedOut, ScheduleRunningRetry,
     Operate, PauseRead, PauseWrite, ResumeRead, ResumeWrite, WakeRead, WakeWrite,
     RetryRead, RetryWrite, RecoverRead, RecoverWrite, LoseCall, Read, Recovery,
     ReclaimRead, ReclaimWrite, ExitedRead, ExitedWrite, SweepRead, SweepWrite, Observe,
     Crash, StopWorker, Cancel, ClaimFinalization, ClearFinalization, ProjectLetter,
     ProjectDeadLetter,
     ToggleKillSwitch, Tick
<1>7. now' \in Nat
  BY <1>1, <1>3
<1>8. retryAt' \in Nat
  BY <1>1, <1>2, <1>4
<1>9. killSwitch' \in BOOLEAN
  BY <1>1, <1>6, Zenon
<1> QED
  BY <1>5, <1>7, <1>8, <1>9

-----------------------------------------------------------------------------
(* A new run satisfies the invariant: nobody has read or claimed it yet.    *)
LEMMA InitInv == Init => RunInv
<1> SUFFICES ASSUME Init PROVE RunInv
  OBVIOUS
<1>1. PICK m \in Budgets, s \in {"queued", "paused", "waiting"}, k \in Events,
           chat \in BOOLEAN :
          run = [status |-> s, attempt |-> 0, max |-> m, owner |-> NoOwner,
                 expires |-> 0, version |-> 1,
                 wait |-> IF s = "waiting" THEN k ELSE NoWait,
                 chat |-> chat, pending |-> FALSE, exhausted |-> FALSE]
  BY DEF Init
<1>2. m \in Nat /\ m <= Ceiling /\ 0 <= Ceiling /\ 0 <= Ceiling + 1 /\ k # NoWait
  BY <1>1, DurableAssumption
<1>3. run \in RunRow
  BY <1>1, <1>2 DEF RunRow, Statuses
<1>4. deadLetter = "none" /\ run.status # "dead_lettered" /\ run.status # "running"
      /\ run.owner = NoOwner /\ ~ run.pending /\ ~ run.exhausted /\ run.max = m
      /\ run.attempt = 0
      /\ (run.status = "waiting" => run.wait = k)
  BY <1>1 DEF Init
<1>5. RowConsistent /\ DeadLetterMatches /\ AttemptCeiling /\ OnlyChatWaits
  BY <1>2, <1>4 DEF RowConsistent, DeadLetterMatches, AttemptCeiling, OnlyChatWaits
<1>6. /\ now \in Nat /\ retryAt \in Nat /\ deadLetter \in {"none", "open", "resolved"}
      /\ exec \in [Execs -> Execution \cup {Idle}]
      /\ call \in [Calls -> OperatorCall \cup {Idle}]
      /\ loop \in [Procs -> RecoveryPass \cup {Idle}]
      /\ dead \subseteq Procs /\ stopped \subseteq Procs
  BY DEF Init
<1>7. killSwitch \in BOOLEAN
  BY DEF Init
<1>8. TypeOK
  BY <1>3, <1>6, <1>7 DEF TypeOK
<1>9. VersionNamesRow /\ ReadsDecided
  BY DEF Init, VersionNamesRow, ReadsDecided
<1>10. OwnersUnique
  BY <1>4 DEF Init, OwnersUnique
<1> QED
  BY <1>5, <1>8, <1>9, <1>10 DEF RunInv

(* Owner ids stay unique: a fresh one carries a version no id carries yet.  *)
LEMMA OwnersStep ==
    ASSUME RunInv, [Next]_vars
    PROVE  OwnersUnique'
<1>1. TypeOK /\ OwnersUnique /\ run.version \in Nat
  BY DEF RunInv, TypeOK, RunRow
<1>2. /\ run'.version \in Nat /\ run.version <= run'.version
      /\ run' # run => run'.version = run.version + 1
  <2>1. RowEffect
    BY RowStep
  <2> QED
    BY <1>1, <2>1 DEF RowEffect
<1>3. run'.owner # NoOwner => run'.owner[2] <= run'.version
  <2>1. CASE run' = run
    BY <1>1, <2>1 DEF OwnersUnique
  <2>2. CASE run'.owner = run.owner /\ run' # run
    <3>1. run.owner # NoOwner => run.owner \in Owners /\ run.owner[2] \in Nat
      BY <1>1 DEF TypeOK, RunRow, Owners
    <3> QED
      BY <1>1, <1>2, <2>2, <3>1 DEF OwnersUnique
  <2>3. ASSUME NEW p \in Procs, run'.owner = FreshOwner(p), run' # run
        PROVE  run'.owner[2] <= run'.version
    BY <1>1, <1>2, <2>3, FreshOwnerType
  <2> QED
    BY <2>1, <2>2, <2>3, RowStep DEF RowEffect
<1>4. ASSUME NEW e \in Execs, exec[e] # Idle
      PROVE  exec[e].owner[2] \in Nat /\ exec[e].owner[2] <= run.version
  BY <1>1, <1>4, ExecType DEF OwnersUnique, Owners
<1>5. CASE \A e \in Execs : exec'[e] # Idle =>
              exec[e] # Idle /\ exec'[e].owner = exec[e].owner
  <2>1. \A e \in Execs : exec'[e] # Idle => exec'[e].owner[2] <= run'.version
    BY <1>1, <1>2, <1>4, <1>5
  <2>2. \A e, f \in Execs :
          exec'[e] # Idle /\ exec'[f] # Idle /\ exec'[e].owner = exec'[f].owner => e = f
    BY <1>1, <1>5 DEF OwnersUnique
  <2> QED
    BY <1>3, <2>1, <2>2 DEF OwnersUnique
<1>6. ASSUME NEW e \in Execs, NEW p \in Procs,
             run'.version = run.version + 1,
             exec'[e] \in Execution,
             exec'[e].owner = FreshOwner(p),
             \A f \in Execs \ {e} : exec'[f] = exec[f]
      PROVE  OwnersUnique'
  <2>1. exec'[e].owner[2] = run.version + 1
    BY <1>1, <1>6, FreshOwnerType
  <2>2. \A f \in Execs \ {e} : exec'[f] # Idle => exec'[f].owner[2] <= run.version
                                                 /\ exec'[f].owner[2] \in Nat
    BY <1>4, <1>6
  <2>3. \A f \in Execs : exec'[f] # Idle => exec'[f].owner[2] <= run'.version
    BY <1>1, <1>6, <2>1, <2>2
  <2>4. \A f \in Execs \ {e} : exec'[f] # Idle => exec'[f].owner # exec'[e].owner
    BY <1>1, <2>1, <2>2
  <2>5. \A f, g \in Execs :
          exec'[f] # Idle /\ exec'[g] # Idle /\ exec'[f].owner = exec'[g].owner => f = g
    BY <1>1, <1>6, <2>4 DEF OwnersUnique
  <2> QED
    BY <1>3, <2>3, <2>5 DEF OwnersUnique
<1> QED
  BY <1>5, <1>6, ExecStep DEF ExecEffect

(* Reads in progress stay faithful and decided.                             *)
LEMMA ReadsStep ==
    ASSUME RunInv, [Next]_vars
    PROVE  VersionNamesRow' /\ ReadsDecided'
<1>1. ReadEffect /\ VersionNamesRow /\ ReadsDecided /\ run.version \in Nat
  BY ReadStep DEF RunInv, TypeOK, RunRow
<1>2. run' = run \/ run'.version = run.version + 1
  BY RowStep DEF RowEffect
<1>3. \A c \in Calls : call[c] # Idle => call[c].seen.version \in Nat
  BY SeenByCall DEF RunRow
<1>4. \A p \in Procs : loop[p] # Idle => loop[p].seen.version \in Nat
  BY SeenByLoop DEF RunRow
<1>5. ASSUME NEW seen, seen.version \in Nat, Faithful(seen) PROVE Faithful(seen)'
  <2>1. CASE run' = run
    BY <1>5, <2>1 DEF Faithful
  <2>2. CASE run'.version = run.version + 1
    BY <1>1, <1>5, <2>2 DEF Faithful
  <2> QED
    BY <1>2, <2>1, <2>2
<1>6. ASSUME run' = run, NEW seen, seen = run PROVE Faithful(seen)'
  BY <1>1, <1>6 DEF Faithful
<1> QED
  BY <1>1, <1>3, <1>4, <1>5, <1>6 DEF ReadEffect, VersionNamesRow, ReadsDecided

(* Every step preserves the invariant.                                      *)
LEMMA StepInv == RunInv /\ [Next]_vars => RunInv'
<1> SUFFICES ASSUME RunInv, [Next]_vars PROVE RunInv'
  OBVIOUS
<1>1. RowOK(run', deadLetter')
  BY RowStep DEF RowEffect
<1>2. RowConsistent' /\ DeadLetterMatches' /\ AttemptCeiling' /\ OnlyChatWaits'
  BY <1>1 DEF RowOK, RowConsistent, DeadLetterMatches, AttemptCeiling, OnlyChatWaits
<1>3. TypeOK'
  <2>1. run' \in RunRow /\ deadLetter' \in {"none", "open", "resolved"}
    BY <1>1 DEF RowOK
  <2>2. exec' \in [Execs -> Execution \cup {Idle}]
    BY ExecStep DEF ExecEffect
  <2>3. /\ call' \in [Calls -> OperatorCall \cup {Idle}]
        /\ loop' \in [Procs -> RecoveryPass \cup {Idle}]
    BY ReadStep DEF ReadEffect
  <2> QED
    BY <2>1, <2>2, <2>3, RestStep DEF TypeOK
<1> QED
  BY <1>2, <1>3, OwnersStep, ReadsStep DEF RunInv

(* The inductive invariant holds of every run, whatever its callers do.     *)
THEOREM RunInvariant == Spec => []RunInv
<1> QED
  BY InitInv, StepInv, PTL DEF Spec

(* Every column of the row, every execution and every read in progress      *)
(* keeps its type.                                                          *)
THEOREM TypeCorrect == Spec => []TypeOK
<1>1. RunInv => TypeOK
  BY DEF RunInv
<1> QED
  BY <1>1, RunInvariant, PTL

(* A version names one row: what pause, resume, retry, wake, recover or the *)
(* sweep overwrites under a version check is what it read.                  *)
THEOREM VersionsNameRows == Spec => []VersionNamesRow
<1>1. RunInv => VersionNamesRow
  BY DEF RunInv
<1> QED
  BY <1>1, RunInvariant, PTL

(* At most one handler can settle a run, for any number of workers, stale   *)
(* handlers, restarts and reclaims: owner ids are never issued twice.       *)
THEOREM AtMostOneCommitter == Spec => []SingleCommitter
<1>1. RunInv => SingleCommitter
  BY DEF RunInv, OwnersUnique, SingleCommitter, HoldsLease
<1> QED
  BY <1>1, RunInvariant, PTL

(* The lease columns, the finalization marker and the wake registration     *)
(* always agree with the status of the run.                                 *)
THEOREM RowAlwaysConsistent == Spec => []RowConsistent
<1>1. RunInv => RowConsistent
  BY DEF RunInv
<1> QED
  BY <1>1, RunInvariant, PTL

(* A run is dead-lettered exactly while its dead letter is open.            *)
THEOREM DeadLetterAlwaysMatches == Spec => []DeadLetterMatches
<1>1. RunInv => DeadLetterMatches
  BY DEF RunInv
<1> QED
  BY <1>1, RunInvariant, PTL

(* No sequence of retries, dead letters and recoveries passes the ceiling.  *)
THEOREM AttemptsBounded == Spec => []AttemptCeiling
<1>1. RunInv => AttemptCeiling
  BY DEF RunInv
<1> QED
  BY <1>1, RunInvariant, PTL

(* The run implements the status diagram of the durable contract.           *)
THEOREM RunImplementsLifecycle == Spec => ImplementsLifecycle
<1>1. Init => Lifecycle!Created
  BY DEF Init, Lifecycle!Created
<1>2. RunInv /\ [Next]_vars => [Lifecycle!Next]_(run.status)
  BY RowStep DEF RowEffect
<1> QED
  BY <1>1, <1>2, RunInvariant, PTL DEF Spec, ImplementsLifecycle, Lifecycle!Spec

-----------------------------------------------------------------------------
(* The step formula of LiveLeaseNotStolen.                                  *)
NotStolen ==
    run.status = "running" /\ run'.status = "queued"
    => \/ run.expires <= now
       \/ run.owner[1] \in dead
       \/ \E e \in Execs : exec[e] # Idle /\ exec[e].owner = run.owner
                             /\ exec'[e] = Idle

(* An execution requeues the run it holds only as it ends.                  *)
LEMMA ExecuteNotStolen ==
    ASSUME RunInv, NEW e \in Execs, Execute(e)
    PROVE  NotStolen
<1> SUFFICES ASSUME run.status = "running", run'.status = "queued"
             PROVE  \/ run.expires <= now
                    \/ exec[e] # Idle /\ exec[e].owner = run.owner /\ exec'[e] = Idle
  BY DEF NotStolen
<1>1. TypeOK /\ run \in RunRow /\ RowOK(run, deadLetter)
  BY RowOKEquiv DEF RunInv, TypeOK
<1>2. run' # run
  OBVIOUS
<1>3. ASSUME NEW s \in {"paused", "cancelled", "completed", "failed"}
      PROVE  run' # Moved(run, s)
  <2>1. s \in Statuses
    BY DEF Statuses, Terminal
  <2> QED
    BY <1>1, <2>1, MovedRow
<1>4. ASSUME NEW k \in Events PROVE run' # [Moved(run, "waiting") EXCEPT !.wait = k]
  BY <1>1, ParkRunning
<1>5. run' # Failed(run)
  <2>1. run.chat \in BOOLEAN
    BY <1>1 DEF RunRow
  <2> QED
    BY <1>1, <2>1, FailRow DEF Failed
<1>6. run' # Renewed
  BY <1>1, RenewedRow
<1>7. ASSUME exec[e] # Idle PROVE run' # Revoked(exec[e].owner)
  BY <1>1, <1>2, <1>7, ExecType, LeaseRows
<1>8. ScheduleRunningRetry(e)
  BY <1>2, <1>3, <1>4, <1>5, <1>6, <1>7
  DEF Execute, Claim, ContinuationGate, Begin, Heartbeat, HeartbeatUnavailable,
      BlockedBySwitch, CompleteRun, FailRun, Settle, ParkWaiting, TimedOut, At
<1> QED
  BY <1>1, <1>2, <1>8 DEF ScheduleRunningRetry, At, HoldsLease, Leave, TypeOK

(* An operator call never requeues a running run.                           *)
LEMMA OperateNotStolen ==
    ASSUME RunInv, NEW c \in Calls, Operate(c)
    PROVE  NotStolen
<1> SUFFICES ASSUME run.status = "running", run'.status = "queued" PROVE FALSE
  BY DEF NotStolen
<1>1. run' # run /\ run \in RunRow /\ "paused" \in Statuses
  BY DEF RunInv, TypeOK, Statuses
<1>2. call[c] # Idle /\ Unchanged(call[c].seen)
  BY <1>1
  DEF Operate, PauseRead, PauseWrite, ResumeRead, ResumeWrite, WakeRead, WakeWrite,
      RetryRead, RetryWrite, RecoverRead, RecoverWrite, Recover, LoseCall, Read, Pending
<1>3. call[c].seen = run /\ CallDecided(call[c])
  BY <1>2, SeenByCall DEF RunInv, ReadsDecided
<1>4. PauseWrite(c)
  BY <1>1, <1>3
  DEF Operate, PauseRead, ResumeRead, ResumeWrite, WakeRead, WakeWrite, RetryRead,
      RetryWrite, RecoverRead, RecoverWrite, LoseCall, Read, Pending, CallDecided
<1> QED
  BY <1>1, <1>2, <1>3, <1>4, MovedRow DEF PauseWrite

(* A recovery pass requeues it only past the lease or for an exited owner.  *)
LEMMA RecoveryNotStolen ==
    ASSUME RunInv, NEW p \in Procs, Recovery(p)
    PROVE  NotStolen
<1> SUFFICES ASSUME run.status = "running", run'.status = "queued"
             PROVE  run.expires <= now \/ run.owner[1] \in dead
  BY DEF NotStolen
<1>1. run' # run
  OBVIOUS
<1>2. ~ SweepWrite(p)
  <2>1. ASSUME SweepWrite(p) PROVE loop[p].seen = run /\ PassDecided(loop[p])
    BY <1>1, <2>1, SeenByLoop DEF SweepWrite, InPass, RunInv, ReadsDecided
  <2> QED
    BY <2>1 DEF SweepWrite, InPass, PassDecided
<1> QED
  BY <1>1, <1>2
  DEF Recovery, ReclaimRead, ReclaimWrite, ExitedRead, ExitedWrite, SweepRead, Observe,
      LeaseExpired, OwnerExited

(* No run is requeued under a live execution: not by a recovery pass that   *)
(* observed its lease early, an operator call or another worker.            *)
THEOREM LiveLeasesAreKept == Spec => LiveLeaseNotStolen
<1>1. RunInv /\ [Next]_vars => [NotStolen]_vars
  <2> SUFFICES ASSUME RunInv, Next PROVE NotStolen
    OBVIOUS
  <2>1. run \in RunRow /\ TypeOK /\ RowOK(run, deadLetter) /\ "cancelled" \in Statuses
    BY RowOKEquiv DEF RunInv, TypeOK, Statuses, Terminal
  <2>2. ASSUME NEW p \in Procs, StopWorker(p) PROVE NotStolen
    <3>1. ASSUME NEW e \in ExecutingOn(p), run' = Revoked(exec[e].owner)
          PROVE  run'.status = run.status
      BY <2>1, <3>1, ExecType, LeaseRows DEF ExecutingOn, At
    <3> QED
      BY <2>2, <3>1 DEF StopWorker, NotStolen
  <2>3. CASE Cancel
    BY <2>1, <2>3, MovedRow DEF Cancel, NotStolen
  <2>4. CASE \/ \E p \in Procs : Crash(p)
             \/ ClaimFinalization \/ ClearFinalization \/ ProjectLetter
             \/ ProjectDeadLetter
             \/ ToggleKillSwitch \/ Tick
    BY <2>4 DEF Crash, ClaimFinalization, ClearFinalization, ProjectLetter,
      ProjectDeadLetter,
       ToggleKillSwitch, Tick, NotStolen
  <2> QED
    BY <2>2, <2>3, <2>4, ExecuteNotStolen, OperateNotStolen, RecoveryNotStolen DEF Next
<1> QED
  BY <1>1, RunInvariant, PTL DEF Spec, LiveLeaseNotStolen, NotStolen
=============================================================================
