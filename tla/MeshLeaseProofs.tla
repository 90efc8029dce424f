--------------------------- MODULE MeshLeaseProofs ---------------------------
(****************************************************************************)
(* Theorems about MeshLease, for any sets of nodes, keys and call slots.    *)
(* Type correctness holds for every deployment; the exclusion results are   *)
(* those of one gateway process whose leases all have one TTL.  Gateways    *)
(* that share a database keep what the fencing token is for as long as no   *)
(* row is deleted.                                                          *)
(****************************************************************************)
EXTENDS MeshLease, TLAPS

(* Sums of natural numbers, as a fact of its own for the provers.          *)
LEMMA NatSum == ASSUME NEW a \in Nat, NEW b \in Nat PROVE a + b \in Nat
  OBVIOUS

WrittenRow(s, t) == [holder |-> s.node, token |-> t, expires |-> s.at + s.ttl]

(* The row an acquire or a renew writes has its type.                      *)
LEMMA WrittenRowType ==
    ASSUME NEW s \in InFlight, NEW t \in Nat \ {0}
    PROVE  WrittenRow(s, t) \in LeaseRow
<1>1. s.node \in Nodes /\ s.at \in Nat /\ s.ttl \in Nat
  BY ConstantsAssumption DEF InFlight
<1>2. s.at + s.ttl \in Nat
  BY <1>1, NatSum
<1> QED BY <1>1, <1>2 DEF LeaseRow, WrittenRow

(* The two outcomes of the statement that writes: the row is replaced, or  *)
(* the compare-and-swap (or the insert) fails and nothing changes.         *)
WriteWins(c) ==
    LET s == call[c]
    IN  /\ \E t \in Nat \ {0} : lease' = [lease EXCEPT ![s.key] = WrittenRow(s, t)]
        /\ call' = [call EXCEPT ![c] = [s EXCEPT !.pc = "reload"]]
        /\ UNCHANGED <<clock, held>>

WriteLoses(c) ==
    call' = [call EXCEPT ![c] = Idle] /\ UNCHANGED <<clock, lease, held>>

(* A write step of acquireLease or renewLease has one of these outcomes.   *)
LEMMA WriteStep ==
    ASSUME TypeOK, NEW c \in Calls, AcquireWrite(c) \/ RenewWrite(c)
    PROVE  call[c] \in InFlight /\ (WriteWins(c) \/ WriteLoses(c))
<1> DEFINE s == call[c]
<1>1. s \in InFlight
  BY DEF AcquireWrite, RenewWrite, TypeOK
<1>2. s.seen # NoLease => s.seen \in LeaseRow
  BY <1>1 DEF InFlight, MaybeRow
<1>3. s.seen # NoLease => s.seen.token \in Nat \ {0} /\ NextToken(s) \in Nat \ {0}
  BY <1>2 DEF LeaseRow, NextToken
<1>4. CASE AcquireWrite(c)
  <2> DEFINE t == IF s.seen = NoLease THEN 1 ELSE NextToken(s)
  <2>1. t \in Nat \ {0}
    BY <1>3
  <2>2. CASE lease' = lease /\ call' = [call EXCEPT ![c] = Idle]
    BY <1>1, <1>4, <2>2 DEF AcquireWrite, WriteLoses
  <2>3. CASE /\ lease' = [lease EXCEPT ![s.key] = WrittenRow(s, t)]
             /\ call' = [call EXCEPT ![c].pc = "reload"]
    BY <1>1, <1>4, <2>1, <2>3 DEF AcquireWrite, WriteWins
  <2> QED BY <1>4, <2>2, <2>3 DEF AcquireWrite, WrittenRow
<1>5. CASE RenewWrite(c)
  <2>1. s.seen.token \in Nat \ {0}
    BY <1>3, <1>5 DEF RenewWrite, TypeOK
  <2>2. CASE lease' = lease /\ call' = [call EXCEPT ![c] = Idle]
    BY <1>1, <1>5, <2>2 DEF RenewWrite, WriteLoses
  <2>3. CASE /\ lease' = [lease EXCEPT ![s.key] = WrittenRow(s, s.seen.token)]
             /\ call' = [call EXCEPT ![c].pc = "reload"]
    BY <1>1, <1>5, <2>1, <2>3 DEF RenewWrite, WriteWins
  <2> QED BY <1>5, <2>2, <2>3 DEF RenewWrite, WrittenRow
<1> QED BY <1>1, <1>4, <1>5

(* Every reachable state of the lease table, of the repository calls in    *)
(* flight and of the returned records is well typed.                       *)
THEOREM TypeCorrect == Spec => []TypeOK
<1>1. Init => TypeOK
  BY ConstantsAssumption DEF Init, TypeOK, MaybeRow
<1>2. TypeOK /\ [Next]_vars => TypeOK'
  <2> SUFFICES ASSUME TypeOK, [Next]_vars PROVE TypeOK'
    OBVIOUS
  <2> USE ConstantsAssumption DEF TypeOK
  <2>1. ASSUME NEW c \in Calls, NEW n \in Nodes, NEW k \in Keys, NEW ttl \in Ttls,
               AcquireRead(c, n, k, ttl)
        PROVE  TypeOK'
    BY <2>1 DEF AcquireRead, InFlight
  <2>2. ASSUME NEW c \in Calls, NEW n \in Nodes, NEW k \in Keys, NEW ttl \in Ttls,
               RenewRead(c, n, k, ttl)
        PROVE  TypeOK'
    BY <2>2 DEF RenewRead, InFlight
  <2>3. ASSUME NEW c \in Calls, AcquireWrite(c) \/ RenewWrite(c) PROVE TypeOK'
    <3> DEFINE s == call[c]
    <3>1. s \in InFlight /\ (WriteWins(c) \/ WriteLoses(c))
      BY <2>3, WriteStep
    <3>2. CASE WriteWins(c)
      <4>1. PICK t \in Nat \ {0} : lease' = [lease EXCEPT ![s.key] = WrittenRow(s, t)]
        BY <3>2 DEF WriteWins
      <4>2. s.key \in Keys /\ WrittenRow(s, t) \in LeaseRow
        BY <3>1, WrittenRowType DEF InFlight
      <4>3. lease' \in [Keys -> MaybeRow]
        BY <4>1, <4>2 DEF MaybeRow
      <4>4. [s EXCEPT !.pc = "reload"] \in InFlight /\ [s EXCEPT !.pc = "reload"].pc = "reload"
        BY <3>1 DEF InFlight
      <4> QED BY <3>2, <4>3, <4>4 DEF WriteWins
    <3>3. CASE WriteLoses(c)
      BY <3>3 DEF WriteLoses
    <3> QED BY <3>1, <3>2, <3>3
  <2>5. ASSUME NEW c \in Calls, Reload(c) PROVE TypeOK'
    BY <2>5 DEF Reload, InFlight
  <2>6. ASSUME NEW c \in Calls, LoseCall(c) PROVE TypeOK'
    BY <2>6 DEF LoseCall
  <2>7. ASSUME NEW n \in Nodes, NEW k \in Keys, ReleaseLease(n, k) PROVE TypeOK'
    BY <2>7 DEF ReleaseLease, MaybeRow
  <2>8. CASE Tick
    BY <2>8 DEF Tick
  <2>9. CASE UNCHANGED vars
    BY <2>9 DEF vars
  <2> QED BY <2>1, <2>2, <2>3, <2>5, <2>6, <2>7, <2>8, <2>9 DEF Next
<1> QED BY <1>1, <1>2, PTL DEF Spec

-----------------------------------------------------------------------------
(* One gateway process and one TTL for every lease.                        *)
OneProcessOneTtl ==
    /\ SingleProcess
    /\ \A t, u \in Ttls : t = u

(* The inductive invariant behind mutual exclusion in one process: calls   *)
(* do not overlap, what a call saw is still in the table when it writes,   *)
(* and a node with a live record owns a row that lives at least as long.   *)
SerialCalls ==
    /\ \A c, d \in Calls : call[c] # Idle /\ call[d] # Idle => c = d
    /\ \A c \in Calls : call[c] # Idle =>
          LET s == call[c]
          IN  /\ s.at <= clock
              /\ s.pc \in {"acquire", "renew"} =>
                    /\ s.seen = lease[s.key]
                    /\ s.seen # NoLease => /\ s.seen.holder = s.node \/ Expired(s.seen, s.at)
                                          /\ s.seen.expires <= s.at + s.ttl
              /\ s.pc = "renew" => s.seen # NoLease /\ s.seen.holder = s.node
              /\ s.pc = "reload" => lease[s.key] # NoLease /\ lease[s.key].holder = s.node

RowBacksBelief ==
    \A n \in Nodes, k \in Keys :
        Believes(n, k) => /\ lease[k] # NoLease
                          /\ lease[k].holder = n
                          /\ held[n][k].expires <= lease[k].expires

TermsWithinTtl ==
    \A k \in Keys, ttl \in Ttls : lease[k] # NoLease => lease[k].expires <= clock + ttl

SerialInv == SerialCalls /\ RowBacksBelief /\ TermsWithinTtl

(* The numbers in the tables are naturals, read off the type invariant.    *)
LEMMA NumberTypes ==
    ASSUME TypeOK
    PROVE  /\ clock \in Nat
           /\ \A k \in Keys : lease[k] # NoLease => lease[k] \in LeaseRow /\ lease[k].expires \in Nat
           /\ \A n \in Nodes, k \in Keys : held[n][k] # NoLease => held[n][k].expires \in Nat
           /\ \A c \in Calls : call[c] # Idle =>
                 /\ call[c].node \in Nodes /\ call[c].key \in Keys
                 /\ call[c].at \in Nat /\ call[c].ttl \in Ttls /\ call[c].ttl \in Nat
<1>1. \A k \in Keys : lease[k] # NoLease => lease[k] \in LeaseRow
  BY DEF TypeOK, MaybeRow
<1>2. \A n \in Nodes, k \in Keys : held[n][k] # NoLease => held[n][k] \in LeaseRow
  BY DEF TypeOK, MaybeRow
<1>3. \A c \in Calls : call[c] # Idle => call[c] \in InFlight
  BY DEF TypeOK
<1>4. \A s \in InFlight : /\ s.node \in Nodes /\ s.key \in Keys
                          /\ s.at \in Nat /\ s.ttl \in Ttls /\ s.ttl \in Nat
  BY ConstantsAssumption DEF InFlight
<1>5. \A row \in LeaseRow : row.expires \in Nat
  BY DEF LeaseRow
<1> QED BY <1>1, <1>2, <1>3, <1>4, <1>5 DEF TypeOK

(* SerialInv is inductive for one process and one TTL: serialised calls     *)
(* write over the row they read, so a row changes hands only after its     *)
(* expiry, when no node can still believe in it.                           *)
LEMMA SerialInvInductive ==
    ASSUME OneProcessOneTtl, TypeOK, SerialInv, [Next]_vars
    PROVE  SerialInv'
<1> USE DEF SerialInv
<1>1. ASSUME NEW c \in Calls, NEW n \in Nodes, NEW k \in Keys, NEW ttl \in Ttls,
             AcquireRead(c, n, k, ttl) \/ RenewRead(c, n, k, ttl)
      PROVE  SerialInv'
  <2> DEFINE s == call'[c]
  <2>1. /\ UNCHANGED <<clock, lease, held>>
        /\ \A d \in Calls : d # c => call'[d] = Idle
        /\ s.pc \in {"acquire", "renew"} /\ s.node = n /\ s.key = k /\ s.at = clock
        /\ s.ttl = ttl /\ s.seen = lease[k]
        /\ s.seen # NoLease => s.seen.holder = n \/ Expired(s.seen, clock)
        /\ s.pc = "renew" => s.seen # NoLease /\ s.seen.holder = n
    BY <1>1 DEF AcquireRead, RenewRead, CanStart, OneProcessOneTtl, TypeOK
  <2>2. SerialCalls'
    BY <2>1, NumberTypes DEF SerialCalls, TermsWithinTtl
  <2> QED BY <2>1, <2>2 DEF RowBacksBelief, Believes, TermsWithinTtl
<1>2. ASSUME NEW c \in Calls, AcquireWrite(c) \/ RenewWrite(c)
      PROVE  SerialInv'
  <2> DEFINE s == call[c]
  <2>1. /\ s # Idle /\ s.pc \in {"acquire", "renew"}
        /\ s.key \in Keys /\ s.node \in Nodes /\ s.at \in Nat /\ s.ttl \in Nat /\ s.ttl \in Ttls
    BY <1>2, NumberTypes DEF AcquireWrite, RenewWrite
  <2>2. \A d \in Calls : d # c => call[d] = Idle
    BY <2>1 DEF SerialCalls
  <2>3. /\ s.at <= clock /\ s.seen = lease[s.key]
        /\ lease[s.key] # NoLease => /\ lease[s.key].holder = s.node \/ lease[s.key].expires <= s.at
                                     /\ lease[s.key].expires <= s.at + s.ttl
    BY <2>1 DEF SerialCalls, Expired
  <2>4. s \in InFlight /\ (WriteWins(c) \/ WriteLoses(c))
    BY <1>2, WriteStep
  <2>5. CASE WriteLoses(c)
    BY <2>5 DEF WriteLoses, TypeOK, SerialCalls, RowBacksBelief, Believes, TermsWithinTtl
  <2>6. CASE WriteWins(c)
    <3>0. /\ UNCHANGED <<clock, held>>
          /\ \A d \in Calls : d # c => call'[d] = Idle
          /\ call'[c] = [s EXCEPT !.pc = "reload"]
      BY <2>2, <2>6 DEF WriteWins, TypeOK
    <3>1. /\ \A k \in Keys : k # s.key => lease'[k] = lease[k]
          /\ lease'[s.key] # NoLease
          /\ lease'[s.key].holder = s.node /\ lease'[s.key].expires = s.at + s.ttl
      <4>1. PICK t \in Nat \ {0} : lease' = [lease EXCEPT ![s.key] = WrittenRow(s, t)]
        BY <2>6 DEF WriteWins
      <4>2. WrittenRow(s, t) # NoLease
        BY <2>4, WrittenRowType, ConstantsAssumption
      <4> QED BY <2>1, <4>1, <4>2 DEF TypeOK, WrittenRow
    <3>7. /\ call'[c].pc = "reload" /\ call'[c].node = s.node
          /\ call'[c].key = s.key /\ call'[c].at = s.at
      BY <2>4, <3>0 DEF InFlight
    <3>2. SerialCalls'
      BY <2>3, <3>0, <3>1, <3>7 DEF SerialCalls
    <3>3. TermsWithinTtl'
      <4> SUFFICES ASSUME NEW k \in Keys, NEW ttl \in Ttls, lease'[k] # NoLease
                   PROVE  lease'[k].expires <= clock' + ttl
        BY DEF TermsWithinTtl
      <4>1. CASE k = s.key
        <5>1. ttl = s.ttl /\ lease'[k].expires = s.at + s.ttl /\ clock' = clock
          BY <2>1, <3>0, <3>1, <4>1 DEF OneProcessOneTtl
        <5> QED BY <5>1, <2>1, <2>3, NumberTypes
      <4>2. CASE k # s.key
        BY <4>2, <3>0, <3>1 DEF TermsWithinTtl
      <4> QED BY <4>1, <4>2
    <3>4. RowBacksBelief'
      <4> SUFFICES ASSUME NEW n \in Nodes, NEW k \in Keys, Believes(n, k)'
                   PROVE  /\ lease'[k] # NoLease /\ lease'[k].holder = n
                          /\ held'[n][k].expires <= lease'[k].expires
        BY DEF RowBacksBelief
      <4>1. /\ Believes(n, k)
            /\ lease[k] # NoLease /\ lease[k].holder = n
            /\ held[n][k].expires <= lease[k].expires
        BY <3>0 DEF Believes, RowBacksBelief
      <4>2. CASE k = s.key
        <5>1. ~(lease[k].expires <= s.at)
          BY <4>1, <4>2, <2>1, <2>3, NumberTypes DEF Believes, Expired
        <5>2. lease[k].holder = s.node /\ lease[k].expires <= s.at + s.ttl
          BY <5>1, <4>1, <4>2, <2>3
        <5>3. /\ held[n][k].expires \in Nat /\ lease[k].expires \in Nat
              /\ s.at \in Nat /\ s.ttl \in Nat
          BY <4>1, <2>1, NumberTypes DEF Believes
        <5>4. held[n][k].expires <= s.at + s.ttl
          BY <5>2, <5>3, <4>1
        <5> QED BY <5>2, <5>4, <4>1, <4>2, <3>0, <3>1
      <4>3. CASE k # s.key
        BY <4>1, <4>3, <3>0, <3>1
      <4> QED BY <4>2, <4>3
    <3> QED BY <3>2, <3>3, <3>4
  <2> QED BY <2>4, <2>5, <2>6
<1>3. ASSUME NEW c \in Calls, Reload(c) \/ LoseCall(c)
      PROVE  SerialInv'
  <2>1. call' = [call EXCEPT ![c] = Idle] /\ UNCHANGED <<clock, lease>>
    BY <1>3 DEF Reload, LoseCall
  <2>2. SerialCalls' /\ TermsWithinTtl'
    BY <2>1 DEF SerialCalls, TermsWithinTtl, TypeOK
  <2>3. RowBacksBelief'
    <3>1. CASE held' = held
      BY <2>1, <3>1 DEF RowBacksBelief, Believes
    <3>2. CASE held' # held
      <4> DEFINE s == call[c]
      <4>1. /\ s # Idle /\ s.pc = "reload" /\ lease[s.key] # NoLease
            /\ held' = [held EXCEPT ![s.node][s.key] = lease[s.key]]
        BY <1>3, <3>2 DEF Reload, LoseCall
      <4>2. s.node \in Nodes /\ s.key \in Keys /\ lease[s.key].holder = s.node
        BY <4>1, NumberTypes DEF SerialCalls
      <4>3. /\ held'[s.node][s.key] = lease[s.key]
            /\ \A n \in Nodes, k \in Keys :
                  n # s.node \/ k # s.key => held'[n][k] = held[n][k]
        BY <4>1, <4>2 DEF TypeOK
      <4> QED BY <2>1, <4>1, <4>2, <4>3, NumberTypes DEF RowBacksBelief, Believes
    <3> QED BY <3>1, <3>2
  <2> QED BY <2>2, <2>3
<1>4. ASSUME NEW n \in Nodes, NEW k \in Keys, ReleaseLease(n, k)
      PROVE  SerialInv'
  <2>1. (\A c \in Calls : call'[c] = Idle) /\ clock' = clock
    BY <1>4 DEF ReleaseLease, OneProcessOneTtl
  <2>2. \A j \in Keys : lease'[j] = lease[j] \/ (j = k /\ lease'[j] = NoLease /\ lease[j].holder = n)
    BY <1>4 DEF ReleaseLease, TypeOK
  <2>3. /\ held'[n][k] = NoLease
        /\ \A m \in Nodes, j \in Keys : <<m, j>> # <<n, k>> => held'[m][j] = held[m][j]
    BY <1>4 DEF ReleaseLease, TypeOK
  <2>4. SerialCalls'
    BY <2>1 DEF SerialCalls
  <2>5. RowBacksBelief'
    BY <2>1, <2>2, <2>3 DEF RowBacksBelief, Believes
  <2>6. TermsWithinTtl'
    BY <2>1, <2>2 DEF TermsWithinTtl
  <2> QED BY <2>4, <2>5, <2>6
<1>5. CASE Tick
  <2>1. clock' = clock + 1 /\ UNCHANGED <<lease, call, held>>
    BY <1>5 DEF Tick
  <2>2. SerialCalls'
    BY <2>1, NumberTypes DEF SerialCalls
  <2>3. RowBacksBelief'
    BY <2>1, NumberTypes DEF RowBacksBelief, Believes, Expired
  <2>4. TermsWithinTtl'
    BY <2>1, NumberTypes, ConstantsAssumption DEF TermsWithinTtl
  <2> QED BY <2>2, <2>3, <2>4
<1>6. CASE UNCHANGED vars
  BY <1>6 DEF vars, SerialCalls, RowBacksBelief, Believes, TermsWithinTtl
<1> QED BY <1>1, <1>2, <1>3, <1>4, <1>5, <1>6 DEF Next

(* With one process and one TTL, no two calls overlap, every record a node  *)
(* may believe in is backed by its row and no term exceeds the TTL          *)
(* (acquireLease, renewLease, releaseLease).                                *)
THEOREM SerialInvHolds == ASSUME OneProcessOneTtl PROVE Spec => []SerialInv
<1>1. Init => SerialInv
  BY DEF Init, SerialInv, SerialCalls, RowBacksBelief, Believes, TermsWithinTtl
<1>2. TypeOK /\ SerialInv /\ [Next]_vars => SerialInv'
  BY SerialInvInductive
<1> QED BY <1>1, <1>2, TypeCorrect, PTL DEF Spec

(* With one process and one TTL no two nodes ever hold unexpired records    *)
(* of one lease, whatever is taken over, released, re-acquired or lost.     *)
THEOREM ExclusiveLease == ASSUME OneProcessOneTtl PROVE Spec => []MutualExclusion
<1>1. SerialInv => MutualExclusion
  BY DEF SerialInv, RowBacksBelief, MutualExclusion
<1> QED BY <1>1, SerialInvHolds, PTL

(* With one process and one TTL a lease row changes hands only after its    *)
(* expiry and under a larger fencing token.                                 *)
THEOREM FencedTakeover == ASSUME OneProcessOneTtl PROVE Spec => NoLiveLeaseClobbered
<1> DEFINE Fenced == \A k \in Keys :
               lease[k] # NoLease /\ lease'[k] # NoLease /\ lease'[k].holder # lease[k].holder
               => Expired(lease[k], clock) /\ lease'[k].token > lease[k].token
<1>1. TypeOK /\ SerialInv /\ [Next]_vars => [Fenced]_vars
  <2> SUFFICES ASSUME TypeOK, SerialInv, Next, NEW k \in Keys,
                      lease[k] # NoLease, lease'[k] # NoLease, lease'[k].holder # lease[k].holder
               PROVE  Expired(lease[k], clock) /\ lease'[k].token > lease[k].token
    OBVIOUS
  <2>1. PICK c \in Calls : AcquireWrite(c) \/ RenewWrite(c)
    BY DEF Next, AcquireRead, RenewRead, Reload, LoseCall, ReleaseLease, Tick, TypeOK
  <2> DEFINE s == call[c]
  <2>2. /\ s # Idle /\ s.pc \in {"acquire", "renew"} /\ s.key \in Keys /\ s.at \in Nat
        /\ s.at <= clock /\ s.seen = lease[s.key]
        /\ s.seen # NoLease => s.seen.holder = s.node \/ s.seen.expires <= s.at
        /\ s.pc = "renew" => s.seen # NoLease /\ s.seen.holder = s.node
    BY <2>1, NumberTypes DEF AcquireWrite, RenewWrite, SerialInv, SerialCalls, Expired
  <2>3. k = s.key /\ lease[k] \in LeaseRow
    BY <2>1, <2>2, NumberTypes DEF AcquireWrite, RenewWrite, TypeOK
  <2>4. /\ lease'[k].holder = s.node
        /\ s.pc = "acquire" => lease'[k].token = NextToken(s)
    BY <2>1, <2>2, <2>3 DEF AcquireWrite, RenewWrite, TypeOK
  <2>5. s.pc = "acquire" /\ lease[k].expires <= s.at
    BY <2>2, <2>3, <2>4
  <2>6. lease'[k].token = lease[k].token + 1
    BY <2>2, <2>3, <2>4, <2>5 DEF NextToken
  <2>7. lease[k].token \in Nat /\ lease[k].expires \in Nat /\ clock \in Nat
    BY <2>3 DEF LeaseRow, TypeOK
  <2> QED BY <2>2, <2>5, <2>6, <2>7 DEF Expired
<1> QED BY <1>1, TypeCorrect, SerialInvHolds, PTL DEF Spec, NoLiveLeaseClobbered

-----------------------------------------------------------------------------
(* Several gateways on one database, any TTLs.  A lease can then be taken   *)
(* from a holder that has just renewed it, but a token still tells holders  *)
(* apart until a release deletes the row and the next insert restarts the   *)
(* tokens at 1.                                                             *)

(* No row is deleted in a step.                                             *)
RowsKept == \A k \in Keys : lease[k] # NoLease => lease'[k] # NoLease

(* A record of a lease that was read from the table is not ahead of the     *)
(* row, and has the row's holder if it has the row's token.                 *)
Behind(r, k) ==
    r # NoLease =>
        /\ lease[k] # NoLease
        /\ r.token <= lease[k].token
        /\ r.token = lease[k].token => r.holder = lease[k].holder

ReadsBehind ==
    /\ \A n \in Nodes, k \in Keys : Behind(held[n][k], k)
    /\ \A c \in Calls : call[c] # Idle => Behind(call[c].seen, call[c].key)

RenewsOwn ==
    \A c \in Calls : call[c] # Idle /\ call[c].pc = "renew" => call[c].seen.holder = call[c].node

(* A fencing token names one holder among the records that nodes were       *)
(* given, live or expired.                                                  *)
TokenNamesHolder ==
    \A n, m \in Nodes, k \in Keys :
        /\ held[n][k] # NoLease /\ held[m][k] # NoLease
        /\ held[n][k].token = held[m][k].token
        => held[n][k].holder = held[m][k].holder

FenceInv == ReadsBehind /\ RenewsOwn /\ TokenNamesHolder

(* A row is only ever replaced under a token that is not smaller, and a new *)
(* holder always gets a larger one.                                         *)
TokenGrows ==
    \A k \in Keys : lease[k] # NoLease =>
        /\ lease'[k].token >= lease[k].token
        /\ lease'[k].holder # lease[k].holder => lease'[k].token > lease[k].token

(* The write of an acquire or a renew that wins, seen from the row it       *)
(* replaces: the token it read is still there, so is the holder.            *)
LEMMA SharedWrite ==
    ASSUME TypeOK, FenceInv, NEW c \in Calls, AcquireWrite(c) \/ RenewWrite(c), WriteWins(c)
    PROVE  LET s == call[c]
           IN  /\ s \in InFlight /\ s # Idle
               /\ \A k \in Keys : k # s.key => lease'[k] = lease[k]
               /\ lease'[s.key] \in LeaseRow /\ lease'[s.key] # NoLease
               /\ lease[s.key] # NoLease =>
                     /\ lease'[s.key].token >= lease[s.key].token
                     /\ lease'[s.key].token = lease[s.key].token =>
                           lease'[s.key].holder = lease[s.key].holder
<1> DEFINE s == call[c]
<1>1. s \in InFlight /\ s # Idle /\ s.key \in Keys /\ s.seen \in MaybeRow
  BY WriteStep DEF AcquireWrite, RenewWrite, InFlight
<1>2. PICK t \in Nat \ {0} : lease' = [lease EXCEPT ![s.key] = WrittenRow(s, t)]
  BY DEF WriteWins
<1>3. WrittenRow(s, t) \in LeaseRow /\ WrittenRow(s, t) # NoLease
  BY <1>1, WrittenRowType, ConstantsAssumption
<1>4. /\ lease'[s.key] = WrittenRow(s, t)
      /\ \A k \in Keys : k # s.key => lease'[k] = lease[k]
  BY <1>1, <1>2 DEF TypeOK
<1>5. lease'[s.key].holder = s.node
  BY <1>4 DEF WrittenRow
<1>6. ASSUME lease[s.key] # NoLease
      PROVE  /\ lease'[s.key].token >= lease[s.key].token
             /\ lease'[s.key].token = lease[s.key].token =>
                   lease'[s.key].holder = lease[s.key].holder
  <2>1. call'[c] # Idle
    <3>1. call'[c] = [s EXCEPT !.pc = "reload"]
      BY DEF WriteWins, TypeOK
    <3>2. [s EXCEPT !.pc = "reload"] \in InFlight
      BY <1>1 DEF InFlight
    <3> QED BY <3>1, <3>2, ConstantsAssumption
  <2>2. /\ s.seen # NoLease /\ s.seen.token = lease[s.key].token
        /\ lease'[s.key].token = (IF s.pc = "renew" THEN s.seen.token ELSE NextToken(s))
        /\ s.pc \in {"acquire", "renew"}
    <3>1. CASE AcquireWrite(c)
      BY <1>1, <1>6, <2>1, <3>1 DEF AcquireWrite, TokenUnchanged, TypeOK
    <3>2. CASE RenewWrite(c)
      BY <1>1, <1>6, <2>1, <3>2 DEF RenewWrite, TokenUnchanged, TypeOK
    <3> QED BY <3>1, <3>2
  <2>3. s.seen.holder = lease[s.key].holder
    BY <1>1, <2>2 DEF FenceInv, ReadsBehind, Behind
  <2>4. s.pc = "renew" => s.seen.holder = s.node
    BY <1>1 DEF FenceInv, RenewsOwn
  <2>5. lease[s.key].token \in Nat
    BY <1>1, <1>6 DEF TypeOK, MaybeRow, LeaseRow
  <2> QED BY <1>5, <2>2, <2>3, <2>4, <2>5 DEF NextToken
<1> QED BY <1>1, <1>3, <1>4, <1>6

(* A record stays behind its row when the row moves forward.                *)
LEMMA BehindKept ==
    ASSUME NEW r \in MaybeRow, NEW k \in Keys, Behind(r, k),
           lease[k] # NoLease => /\ lease[k] \in LeaseRow /\ lease'[k] \in LeaseRow
                                 /\ lease'[k] # NoLease
                                 /\ lease'[k].token >= lease[k].token
                                 /\ lease'[k].token = lease[k].token =>
                                        lease'[k].holder = lease[k].holder
    PROVE  r # NoLease => /\ lease'[k] # NoLease
                          /\ r.token <= lease'[k].token
                          /\ r.token = lease'[k].token => r.holder = lease'[k].holder
<1>1. CASE r # NoLease
  <2>1. /\ lease[k] # NoLease /\ r.token <= lease[k].token
        /\ r.token = lease[k].token => r.holder = lease[k].holder
    BY <1>1 DEF Behind
  <2>2. r.token \in Nat /\ lease[k].token \in Nat /\ lease'[k].token \in Nat
    BY <1>1, <2>1 DEF MaybeRow, LeaseRow
  <2> QED BY <2>1, <2>2
<1> QED BY <1>1

(* The invariant is kept by every step that deletes no row.                 *)
LEMMA FenceStep ==
    ASSUME TypeOK, FenceInv, [Next]_vars, RowsKept
    PROVE  FenceInv' /\ (Next => TokenGrows)
<1> USE DEF FenceInv
<1>0. /\ \A n \in Nodes, k \in Keys : held[n][k] \in MaybeRow
      /\ \A k \in Keys : lease[k] # NoLease => lease[k] \in LeaseRow /\ lease[k].token \in Nat
      /\ \A c \in Calls : call[c] # Idle => /\ call[c].seen \in MaybeRow /\ call[c].key \in Keys
                                            /\ call[c].node \in Nodes
  BY DEF TypeOK, MaybeRow, LeaseRow, InFlight
<1>1. ASSUME NEW c \in Calls, NEW n \in Nodes, NEW k \in Keys, NEW ttl \in Ttls,
             AcquireRead(c, n, k, ttl) \/ RenewRead(c, n, k, ttl)
      PROVE  FenceInv' /\ TokenGrows
  <2> DEFINE s == call'[c]
  <2>1. /\ UNCHANGED <<lease, held>> /\ \A d \in Calls : d # c => call'[d] = call[d]
        /\ s.key = k /\ s.seen = lease[k] /\ s.node = n
        /\ s.pc = "renew" => s.seen.holder = n
    BY <1>1 DEF AcquireRead, RenewRead, TypeOK
  <2>2. Behind(lease[k], k)
    BY <1>0 DEF Behind
  <2>3. ReadsBehind'
    BY <2>1, <2>2 DEF ReadsBehind, Behind
  <2>4. RenewsOwn'
    BY <2>1 DEF RenewsOwn
  <2> QED BY <1>0, <2>1, <2>3, <2>4 DEF TokenNamesHolder, TokenGrows
<1>2. ASSUME NEW c \in Calls, AcquireWrite(c) \/ RenewWrite(c), WriteWins(c)
      PROVE  FenceInv' /\ TokenGrows
  <2> DEFINE s == call[c]
  <2>1. /\ s \in InFlight /\ s # Idle
        /\ \A k \in Keys : k # s.key => lease'[k] = lease[k]
        /\ lease'[s.key] \in LeaseRow /\ lease'[s.key] # NoLease
        /\ lease[s.key] # NoLease =>
              /\ lease'[s.key].token >= lease[s.key].token
              /\ lease'[s.key].token = lease[s.key].token =>
                    lease'[s.key].holder = lease[s.key].holder
    BY <1>2, SharedWrite
  <2>2. /\ held' = held /\ \A d \in Calls : d # c => call'[d] = call[d]
        /\ call'[c] = [s EXCEPT !.pc = "reload"]
    BY <1>2 DEF WriteWins, TypeOK
  <2>3. call'[c].pc = "reload" /\ call'[c].key = s.key /\ call'[c].seen = s.seen
    BY <2>1, <2>2 DEF InFlight
  <2>4. \A k \in Keys : lease[k] # NoLease =>
            /\ lease[k] \in LeaseRow /\ lease'[k] \in LeaseRow /\ lease'[k] # NoLease
            /\ lease'[k].token >= lease[k].token
            /\ lease'[k].token = lease[k].token => lease'[k].holder = lease[k].holder
    BY <1>0, <2>1
  <2>5. \A n \in Nodes, k \in Keys : Behind(held[n][k], k)'
    BY <1>0, <2>2, <2>4, BehindKept DEF ReadsBehind, Behind
  <2>6. ASSUME NEW d \in Calls, call'[d] # Idle
        PROVE  Behind(call[d].seen, call[d].key)' /\ call[d] # Idle
               /\ call'[d].seen = call[d].seen /\ call'[d].key = call[d].key
    <3>1. call[d] # Idle /\ call'[d].seen = call[d].seen /\ call'[d].key = call[d].key
      BY <2>1, <2>2, <2>3, <2>6
    <3>2. call[d].seen \in MaybeRow /\ call[d].key \in Keys /\ Behind(call[d].seen, call[d].key)
      BY <1>0, <3>1 DEF ReadsBehind
    <3> QED BY <2>4, <3>1, <3>2, BehindKept DEF Behind
  <2>7. ReadsBehind'
    BY <2>5, <2>6 DEF ReadsBehind, Behind
  <2>8. RenewsOwn'
    BY <2>2, <2>3 DEF RenewsOwn
  <2>9. TokenNamesHolder'
    BY <2>2 DEF TokenNamesHolder
  <2>10. TokenGrows
    <3>1. \A k \in Keys : lease[k] # NoLease => lease[k].token \in Nat /\ lease'[k].token \in Nat
      BY <1>0, <2>4 DEF LeaseRow
    <3> QED BY <2>4, <3>1 DEF TokenGrows
  <2> QED BY <2>7, <2>8, <2>9, <2>10
<1>3. ASSUME NEW c \in Calls, WriteLoses(c) \/ LoseCall(c)
      PROVE  FenceInv' /\ TokenGrows
  <2>1. UNCHANGED <<lease, held>> /\ \A d \in Calls : call'[d] \in {call[d], Idle}
    BY <1>3 DEF WriteLoses, LoseCall, TypeOK
  <2> QED BY <1>0, <2>1 DEF ReadsBehind, Behind, RenewsOwn, TokenNamesHolder, TokenGrows
<1>4. ASSUME NEW c \in Calls, Reload(c)
      PROVE  FenceInv' /\ TokenGrows
  <2> DEFINE s == call[c]
  <2>1. /\ s # Idle /\ lease' = lease /\ \A d \in Calls : call'[d] \in {call[d], Idle}
        /\ held' = IF lease[s.key] = NoLease THEN held
                   ELSE [held EXCEPT ![s.node][s.key] = lease[s.key]]
    BY <1>4 DEF Reload, TypeOK
  <2>2. \A n \in Nodes, k \in Keys : held'[n][k] = held[n][k]
            \/ (lease[k] # NoLease /\ held'[n][k] = lease[k])
    BY <1>0, <2>1 DEF TypeOK
  <2>3. \A k \in Keys : Behind(lease[k], k)
    BY <1>0 DEF Behind
  <2>4. ReadsBehind'
    BY <2>1, <2>2, <2>3 DEF ReadsBehind, Behind
  <2>5. TokenNamesHolder'
    BY <1>0, <2>2 DEF ReadsBehind, Behind, TokenNamesHolder
  <2>6. RenewsOwn'
    BY <2>1 DEF RenewsOwn
  <2> QED BY <1>0, <2>1, <2>4, <2>5, <2>6 DEF TokenGrows
<1>5. ASSUME NEW n \in Nodes, NEW k \in Keys, ReleaseLease(n, k)
      PROVE  FenceInv' /\ TokenGrows
  <2>1. call' = call /\ lease' = lease
    BY <1>5 DEF ReleaseLease, RowsKept, TypeOK
  <2>2. \A m \in Nodes, j \in Keys : held'[m][j] \in {held[m][j], NoLease}
    BY <1>5 DEF ReleaseLease, TypeOK
  <2> QED BY <1>0, <2>1, <2>2 DEF ReadsBehind, Behind, RenewsOwn, TokenNamesHolder, TokenGrows
<1>6. CASE Tick
  BY <1>0, <1>6 DEF Tick, ReadsBehind, Behind, RenewsOwn, TokenNamesHolder, TokenGrows
<1>7. CASE UNCHANGED vars
  BY <1>0, <1>7 DEF vars, ReadsBehind, Behind, RenewsOwn, TokenNamesHolder, TokenGrows
<1> QED BY <1>1, <1>2, <1>3, <1>4, <1>5, <1>6, <1>7, WriteStep DEF Next

(* Gateways that share a database, with any TTLs and interleavings: as long *)
(* as releaseLease deletes no row, the fencing token of a record names one  *)
(* holder for good (acquireLease, renewLease).                              *)
THEOREM TokensNameHolders == Spec /\ [][RowsKept]_vars => []TokenNamesHolder
<1>1. Init => FenceInv
  BY DEF Init, FenceInv, ReadsBehind, Behind, RenewsOwn, TokenNamesHolder
<1>2. TypeOK /\ FenceInv /\ [Next]_vars /\ [RowsKept]_vars => FenceInv'
  <2>1. UNCHANGED vars => RowsKept
    BY DEF vars, RowsKept
  <2> QED BY <2>1, FenceStep
<1>3. FenceInv => TokenNamesHolder
  BY DEF FenceInv
<1> QED BY <1>1, <1>2, <1>3, TypeCorrect, PTL DEF Spec

(* Under the same condition a write never takes a row back to a smaller     *)
(* token, and a new holder always has a larger one: the compare-and-swap of *)
(* updateLeaseStmt orders the holders even when it takes a live lease.      *)
THEOREM TokensGrow == Spec /\ [][RowsKept]_vars => [][TokenGrows]_vars
<1>1. Init => FenceInv
  BY DEF Init, FenceInv, ReadsBehind, Behind, RenewsOwn, TokenNamesHolder
<1>2. TypeOK /\ FenceInv /\ [Next]_vars /\ [RowsKept]_vars => FenceInv' /\ [TokenGrows]_vars
  <2>1. UNCHANGED vars => RowsKept
    BY DEF vars, RowsKept
  <2> QED BY <2>1, FenceStep
<1> QED BY <1>1, <1>2, TypeCorrect, PTL DEF Spec
=============================================================================
