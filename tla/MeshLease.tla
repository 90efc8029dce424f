------------------------------ MODULE MeshLease ------------------------------
(****************************************************************************)
(* The mesh lease table: MeshRepository.acquireLease, renewLease and        *)
(* releaseLease.  A repository call is several SQL statements: it samples   *)
(* the clock, reads the row, writes with a compare-and-swap on the fencing  *)
(* token it read, and re-reads the row it returns.  One gateway process     *)
(* runs its repository calls one after the other; several gateways on one   *)
(* Postgres database interleave their statements.                           *)
(****************************************************************************)
EXTENDS Naturals

CONSTANTS Nodes,          \* holder_node_id values
          Keys,           \* lease_key values
          Calls,          \* repository calls that can be in flight
          Ttls,           \* requested or default ttlSeconds
          MaxClock,       \* bound on the wall clock
          SingleProcess,  \* TRUE: one gateway serialises its calls
          NoLease,        \* no row / no record
          Idle            \* a call slot that is not in use

LeaseRow == [holder : Nodes, token : Nat \ {0}, expires : Nat]

MaybeRow == LeaseRow \cup {NoLease}

InFlight == [pc : {"acquire", "renew", "reload"}, node : Nodes, key : Keys,
             at : Nat, ttl : Ttls, seen : MaybeRow]

ASSUME ConstantsAssumption ==
    /\ Ttls \subseteq Nat \ {0}
    /\ MaxClock \in Nat
    /\ SingleProcess \in BOOLEAN
    /\ NoLease \notin LeaseRow
    /\ Idle \notin InFlight

VARIABLES clock,   \* new Date() of the gateways
          lease,   \* table mesh_leases
          call,    \* program counter and locals of each call
          held     \* the MeshLeaseRecord last returned to each node

vars == <<clock, lease, call, held>>

Init ==
    /\ clock = 0
    /\ lease = [k \in Keys |-> NoLease]
    /\ call = [c \in Calls |-> Idle]
    /\ held = [n \in Nodes |-> [k \in Keys |-> NoLease]]

-----------------------------------------------------------------------------
(* A new call may start: at once when gateways share the database, after   *)
(* the running call when one process serialises them.                      *)
CanStart(c) ==
    /\ call[c] = Idle
    /\ SingleProcess => \A d \in Calls : call[d] = Idle

Expired(row, at) == row.expires <= at

(* Mutant: the expiry of the row is tested against the end of the new term. *)
AcquireReadEarly(c, n, k, ttl) ==
    /\ CanStart(c)
    /\ lease[k] # NoLease => lease[k].holder = n \/ Expired(lease[k], clock + ttl)
    /\ call' = [call EXCEPT ![c] =
           [pc |-> "acquire", node |-> n, key |-> k, at |-> clock,
            ttl |-> ttl, seen |-> lease[k]]]
    /\ UNCHANGED <<clock, lease, held>>

(* acquireLease up to its write.  A live lease of another node throws      *)
(* ConflictError before anything is written, so that case is no step.      *)
AcquireRead(c, n, k, ttl) ==
    /\ CanStart(c)
    /\ lease[k] # NoLease => lease[k].holder = n \/ Expired(lease[k], clock)
    /\ call' = [call EXCEPT ![c] =
           [pc |-> "acquire", node |-> n, key |-> k, at |-> clock,
            ttl |-> ttl, seen |-> lease[k]]]
    /\ UNCHANGED <<clock, lease, held>>

(* updateLeaseStmt's WHERE clause: the row exists and still carries the    *)
(* fencing token the call read.                                            *)
TokenUnchanged(s) ==
    lease[s.key] # NoLease /\ lease[s.key].token = s.seen.token

(* Mutants: takeover keeps the token; the token counts down from the row. *)
NextTokenKept(s) == s.seen.token
NextTokenOffByOne(s) ==
    IF s.seen.holder = s.node THEN s.seen.token - 1 ELSE s.seen.token

NextToken(s) ==
    IF s.seen.holder = s.node THEN s.seen.token ELSE s.seen.token + 1

(* The write of acquireLease: INSERT with token 1 when no row was seen (a  *)
(* row inserted since makes it fail on the primary key), else the CAS.     *)
AcquireWrite(c) ==
    LET s == call[c]
        fresh == s.seen = NoLease
        row == [holder  |-> s.node,
                token   |-> IF fresh THEN 1 ELSE NextToken(s),
                expires |-> s.at + s.ttl]
        wins == IF fresh THEN lease[s.key] = NoLease ELSE TokenUnchanged(s)
    IN  /\ s # Idle /\ s.pc = "acquire"
        /\ \/ /\ wins
              /\ lease' = [lease EXCEPT ![s.key] = row]
              /\ call' = [call EXCEPT ![c].pc = "reload"]
           \/ /\ ~wins
              /\ call' = [call EXCEPT ![c] = Idle]
              /\ UNCHANGED lease
        /\ UNCHANGED <<clock, held>>

(* renewLease up to its write; the request carries the token of the record *)
(* the node was given.  A mismatch or an expired row throws.               *)
RenewRead(c, n, k, ttl) ==
    /\ CanStart(c)
    /\ held[n][k] # NoLease /\ lease[k] # NoLease
    /\ lease[k].holder = n /\ lease[k].token = held[n][k].token
    /\ ~Expired(lease[k], clock)
    /\ call' = [call EXCEPT ![c] =
           [pc |-> "renew", node |-> n, key |-> k, at |-> clock,
            ttl |-> ttl, seen |-> lease[k]]]
    /\ UNCHANGED <<clock, lease, held>>

RenewWrite(c) ==
    LET s == call[c]
        row == [holder |-> s.node, token |-> s.seen.token, expires |-> s.at + s.ttl]
    IN  /\ s # Idle /\ s.pc = "renew"
        /\ \/ /\ TokenUnchanged(s)
              /\ lease' = [lease EXCEPT ![s.key] = row]
              /\ call' = [call EXCEPT ![c].pc = "reload"]
           \/ /\ ~TokenUnchanged(s)
              /\ call' = [call EXCEPT ![c] = Idle]
              /\ UNCHANGED lease
        /\ UNCHANGED <<clock, held>>

(* getLease at the end of acquireLease and renewLease: the caller is given *)
(* whatever the row says now, or NotFoundError.                            *)
Reload(c) ==
    LET s == call[c]
    IN  /\ s # Idle /\ s.pc = "reload"
        /\ held' = IF lease[s.key] = NoLease THEN held
                   ELSE [held EXCEPT ![s.node][s.key] = lease[s.key]]
        /\ call' = [call EXCEPT ![c] = Idle]
        /\ UNCHANGED <<clock, lease>>

(* releaseLease: one DELETE guarded by holder and token; the node forgets  *)
(* its record whether or not the row was still its own.                    *)
ReleaseLease(n, k) ==
    /\ SingleProcess => \A d \in Calls : call[d] = Idle
    /\ held[n][k] # NoLease
    /\ lease' = IF /\ lease[k] # NoLease
                   /\ lease[k].holder = n
                   /\ lease[k].token = held[n][k].token
                THEN [lease EXCEPT ![k] = NoLease] ELSE lease
    /\ held' = [held EXCEPT ![n][k] = NoLease]
    /\ UNCHANGED <<clock, call>>

(* The gateway running the call dies, or its reply is lost: what it wrote  *)
(* stays, its caller learns nothing.                                       *)
LoseCall(c) ==
    /\ call[c] # Idle
    /\ call' = [call EXCEPT ![c] = Idle]
    /\ UNCHANGED <<clock, lease, held>>

Tick ==
    /\ clock < MaxClock
    /\ clock' = clock + 1
    /\ UNCHANGED <<lease, call, held>>

Next ==
    \/ \E c \in Calls, n \in Nodes, k \in Keys, ttl \in Ttls :
          AcquireRead(c, n, k, ttl) \/ RenewRead(c, n, k, ttl)
    \/ \E c \in Calls : AcquireWrite(c) \/ RenewWrite(c) \/ Reload(c) \/ LoseCall(c)
    \/ \E n \in Nodes, k \in Keys : ReleaseLease(n, k)
    \/ Tick

Spec == Init /\ [][Next]_vars

-----------------------------------------------------------------------------
(* Type invariant of the table, the calls in flight and the records the    *)
(* nodes were given.                                                       *)
TypeOK ==
    /\ clock \in Nat
    /\ lease \in [Keys -> MaybeRow]
    /\ call \in [Calls -> InFlight \cup {Idle}]
    /\ \A c \in Calls : call[c] # Idle /\ call[c].pc = "renew" => call[c].seen # NoLease
    /\ held \in [Nodes -> [Keys -> MaybeRow]]

Believes(n, k) == held[n][k] # NoLease /\ ~Expired(held[n][k], clock)

(* Mutual exclusion, as the nodes see it: no two nodes hold an unexpired   *)
(* lease record for one key, through takeovers, releases, re-acquisitions  *)
(* and lost replies (acquireLease, renewLease, releaseLease).              *)
MutualExclusion ==
    \A n, m \in Nodes, k \in Keys : Believes(n, k) /\ Believes(m, k) => n = m

(* A lease row passes to another node only once it has expired and always  *)
(* under a new fencing token, so that a write carrying the old holder's    *)
(* token can be told from the new holder's: what the CAS of                *)
(* updateLeaseStmt is there to guarantee.                                  *)
NoLiveLeaseClobbered ==
    [][\A k \in Keys :
          lease[k] # NoLease /\ lease'[k] # NoLease /\ lease'[k].holder # lease[k].holder
          => Expired(lease[k], clock) /\ lease'[k].token > lease[k].token]_vars
=============================================================================
