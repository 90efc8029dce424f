--------------------------- MODULE MeshSessionOwner ---------------------------
(****************************************************************************)
(* Ownership of one mesh session: MeshRepository.claimSessionOwner and      *)
(* getSessionOwner.  A claim reads the row, decides whether it may take     *)
(* over, writes with a compare-and-swap on the epoch it read, and returns   *)
(* what the row says afterwards.  Claims of several gateways on one         *)
(* database interleave between these statements.  Every statement names     *)
(* one session, so sessions are independent; rows are never deleted.        *)
(****************************************************************************)
EXTENDS Naturals

CONSTANTS Nodes,      \* ownerNodeId values
          Calls,      \* claims that can be in flight
          MaxEpoch,   \* bound on the epoch
          NoRow,      \* no row / no record
          Idle        \* a call slot that is not in use

OwnerRow == [owner : Nodes, epoch : Nat \ {0}]

MaybeRow == OwnerRow \cup {NoRow}

(* expectedEpoch of a request; 0 stands for undefined, epochs start at 1.  *)
ExpectedEpochs == 0..MaxEpoch

InFlight == [pc : {"write", "reload"}, node : Nodes, force : BOOLEAN,
             expected : ExpectedEpochs, seen : MaybeRow]

ASSUME ConstantsAssumption ==
    /\ MaxEpoch \in Nat
    /\ NoRow \notin OwnerRow
    /\ Idle \notin InFlight

VARIABLES row,    \* the session's row of mesh_session_owners
          call,   \* program counter and locals of each claim
          told    \* the MeshSessionOwnerRecord last returned to each node

vars == <<row, call, told>>

Init ==
    /\ row = NoRow
    /\ call = [c \in Calls |-> Idle]
    /\ told = [n \in Nodes |-> NoRow]

-----------------------------------------------------------------------------
(* Mutant: any request that names an epoch may take over. *)
CanTakeOverAnyEpoch(seen, n, force, expected) ==
    force \/ seen.owner = n \/ expected # 0

CanTakeOver(seen, n, force, expected) ==
    force \/ seen.owner = n \/ expected = seen.epoch

(* claimSessionOwner up to its write; a claim that may not take over       *)
(* throws ConflictError before anything is written.                        *)
ClaimRead(c, n, force, expected) ==
    /\ call[c] = Idle
    /\ row # NoRow => /\ CanTakeOver(row, n, force, expected)
                      /\ row.epoch < MaxEpoch
    /\ call' = [call EXCEPT ![c] =
           [pc |-> "write", node |-> n, force |-> force,
            expected |-> expected, seen |-> row]]
    /\ UNCHANGED <<row, told>>

(* Mutant: the update is not conditional on the epoch that was read.       *)
WinsBlind(s) == IF s.seen = NoRow THEN row = NoRow ELSE row # NoRow

(* The INSERT of a first claim fails on the primary key when another claim *)
(* came first; updateSessionOwnerStmt matches the epoch that was read.     *)
Wins(s) ==
    IF s.seen = NoRow THEN row = NoRow
    ELSE row # NoRow /\ row.epoch = s.seen.epoch

(* Mutant: a first claim starts from epoch zero. *)
NextEpochFromZero(s) == IF s.seen = NoRow THEN 0 ELSE s.seen.epoch + 1

NextEpoch(s) == IF s.seen = NoRow THEN 1 ELSE s.seen.epoch + 1

ClaimWrite(c) ==
    LET s == call[c]
    IN  /\ s # Idle /\ s.pc = "write"
        /\ \/ /\ Wins(s)
              /\ row' = [owner |-> s.node, epoch |-> NextEpoch(s)]
              /\ call' = [call EXCEPT ![c].pc = "reload"]
           \/ /\ ~Wins(s)
              /\ call' = [call EXCEPT ![c] = Idle]
              /\ UNCHANGED row
        /\ UNCHANGED told

(* getSessionOwner at the end of a claim: the claimant is given whatever   *)
(* the row says by then, possibly another node's claim.                    *)
Reload(c) ==
    LET s == call[c]
    IN  /\ s # Idle /\ s.pc = "reload"
        /\ told' = [told EXCEPT ![s.node] = row]
        /\ call' = [call EXCEPT ![c] = Idle]
        /\ UNCHANGED row

(* A node asks who owns the session; NotFoundError changes nothing. *)
GetSessionOwner(n) ==
    /\ row # NoRow
    /\ told' = [told EXCEPT ![n] = row]
    /\ UNCHANGED <<row, call>>

(* The gateway running the claim dies, or its reply is lost. *)
LoseCall(c) ==
    /\ call[c] # Idle
    /\ call' = [call EXCEPT ![c] = Idle]
    /\ UNCHANGED <<row, told>>

Next ==
    \/ \E c \in Calls, n \in Nodes, force \in BOOLEAN, expected \in ExpectedEpochs :
          ClaimRead(c, n, force, expected)
    \/ \E c \in Calls : ClaimWrite(c) \/ Reload(c) \/ LoseCall(c)
    \/ \E n \in Nodes : GetSessionOwner(n)

Spec == Init /\ [][Next]_vars

-----------------------------------------------------------------------------
(* Type invariant of the row, the claims in flight and the records nodes    *)
(* were given; a claim only waits for its reload once there is a row.       *)
TypeOK ==
    /\ row \in MaybeRow
    /\ call \in [Calls -> InFlight \cup {Idle}]
    /\ \A c \in Calls : call[c] # Idle /\ call[c].pc = "reload" => row # NoRow
    /\ told \in [Nodes -> MaybeRow]

(* A record that was read from the table, by whoever reads it, is not ahead *)
(* of the row, and an epoch names its owner.                                *)
Faithful(r) ==
    r # NoRow => /\ row # NoRow
                 /\ r.epoch <= row.epoch
                 /\ r.epoch = row.epoch => r = row

ReadsFaithful ==
    /\ \A n \in Nodes : Faithful(told[n])
    /\ \A c \in Calls : call[c] # Idle => Faithful(call[c].seen)

(* No split-brain owner: two records that nodes were given, by claims or    *)
(* by reads, through lost replies and late reloads, never name different    *)
(* owners for one epoch, which is what the epoch compare-and-swap of        *)
(* claimSessionOwner promises.                                              *)
OneOwnerPerEpoch ==
    \A n, m \in Nodes :
        told[n] # NoRow /\ told[m] # NoRow /\ told[n].epoch = told[m].epoch
        => told[n].owner = told[m].owner

(* Ownership passes to another node only under the next epoch and only to   *)
(* a claim that is forced or named exactly the epoch it replaces, whatever  *)
(* happened between that claim's read and its write (claimSessionOwner).    *)
TakeoverNamed ==
    [][row # NoRow /\ row' # row /\ row'.owner # row.owner
       => /\ row'.epoch = row.epoch + 1
          /\ \E c \in Calls : /\ call[c] # Idle /\ call[c].node = row'.owner
                              /\ call[c].force \/ call[c].expected = row.epoch]_vars
=============================================================================
