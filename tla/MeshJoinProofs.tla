---------------------------- MODULE MeshJoinProofs ----------------------------
(****************************************************************************)
(* Mesh membership, for any nodes, tokens, joins, settings changes and      *)
(* crashes.  The invariant says, for each phase of a settings change, which *)
(* configuration the options in memory are, and that the rows of the        *)
(* previous options and the rollback handle together still hold the local   *)
(* artifacts.                                                               *)
(****************************************************************************)
EXTENDS MeshJoin, TLAPS

(* The writes of the two tables, by what they do to each row. *)

LEMMA IssuedRow ==
    ASSUME TypeOK, NEW t \in Tokens
    PROVE  /\ Issued(t) \in TokenRow /\ Issued(t) # NoRow
           /\ Used(Issued(t)) <=> Used(tokens[t])
<1>1. [expires |-> clock + Ttl, used |-> FALSE] \in [expires : Nat, used : BOOLEAN]
  BY ConstantsAssumption DEF TypeOK
<1>2. CASE Used(tokens[t])
  BY <1>2 DEF Issued, Used, TypeOK
<1>3. CASE ~Used(tokens[t])
  BY <1>1, <1>3, ConstantsAssumption DEF Issued, Used, TokenRow
<1> QED BY <1>2, <1>3

LEMMA PersistStep ==
    ASSUME TypeOK, NEW o \in Options, PersistOptionsRows(o)
    PROVE  /\ nodes' \in [Nodes -> NodeRow] /\ tokens' \in [Tokens -> TokenRow]
           /\ nodes'[o.node] # NoRow
           /\ o.token # NoToken => tokens'[o.token] # NoRow
           /\ \A n \in Nodes : nodes[n] # NoRow => nodes'[n] # NoRow
           /\ \A t \in Tokens : tokens[t] # NoRow => tokens'[t] # NoRow
           /\ \A t \in Tokens : Used(tokens'[t]) <=> Used(tokens[t])
<1>1. o.node \in Nodes /\ o.token \in Tokens \cup {NoToken}
  BY DEF Options
<1>2. /\ nodes' = [nodes EXCEPT ![o.node] = "local"]
      /\ tokens' = [t \in Tokens |-> IF t = o.token THEN Issued(t) ELSE tokens[t]]
  BY DEF PersistOptionsRows
<1>3. nodes' \in [Nodes -> NodeRow] /\ tokens' \in [Tokens -> TokenRow]
  BY <1>1, <1>2, IssuedRow DEF TypeOK, NodeRow
<1>4. "local" # NoRow
  BY ConstantsAssumption
<1>5. nodes'[o.node] # NoRow /\ \A n \in Nodes : nodes[n] # NoRow => nodes'[n] # NoRow
  BY <1>1, <1>2, <1>4 DEF TypeOK
<1>6. /\ o.token # NoToken => tokens'[o.token] # NoRow
      /\ \A t \in Tokens : tokens[t] # NoRow => tokens'[t] # NoRow
      /\ \A t \in Tokens : Used(tokens'[t]) <=> Used(tokens[t])
  BY <1>1, <1>2, IssuedRow
<1> QED BY <1>3, <1>5, <1>6

LEMMA SnapshotType ==
    ASSUME TypeOK, NEW o \in Options
    PROVE  /\ SnapshotOf(o) \in Snapshot
           /\ SnapshotOf(o).id = o.node /\ SnapshotOf(o).node = nodes[o.node]
           /\ SnapshotOf(o).of = o.token
           /\ o.token # NoToken => SnapshotOf(o).token = tokens[o.token]
<1>1. o.node \in Nodes /\ o.token \in Tokens \cup {NoToken} /\ NoRow \in TokenRow
  BY DEF Options, TokenRow
<1>2. nodes[o.node] \in NodeRow /\ (IF o.token = NoToken THEN NoRow ELSE tokens[o.token]) \in TokenRow
  BY <1>1 DEF TypeOK
<1> QED BY <1>1, <1>2 DEF SnapshotOf, Snapshot

LEMMA RestoreStep ==
    ASSUME TypeOK, NEW s \in Snapshot, RestoreRuntimeArtifacts(s)
    PROVE  /\ nodes' \in [Nodes -> NodeRow] /\ tokens' \in [Tokens -> TokenRow]
           /\ reopened' \in [Tokens -> Nat]
           /\ \A n \in Nodes : nodes'[n] = IF n = s.id THEN s.node ELSE nodes[n]
           /\ \A t \in Tokens : tokens'[t] = IF t = s.of THEN s.token ELSE tokens[t]
           /\ \A t \in Tokens :
                 reopened'[t] = IF Used(tokens[t]) /\ ~Used(tokens'[t])
                                THEN reopened[t] + 1 ELSE reopened[t]
<1>1. s.id \in Nodes /\ s.node \in NodeRow /\ s.token \in TokenRow
  BY DEF Snapshot
<1>2. /\ nodes' = [nodes EXCEPT ![s.id] = s.node]
      /\ tokens' = [t \in Tokens |-> IF t = s.of THEN s.token ELSE tokens[t]]
      /\ reopened' = [t \in Tokens |->
             IF Used(tokens[t]) /\ ~Used(tokens'[t]) THEN reopened[t] + 1 ELSE reopened[t]]
  BY DEF RestoreRuntimeArtifacts
<1>3. nodes' \in [Nodes -> NodeRow] /\ \A n \in Nodes : nodes'[n] = IF n = s.id THEN s.node ELSE nodes[n]
  BY <1>1, <1>2 DEF TypeOK
<1>4. tokens' \in [Tokens -> TokenRow]
  BY <1>1, <1>2 DEF TypeOK
<1>5. reopened' \in [Tokens -> Nat]
  BY <1>2 DEF TypeOK
<1> QED BY <1>2, <1>3, <1>4, <1>5


LEMMA ChangeFields ==
    ASSUME TypeOK, change # NoChange
    PROVE  /\ change \in Change
           /\ change.phase \in {"journalled", "applied", "backing", "restored"}
           /\ change.prev \in Options /\ change.next \in Options /\ change.receipt \in Snapshot
           /\ change.handle \in Snapshot \cup {NoSnapshot}
BY DEF TypeOK, Change

LEMMA ChangeMoved ==
    ASSUME TypeOK, change # NoChange, NEW phase \in {"journalled", "applied", "backing", "restored"},
           NEW h \in Snapshot \cup {NoSnapshot},
           change' = [change EXCEPT !.phase = phase, !.handle = h]
    PROVE  /\ change' \in Change /\ change' # NoChange /\ change'.phase = phase
           /\ change'.prev = change.prev /\ change'.next = change.next
           /\ change'.receipt = change.receipt /\ change'.handle = h
<1>1. change \in Change
  BY ChangeFields
<1>2. change' \in Change /\ change'.phase = phase /\ change'.prev = change.prev
      /\ change'.next = change.next /\ change'.receipt = change.receipt /\ change'.handle = h
  BY <1>1 DEF Change
<1> QED BY <1>2, ConstantsAssumption

LEMMA PhaseMoved ==
    ASSUME TypeOK, change # NoChange, NEW phase \in {"journalled", "applied", "backing", "restored"},
           change' = [change EXCEPT !.phase = phase]
    PROVE  /\ change' \in Change /\ change' # NoChange /\ change'.phase = phase
           /\ change'.prev = change.prev /\ change'.next = change.next
           /\ change'.receipt = change.receipt /\ change'.handle = change.handle
<1>1. change \in Change
  BY ChangeFields
<1>2. change' \in Change /\ change'.phase = phase /\ change'.prev = change.prev
      /\ change'.next = change.next /\ change'.receipt = change.receipt
      /\ change'.handle = change.handle
  BY <1>1 DEF Change
<1> QED BY <1>2, ConstantsAssumption

LEMMA HandleDropped ==
    ASSUME TypeOK, change # NoChange, change' = [change EXCEPT !.handle = NoSnapshot]
    PROVE  change' \in Change /\ change' # NoChange /\ change'.handle = NoSnapshot
<1>1. change \in Change
  BY ChangeFields
<1>2. change' \in Change /\ change'.handle = NoSnapshot
  BY <1>1 DEF Change
<1> QED BY <1>2, ConstantsAssumption

-----------------------------------------------------------------------------
(* The local artifacts of a configuration are there. *)
Present(o) == nodes[o.node] # NoRow /\ (o.token # NoToken => tokens[o.token] # NoRow)

(* A rollback with this handle does not take away the artifacts of o. *)
Spares(s, o) ==
    /\ s.id = o.node => s.node # NoRow
    /\ s.of = o.token /\ o.token # NoToken => s.token # NoRow

(* What each phase of a settings change leaves in memory and in the rows. *)
PhaseInv ==
    /\ Present(change.prev)
    /\ change.phase = "journalled" =>
           options = change.prev /\ config = change.next /\ change.handle = NoSnapshot
    /\ change.phase = "applied" =>
           options = change.next /\ config = change.next /\ change.handle # NoSnapshot
    /\ change.phase \in {"backing", "restored"} => config = change.prev
    /\ change.phase = "backing" /\ change.handle = NoSnapshot => options = change.prev
    /\ change.phase = "restored" => options = change.prev
    /\ change.phase \in {"applied", "backing"} /\ change.handle # NoSnapshot =>
           Spares(change.handle, change.prev)

JoinInv ==
    /\ up = "running" => Present(options)
    /\ up = "running" /\ change = NoChange => options = config
    /\ up = "running" /\ change # NoChange => PhaseInv
    /\ up \in {"booting", "booted", "settling"} => options = config
    /\ up = "settling" => Present(options)

(* Every restore that takes a use back is counted. *)
UseInv ==
    \A t \in Tokens : uses[t] <= reopened[t] + (IF Used(tokens[t]) THEN 1 ELSE 0)

JoinOK == TypeOK /\ JoinInv /\ UseInv

LEMMA InitOK == Init => JoinOK
<1> SUFFICES ASSUME Init PROVE JoinOK
  OBVIOUS
<1>1. TypeOK
  BY ConstantsAssumption DEF Init, TypeOK, NodeRow, TokenRow
<1>2. JoinInv
  BY DEF Init, JoinInv
<1>3. UseInv
  BY DEF Init, UseInv, Used
<1> QED BY <1>1, <1>2, <1>3 DEF JoinOK

(* A step that keeps the tables, or only fills and marks rows. *)
LEMMA PresentKept ==
    ASSUME TypeOK, NEW o \in Options, Present(o),
           \A n \in Nodes : nodes[n] # NoRow => nodes'[n] # NoRow,
           \A t \in Tokens : tokens[t] # NoRow => tokens'[t] # NoRow
    PROVE  nodes'[o.node] # NoRow /\ (o.token # NoToken => tokens'[o.token] # NoRow)
BY DEF Present, Options

LEMMA UseKept ==
    ASSUME UseInv, UNCHANGED <<uses, reopened>>,
           \A t \in Tokens : Used(tokens'[t]) <=> Used(tokens[t])
    PROVE  UseInv'
BY DEF UseInv

LEMMA UseRestored ==
    ASSUME TypeOK, UseInv, NEW s \in Snapshot, RestoreRuntimeArtifacts(s), uses' = uses
    PROVE  UseInv'
<1> SUFFICES ASSUME NEW t \in Tokens
             PROVE  uses'[t] <= reopened'[t] + (IF Used(tokens'[t]) THEN 1 ELSE 0)
  BY DEF UseInv
<1>1. uses[t] \in Nat /\ reopened[t] \in Nat
      /\ uses[t] <= reopened[t] + (IF Used(tokens[t]) THEN 1 ELSE 0)
  BY DEF TypeOK, UseInv
<1>2. reopened'[t] = IF Used(tokens[t]) /\ ~Used(tokens'[t]) THEN reopened[t] + 1 ELSE reopened[t]
  BY RestoreStep
<1> QED BY <1>1, <1>2

LEMMA JournalStep ==
    ASSUME JoinOK, NEW next \in Options, Journal(next)
    PROVE  JoinOK'
<1> USE DEF JoinOK
<1>1. SnapshotOf(next) \in Snapshot
  BY SnapshotType
<1>2. /\ up = "running" /\ change = NoChange /\ config' = next
      /\ UNCHANGED <<clock, nodes, tokens, up, options, call, uses, reopened, crashes>>
      /\ changes' = changes + 1
  BY DEF Journal, tables
<1>3. /\ change' \in Change /\ change'.phase = "journalled" /\ change'.prev = options
      /\ change'.next = next /\ change'.handle = NoSnapshot
  BY <1>1 DEF Journal, Change, TypeOK
<1>4. TypeOK'
  BY <1>2, <1>3 DEF TypeOK
<1>5. JoinInv'
  BY <1>2, <1>3, ConstantsAssumption DEF JoinInv, PhaseInv, Present
<1>6. UseInv'
  BY <1>2, UseKept
<1> QED BY <1>4, <1>5, <1>6

LEMMA ReplaceStep ==
    ASSUME JoinOK, ReplaceOptions
    PROVE  JoinOK'
<1> USE DEF JoinOK
<1>1. /\ up = "running" /\ change # NoChange /\ change.phase = "journalled"
      /\ PersistOptionsRows(change.next) /\ options' = change.next
      /\ change' = [change EXCEPT !.phase = "applied", !.handle = SnapshotOf(change.next)]
      /\ UNCHANGED <<clock, changes, crashes, up, config, call, uses, reopened>>
  BY DEF ReplaceOptions, counters
<1>2. change.next \in Options /\ change.prev \in Options /\ PhaseInv
  BY <1>1, ChangeFields DEF JoinInv
<1>3. SnapshotOf(change.next) \in Snapshot
  BY <1>2, SnapshotType
<1>4. /\ change' \in Change /\ change' # NoChange /\ change'.phase = "applied"
      /\ change'.prev = change.prev /\ change'.next = change.next
      /\ change'.handle = SnapshotOf(change.next)
  BY <1>1, <1>3, ChangeMoved
<1>5. /\ nodes' \in [Nodes -> NodeRow] /\ tokens' \in [Tokens -> TokenRow]
      /\ (Present(options))' /\ (Present(change.prev))'
      /\ \A t \in Tokens : Used(tokens'[t]) <=> Used(tokens[t])
  <2>1. /\ nodes' \in [Nodes -> NodeRow] /\ tokens' \in [Tokens -> TokenRow]
        /\ nodes'[change.next.node] # NoRow
        /\ change.next.token # NoToken => tokens'[change.next.token] # NoRow
        /\ \A n \in Nodes : nodes[n] # NoRow => nodes'[n] # NoRow
        /\ \A t \in Tokens : tokens[t] # NoRow => tokens'[t] # NoRow
        /\ \A t \in Tokens : Used(tokens'[t]) <=> Used(tokens[t])
    BY <1>1, <1>2, PersistStep
  <2>2. Present(change.prev)
    BY <1>2 DEF PhaseInv
  <2>3. nodes'[change.prev.node] # NoRow
        /\ (change.prev.token # NoToken => tokens'[change.prev.token] # NoRow)
    BY <1>2, <2>1, <2>2, PresentKept
  <2> QED BY <1>1, <1>4, <2>1, <2>3 DEF Present
<1>6. Spares(SnapshotOf(change.next), change.prev)
  BY <1>2, SnapshotType DEF Spares, PhaseInv, Present
<1>7. TypeOK'
  BY <1>1, <1>2, <1>4, <1>5 DEF TypeOK
<1>8. SnapshotOf(change.next) # NoSnapshot
  BY <1>3, ConstantsAssumption
<1>9. JoinInv'
  BY <1>1, <1>2, <1>4, <1>5, <1>6, <1>8 DEF JoinInv, PhaseInv, Spares
<1>10. UseInv'
  BY <1>1, <1>5, UseKept
<1> QED BY <1>7, <1>9, <1>10

LEMMA RollbackStep ==
    ASSUME JoinOK, Rollback
    PROVE  JoinOK'
<1> USE DEF JoinOK
<1>1. /\ up = "running" /\ change # NoChange /\ change.phase = "backing"
      /\ change' = [change EXCEPT !.phase = "restored"]
      /\ UNCHANGED <<clock, changes, crashes, up, config, call, uses>>
  BY DEF Rollback, counters
<1>2. /\ change.prev \in Options /\ PhaseInv /\ change.handle \in Snapshot \cup {NoSnapshot}
  BY <1>1, ChangeFields DEF JoinInv
<1>3. /\ change' \in Change /\ change' # NoChange /\ change'.phase = "restored"
      /\ change'.prev = change.prev /\ change'.handle = change.handle
  BY <1>1, PhaseMoved
<1>4. CASE change.handle = NoSnapshot
  <2>1. UNCHANGED <<nodes, tokens, reopened, options>>
    BY <1>4 DEF Rollback, tables
  <2>2. TypeOK'
    BY <1>1, <1>3, <2>1 DEF TypeOK
  <2>3. JoinInv'
    BY <1>1, <1>2, <1>3, <1>4, <2>1 DEF JoinInv, PhaseInv, Present
  <2>4. UseInv'
    BY <1>1, <2>1, UseKept
  <2> QED BY <2>2, <2>3, <2>4
<1>5. CASE change.handle # NoSnapshot
  <2> DEFINE s == change.handle
  <2>1. s \in Snapshot /\ RestoreRuntimeArtifacts(s) /\ options' = change.prev
    BY <1>2, <1>5 DEF Rollback
  <2>2. /\ nodes' \in [Nodes -> NodeRow] /\ tokens' \in [Tokens -> TokenRow]
        /\ reopened' \in [Tokens -> Nat]
        /\ \A n \in Nodes : nodes'[n] = IF n = s.id THEN s.node ELSE nodes[n]
        /\ \A t \in Tokens : tokens'[t] = IF t = s.of THEN s.token ELSE tokens[t]
    BY <2>1, RestoreStep
  <2>3. change.prev.node \in Nodes /\ (change.prev.token # NoToken => change.prev.token \in Tokens)
    BY <1>2 DEF Options
  <2>4. (Present(options))' /\ (Present(change.prev))'
    BY <1>1, <1>2, <1>3, <1>5, <2>1, <2>2, <2>3 DEF PhaseInv, Present, Spares
  <2>5. TypeOK'
    BY <1>1, <1>2, <1>3, <2>1, <2>2 DEF TypeOK
  <2>6. JoinInv'
    BY <1>1, <1>2, <1>3, <2>1, <2>4 DEF JoinInv, PhaseInv
  <2>7. UseInv'
    BY <1>1, <2>1, UseRestored
  <2> QED BY <2>5, <2>6, <2>7
<1> QED BY <1>4, <1>5

LEMMA RecoverStep ==
    ASSUME JoinOK, RecoverArtifacts
    PROVE  JoinOK'
<1> USE DEF JoinOK
<1>1. /\ up = "booting" /\ up' = "booted"
      /\ UNCHANGED <<clock, changes, crashes, options, config, change, call, uses>>
  BY DEF RecoverArtifacts, counters
<1>2. JoinInv'
  BY <1>1 DEF JoinInv
<1>3. CASE change # NoChange /\ change.phase \in {"backing", "restored"}
  <2>1. change.receipt \in Snapshot /\ RestoreRuntimeArtifacts(change.receipt)
    BY <1>3, ChangeFields DEF RecoverArtifacts
  <2>2. TypeOK'
    BY <1>1, <2>1, RestoreStep DEF TypeOK
  <2>3. UseInv'
    BY <1>1, <2>1, UseRestored
  <2> QED BY <1>2, <2>2, <2>3
<1>4. CASE ~(change # NoChange /\ change.phase \in {"backing", "restored"})
  <2>1. UNCHANGED <<nodes, tokens, reopened>>
    BY <1>4 DEF RecoverArtifacts, tables
  <2>2. TypeOK'
    BY <1>1, <2>1 DEF TypeOK
  <2>3. UseInv'
    BY <1>1, <2>1, UseKept
  <2> QED BY <1>2, <2>2, <2>3
<1> QED BY <1>3, <1>4

LEMMA MeshInitStep ==
    ASSUME JoinOK, MeshInit
    PROVE  JoinOK'
<1> USE DEF JoinOK
<1>1. /\ up = "booted" /\ up' = "settling" /\ PersistOptionsRows(options) /\ options \in Options
      /\ UNCHANGED <<clock, changes, crashes, options, config, change, call, uses, reopened>>
  BY DEF MeshInit, counters, TypeOK
<1>2. TypeOK'
  BY <1>1, PersistStep DEF TypeOK
<1>3. JoinInv'
  BY <1>1, PersistStep DEF JoinInv, Present
<1>4. UseInv'
  BY <1>1, PersistStep, UseKept
<1> QED BY <1>2, <1>3, <1>4

LEMMA CrashStep ==
    ASSUME JoinOK, Crash
    PROVE  JoinOK'
<1> USE DEF JoinOK
<1>1. /\ up' = "down" /\ crashes' = crashes + 1 /\ call' = [c \in Calls |-> Idle]
      /\ UNCHANGED <<clock, changes, nodes, tokens, options, config, uses, reopened>>
  BY DEF Crash, tables
<1>2. change' \in Change \cup {NoChange} /\ (change' # NoChange => change'.handle = NoSnapshot)
  <2>1. CASE change = NoChange
    BY <2>1 DEF Crash
  <2>2. CASE change # NoChange
    BY <2>2, HandleDropped DEF Crash
  <2> QED BY <2>1, <2>2
<1>3. TypeOK'
  BY <1>1, <1>2 DEF TypeOK
<1>4. JoinInv'
  BY <1>1 DEF JoinInv
<1>5. UseInv'
  BY <1>1, UseKept
<1> QED BY <1>3, <1>4, <1>5

LEMMA ConsumeStep ==
    ASSUME JoinOK, NEW c \in Calls, NEW n \in Nodes, NEW t \in Tokens, JoinConsume(c, n, t)
    PROVE  JoinOK'
<1> USE DEF JoinOK
<1> DEFINE r == [tokens[t] EXCEPT !.used = TRUE]
<1>1. /\ tokens' = [tokens EXCEPT ![t] = r] /\ uses' = [uses EXCEPT ![t] = @ + 1]
      /\ call' = [call EXCEPT ![c] = n] /\ tokens[t] # NoRow /\ ~tokens[t].used
      /\ UNCHANGED <<clock, changes, crashes, nodes, up, options, config, change, reopened>>
  BY DEF JoinConsume, Consumable, counters
<1>2. r \in [expires : Nat, used : BOOLEAN] /\ r.used = TRUE
  BY <1>1 DEF TypeOK, TokenRow
<1>3. r \in TokenRow /\ r # NoRow /\ Used(r)
  BY <1>2, ConstantsAssumption DEF TokenRow, Used
<1> HIDE DEF r
<1>4. TypeOK'
  BY <1>1, <1>3 DEF TypeOK
<1>5. /\ \A m \in Nodes : nodes[m] # NoRow => nodes'[m] # NoRow
      /\ \A u \in Tokens : tokens[u] # NoRow => tokens'[u] # NoRow
  BY <1>1, <1>3 DEF TypeOK
<1>6. \A o \in Options : Present(o) => nodes'[o.node] # NoRow
                                       /\ (o.token # NoToken => tokens'[o.token] # NoRow)
  BY <1>5, PresentKept
<1>7. options \in Options /\ (change # NoChange => change.prev \in Options)
  BY ChangeFields DEF TypeOK
<1>8. JoinInv'
  BY <1>1, <1>6, <1>7 DEF JoinInv, PhaseInv, Present, Spares
<1>9. UseInv'
  <2> SUFFICES ASSUME NEW u \in Tokens
               PROVE  uses'[u] <= reopened'[u] + (IF Used(tokens'[u]) THEN 1 ELSE 0)
    BY DEF UseInv
  <2>1. CASE u = t
    BY <1>1, <1>3, <2>1 DEF TypeOK, UseInv, Used
  <2>2. CASE u # t
    BY <1>1, <2>2 DEF TypeOK, UseInv
  <2> QED BY <2>1, <2>2
<1> QED BY <1>4, <1>8, <1>9

LEMMA RegisterStep ==
    ASSUME JoinOK, NEW c \in Calls, JoinRegister(c)
    PROVE  JoinOK'
<1> USE DEF JoinOK
<1>1. /\ call[c] # Idle /\ nodes' = [nodes EXCEPT ![call[c]] = "joined"]
      /\ call' = [call EXCEPT ![c] = Idle]
      /\ UNCHANGED <<clock, changes, crashes, tokens, up, options, config, change, uses, reopened>>
  BY DEF JoinRegister, counters
<1>2. call[c] \in Nodes
  BY <1>1 DEF TypeOK
<1>3. TypeOK'
  BY <1>1, <1>2 DEF TypeOK, NodeRow
<1>4. \A m \in Nodes : nodes[m] # NoRow => nodes'[m] # NoRow
  BY <1>1, <1>2, ConstantsAssumption DEF TypeOK
<1>5. \A o \in Options : Present(o) => nodes'[o.node] # NoRow
                                       /\ (o.token # NoToken => tokens'[o.token] # NoRow)
  BY <1>1, <1>4, PresentKept
<1>6. options \in Options /\ (change # NoChange => change.prev \in Options)
  BY ChangeFields DEF TypeOK
<1>7. JoinInv'
  BY <1>1, <1>5, <1>6 DEF JoinInv, PhaseInv, Present, Spares
<1>8. UseInv'
  BY <1>1, UseKept
<1> QED BY <1>3, <1>7, <1>8

(* The steps that leave the tables alone. *)
LEMMA OtherStep ==
    ASSUME JoinOK, \/ Accept \/ OwnerFails \/ FinishRollback \/ Boot \/ Settle \/ Tick
                   \/ UNCHANGED vars
    PROVE  JoinOK'
<1> USE DEF JoinOK
<1>1. UNCHANGED <<nodes, tokens, uses, reopened, call, changes, crashes>>
  BY DEF Accept, OwnerFails, FinishRollback, Boot, Settle, Tick, tables, counters, vars
<1>2. UseInv'
  BY <1>1, UseKept
<1>3. CASE Accept
  <2>1. TypeOK'
    BY <1>1, <1>3 DEF Accept, counters, TypeOK
  <2>2. JoinInv'
    BY <1>1, <1>3, ChangeFields DEF Accept, JoinInv, PhaseInv, Present
  <2> QED BY <1>2, <2>1, <2>2
<1>4. CASE OwnerFails
  <2>1. /\ up = "running" /\ change # NoChange /\ change.phase \in {"journalled", "applied"}
        /\ config' = change.prev /\ UNCHANGED <<clock, up, options>>
        /\ change' \in Change /\ change' # NoChange /\ change'.phase = "backing"
        /\ change'.prev = change.prev /\ change'.handle = change.handle
        /\ change.prev \in Options
    BY <1>4, PhaseMoved, ChangeFields DEF OwnerFails, counters
  <2>2. TypeOK'
    BY <1>1, <2>1 DEF TypeOK
  <2>3. JoinInv'
    BY <1>1, <2>1 DEF JoinInv, PhaseInv, Present, Spares
  <2> QED BY <1>2, <2>2, <2>3
<1>5. CASE FinishRollback
  <2>1. TypeOK'
    BY <1>1, <1>5 DEF FinishRollback, counters, TypeOK
  <2>2. JoinInv'
    BY <1>1, <1>5, ChangeFields DEF FinishRollback, JoinInv, PhaseInv, Present
  <2> QED BY <1>2, <2>1, <2>2
<1>6. CASE Boot
  <2>1. TypeOK'
    BY <1>1, <1>6 DEF Boot, counters, TypeOK
  <2>2. JoinInv'
    BY <1>6 DEF Boot, JoinInv
  <2> QED BY <1>2, <2>1, <2>2
<1>7. CASE Settle
  <2>1. TypeOK'
    BY <1>1, <1>7 DEF Settle, counters, TypeOK
  <2>2. JoinInv'
    BY <1>1, <1>7 DEF Settle, JoinInv, Present
  <2> QED BY <1>2, <2>1, <2>2
<1>8. CASE Tick
  <2>1. TypeOK'
    BY <1>1, <1>8 DEF Tick, TypeOK
  <2>2. JoinInv'
    BY <1>1, <1>8 DEF Tick, JoinInv, PhaseInv, Present, Spares
  <2> QED BY <1>2, <2>1, <2>2
<1>9. CASE UNCHANGED vars
  <2>1. TypeOK'
    BY <1>9 DEF vars, TypeOK
  <2>2. JoinInv'
    BY <1>9 DEF vars, JoinInv, PhaseInv, Present, Spares
  <2> QED BY <1>2, <2>1, <2>2
<1> QED BY <1>3, <1>4, <1>5, <1>6, <1>7, <1>8, <1>9

(* The phases of a settings change, the rows they may still need, and the  *)
(* count of uses taken back: an invariant of membership.                   *)
LEMMA JoinAlways == Spec => []JoinOK
<1>1. JoinOK /\ [Next]_vars => JoinOK'
  BY JournalStep, ReplaceStep, RollbackStep, RecoverStep, MeshInitStep, CrashStep, ConsumeStep,
     RegisterStep, OtherStep DEF Next
<1> QED BY <1>1, InitOK, PTL DEF Spec

(* Every row, option and journal is well typed, and no rollback handle     *)
(* outlives the process that took it (replaceOptionsReversibly).           *)
THEOREM MeshJoinTypeCorrect == Spec => []TypeOK
<1>1. JoinOK => TypeOK
  BY DEF JoinOK
<1> QED BY <1>1, JoinAlways, PTL

(* A running gateway stays registered with its token on offer or used,     *)
(* through every replacement, rollback and crash (persistOptionsRows,      *)
(* restoreRuntimeArtifacts).                                               *)
THEOREM ArtifactsKept == Spec => []LocalArtifactsPresent
<1>1. JoinOK => LocalArtifactsPresent
  BY DEF JoinOK, JoinInv, Present, LocalArtifactsPresent
<1> QED BY <1>1, JoinAlways, PTL

(* Between settings changes the options in memory are the canonical        *)
(* configuration (the rollback of replaceOptionsReversibly, the startup    *)
(* recovery).                                                              *)
THEOREM RuntimeIsCanonical == Spec => []RuntimeMatchesConfig
<1>1. JoinOK => RuntimeMatchesConfig
  BY DEF JoinOK, JoinInv, RuntimeMatchesConfig
<1> QED BY <1>1, JoinAlways, PTL

(* A token is used twice only after a restore took a use back              *)
(* (consumeJoinToken, restoreRuntimeArtifacts).                            *)
THEOREM ReuseNeedsRestore == Spec => []ReusedOnlyAfterRestore
<1>1. JoinOK => ReusedOnlyAfterRestore
  <2> SUFFICES ASSUME JoinOK, NEW t \in Tokens PROVE uses[t] <= 1 + reopened[t]
    BY DEF ReusedOnlyAfterRestore
  <2>1. uses[t] \in Nat /\ reopened[t] \in Nat
    BY DEF JoinOK, TypeOK
  <2> QED BY <2>1 DEF JoinOK, UseInv
<1> QED BY <1>1, JoinAlways, PTL
=============================================================================
