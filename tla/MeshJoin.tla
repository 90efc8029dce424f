------------------------------- MODULE MeshJoin -------------------------------
(****************************************************************************)
(* Mesh membership: join tokens, node rows and the gateway's own mesh       *)
(* options.  MeshService.init and replaceOptionsReversibly register the     *)
(* local node and offer its join token in one transaction; a join consumes  *)
(* a token and registers its node in two statements.  A settings change is  *)
(* journalled before the mesh options are replaced; if a later owner of the *)
(* change fails, the rows are put back from a snapshot, by the running      *)
(* process or by the next one after a crash.                                *)
(****************************************************************************)
EXTENDS Naturals

CONSTANTS Nodes,       \* node_id values
          Tokens,      \* join tokens
          Calls,       \* joins that can be in flight
          Ttl,         \* 24 hours, in clock ticks
          MaxClock, MaxChanges, MaxCrashes,   \* bounds
          NoToken, NoRow, NoSnapshot, NoChange, Idle

Options == [node : Nodes, token : Tokens \cup {NoToken}, enabled : BOOLEAN]

NodeRow == {"local", "joined"} \cup {NoRow}      \* who wrote the row last

TokenRow == [expires : Nat, used : BOOLEAN] \cup {NoRow}

(* MeshRuntimeArtifactSnapshot: one node row and at most one token row. *)
Snapshot == [id : Nodes, node : NodeRow, of : Tokens \cup {NoToken}, token : TokenRow]

Change == [phase   : {"journalled", "applied", "backing", "restored"},
           prev    : Options, next : Options,
           receipt : Snapshot,                    \* kept in the journal
           handle  : Snapshot \cup {NoSnapshot}]  \* kept in memory

ASSUME ConstantsAssumption ==
    /\ Ttl \in Nat \ {0} /\ MaxClock \in Nat /\ MaxChanges \in Nat /\ MaxCrashes \in Nat
    /\ NoToken \notin Tokens
    /\ NoRow \notin [expires : Nat, used : BOOLEAN] \cup {"local", "joined"}
    /\ NoSnapshot \notin Snapshot
    /\ NoChange \notin Change

VARIABLES clock,
          nodes,     \* table mesh_nodes
          tokens,    \* table mesh_join_tokens
          up,        \* "down", the startup steps "booting", "booted", "settling", or "running"
          options,   \* MeshService.options
          config,    \* mesh section of the canonical configuration on disk
          change,    \* the settings change in progress, with its journal
          call,      \* joins between their two statements
          uses,      \* history: joins accepted with each token
          reopened,  \* history: how often a restore took a token's use back
          changes, crashes

vars == <<clock, nodes, tokens, up, options, config, change, call, uses, reopened,
          changes, crashes>>

tables == <<nodes, tokens>>

counters == <<clock, changes, crashes>>

Init ==
    /\ clock = 0
    /\ nodes = [n \in Nodes |-> NoRow]
    /\ tokens = [t \in Tokens |-> NoRow]
    /\ up = "down"
    /\ config \in Options
    /\ options = config
    /\ change = NoChange
    /\ call = [c \in Calls |-> Idle]
    /\ uses = [t \in Tokens |-> 0] /\ reopened = [t \in Tokens |-> 0]
    /\ changes = 0 /\ crashes = 0

-----------------------------------------------------------------------------
Used(r) == r # NoRow /\ r.used

(* Mutant: offering a token again makes a used one fresh. *)
IssuedFresh(t) == [expires |-> clock + Ttl, used |-> FALSE]

(* insertJoinTokenStmt: a new token, or a new term for one not used yet. *)
Issued(t) ==
    IF Used(tokens[t]) THEN tokens[t]
    ELSE [expires |-> clock + Ttl, used |-> FALSE]

(* persistOptionsRows, inside one transaction. *)
PersistOptionsRows(o) ==
    /\ nodes' = [nodes EXCEPT ![o.node] = "local"]
    /\ tokens' = [t \in Tokens |-> IF t = o.token THEN Issued(t) ELSE tokens[t]]

(* snapshotRuntimeArtifacts *)
SnapshotOf(o) ==
    [id |-> o.node, node |-> nodes[o.node], of |-> o.token,
     token |-> IF o.token = NoToken THEN NoRow ELSE tokens[o.token]]

(* Mutant: undoing a replacement deletes the candidate's rows. *)
RestoreByDeleting(s) ==
    /\ nodes' = [nodes EXCEPT ![s.id] = NoRow]
    /\ tokens' = [t \in Tokens |-> IF t = s.of THEN NoRow ELSE tokens[t]]
    /\ reopened' = [t \in Tokens |->
           IF Used(tokens[t]) /\ ~Used(tokens'[t]) THEN reopened[t] + 1 ELSE reopened[t]]

(* restoreRuntimeArtifacts: the rows as they were, or their absence. *)
RestoreRuntimeArtifacts(s) ==
    /\ nodes' = [nodes EXCEPT ![s.id] = s.node]
    /\ tokens' = [t \in Tokens |-> IF t = s.of THEN s.token ELSE tokens[t]]
    /\ reopened' = [t \in Tokens |->
           IF Used(tokens[t]) /\ ~Used(tokens'[t]) THEN reopened[t] + 1 ELSE reopened[t]]

-----------------------------------------------------------------------------
(* commit, up to the durable marker: the candidate becomes the canonical   *)
(* configuration and the rows it may overwrite are journalled.  A gateway  *)
(* started the default way serves requests once it runs; the code itself   *)
(* does not ask for that.                                                  *)
Journal(next) ==
    /\ up = "running" /\ change = NoChange /\ changes < MaxChanges
    /\ change' = [phase |-> "journalled", prev |-> options, next |-> next,
                  receipt |-> SnapshotOf(next), handle |-> NoSnapshot]
    /\ config' = next
    /\ changes' = changes + 1
    /\ UNCHANGED <<clock, tables, up, options, call, uses, reopened, crashes>>

(* replaceOptionsReversibly: snapshot and write in one transaction. *)
ReplaceOptions ==
    /\ up = "running" /\ change # NoChange /\ change.phase = "journalled"
    /\ PersistOptionsRows(change.next)
    /\ options' = change.next
    /\ change' = [change EXCEPT !.phase = "applied", !.handle = SnapshotOf(change.next)]
    /\ UNCHANGED <<counters, up, config, call, uses, reopened>>

(* Every owner accepted the change: the marker is removed. *)
Accept ==
    /\ up = "running" /\ change # NoChange /\ change.phase = "applied"
    /\ change' = NoChange
    /\ UNCHANGED <<counters, tables, up, options, config, call, uses, reopened>>

(* An owner fails, before or after the mesh options were replaced: the     *)
(* previous configuration is canonical again before any owner is restored. *)
OwnerFails ==
    /\ up = "running" /\ change # NoChange /\ change.phase \in {"journalled", "applied"}
    /\ config' = change.prev
    /\ change' = [change EXCEPT !.phase = "backing"]
    /\ UNCHANGED <<counters, tables, up, options, call, uses, reopened>>

(* Mutant: the rows are put back and the options in memory are kept. *)
RollbackRowsOnly ==
    /\ up = "running" /\ change # NoChange /\ change.phase = "backing"
    /\ IF change.handle = NoSnapshot THEN UNCHANGED <<tables, reopened>>
       ELSE RestoreRuntimeArtifacts(change.handle)
    /\ change' = [change EXCEPT !.phase = "restored"]
    /\ UNCHANGED <<counters, up, options, config, call, uses>>

(* rollback of the replacement, if there was one. *)
Rollback ==
    /\ up = "running" /\ change # NoChange /\ change.phase = "backing"
    /\ IF change.handle = NoSnapshot THEN UNCHANGED <<tables, reopened, options>>
       ELSE RestoreRuntimeArtifacts(change.handle) /\ options' = change.prev
    /\ change' = [change EXCEPT !.phase = "restored"]
    /\ UNCHANGED <<counters, up, config, call, uses>>

FinishRollback ==
    /\ up = "running" /\ change # NoChange /\ change.phase = "restored"
    /\ change' = NoChange
    /\ UNCHANGED <<counters, tables, up, options, config, call, uses, reopened>>

-----------------------------------------------------------------------------
(* Startup: the service is built from the canonical configuration; a       *)
(* journalled rollback is replayed; init writes the local rows; the marker *)
(* is cleared.  A crash in between repeats all of it.                      *)
Boot ==
    /\ up = "down"
    /\ up' = "booting"
    /\ options' = config
    /\ UNCHANGED <<counters, tables, config, change, call, uses, reopened>>

(* restoreRuntimeArtifactsForRecovery *)
RecoverArtifacts ==
    /\ up = "booting"
    /\ up' = "booted"
    /\ IF change # NoChange /\ change.phase \in {"backing", "restored"}
       THEN RestoreRuntimeArtifacts(change.receipt)
       ELSE UNCHANGED <<tables, reopened>>
    /\ UNCHANGED <<counters, options, config, change, call, uses>>

MeshInit ==
    /\ up = "booted"
    /\ up' = "settling"
    /\ PersistOptionsRows(options)
    /\ UNCHANGED <<counters, options, config, change, call, uses, reopened>>

(* completeRuntimeOwnerReconciliation *)
Settle ==
    /\ up = "settling"
    /\ up' = "running"
    /\ change' = NoChange
    /\ UNCHANGED <<counters, tables, options, config, call, uses, reopened>>

(* Mutant: the rollback handle survives the process. *)
CrashKeepsHandle ==
    /\ up # "down" /\ crashes < MaxCrashes
    /\ up' = "down"
    /\ crashes' = crashes + 1
    /\ call' = [c \in Calls |-> Idle]
    /\ UNCHANGED <<clock, changes, tables, options, config, change, uses, reopened>>

Crash ==
    /\ up # "down" /\ crashes < MaxCrashes
    /\ up' = "down"
    /\ crashes' = crashes + 1
    /\ change' = IF change = NoChange THEN NoChange
                 ELSE [change EXCEPT !.handle = NoSnapshot]
    /\ call' = [c \in Calls |-> Idle]
    /\ UNCHANGED <<clock, changes, tables, options, config, uses, reopened>>

-----------------------------------------------------------------------------
(* consumeJoinTokenStmt's WHERE clause. *)
Consumable(t) == tokens[t] # NoRow /\ ~tokens[t].used /\ tokens[t].expires > clock

(* join: the token is consumed, then the node is registered. *)
JoinConsume(c, n, t) ==
    /\ up # "down" /\ options.enabled
    /\ call[c] = Idle
    /\ Consumable(t)
    /\ tokens' = [tokens EXCEPT ![t].used = TRUE]
    /\ call' = [call EXCEPT ![c] = n]
    /\ uses' = [uses EXCEPT ![t] = @ + 1]
    /\ UNCHANGED <<counters, nodes, up, options, config, change, reopened>>

JoinRegister(c) ==
    /\ call[c] # Idle
    /\ nodes' = [nodes EXCEPT ![call[c]] = "joined"]
    /\ call' = [call EXCEPT ![c] = Idle]
    /\ UNCHANGED <<counters, tokens, up, options, config, change, uses, reopened>>

Tick ==
    /\ clock < MaxClock
    /\ clock' = clock + 1
    /\ UNCHANGED <<tables, up, options, config, change, call, uses, reopened, changes, crashes>>

Next ==
    \/ \E next \in Options : Journal(next)
    \/ ReplaceOptions \/ Accept \/ OwnerFails \/ Rollback \/ FinishRollback
    \/ Boot \/ RecoverArtifacts \/ MeshInit \/ Settle \/ Crash
    \/ \E c \in Calls, n \in Nodes, t \in Tokens : JoinConsume(c, n, t)
    \/ \E c \in Calls : JoinRegister(c)
    \/ Tick

Spec == Init /\ [][Next]_vars

-----------------------------------------------------------------------------
(* Type invariant; a rollback handle lives only in the process that made   *)
(* the replacement.                                                        *)
TypeOK ==
    /\ clock \in Nat /\ changes \in Nat /\ crashes \in Nat
    /\ nodes \in [Nodes -> NodeRow]
    /\ tokens \in [Tokens -> TokenRow]
    /\ up \in {"down", "booting", "booted", "settling", "running"}
    /\ options \in Options /\ config \in Options
    /\ change \in Change \cup {NoChange}
    /\ up # "running" /\ change # NoChange => change.handle = NoSnapshot
    /\ call \in [Calls -> Nodes \cup {Idle}]
    /\ uses \in [Tokens -> Nat] /\ reopened \in [Tokens -> Nat]

(* A running gateway is registered under its own node id and its join      *)
(* token is on offer or used, through replacements, rollbacks and crashes  *)
(* at any point (persistOptionsRows, restoreRuntimeArtifacts).             *)
LocalArtifactsPresent ==
    up = "running" => /\ nodes[options.node] # NoRow
                      /\ options.token # NoToken => tokens[options.token] # NoRow

(* Between two settings changes the options in memory are the canonical    *)
(* configuration, whatever failed before (replaceOptionsReversibly and its *)
(* rollback, the startup recovery).                                        *)
RuntimeMatchesConfig ==
    up = "running" /\ change = NoChange => options = config

(* A token admits one join, and one more for each time a restore put back  *)
(* a row from before its use: neither offering it again, nor a crash       *)
(* between its use and the registration, nor joins that race, reopen it    *)
(* (consumeJoinToken, insertJoinTokenStmt, restoreRuntimeArtifacts).       *)
ReusedOnlyAfterRestore == \A t \in Tokens : uses[t] <= 1 + reopened[t]

(* Join tokens are single-use: no token admits two joins                   *)
(* (consumeJoinToken, issueJoinToken, restoreRuntimeArtifacts).            *)
TokenSingleUse == \A t \in Tokens : uses[t] <= 1
=============================================================================
