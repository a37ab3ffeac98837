------------------------- MODULE RegistryMigration -------------------------
(***************************************************************************)
(* InitRegistry at a start of the node: migrate brings registry.db from    *)
(* whatever an earlier release left to schema version 2.  It is a sequence *)
(* of statements and two transactions, and the process may stop between    *)
(* any two of them; a failure is fatal (main), and the node is started     *)
(* again.                                                                  *)
(* The rows of an old peers table keep their exported paths in a column;   *)
(* they go to the table peer_exported_paths, by way of memory.             *)
(***************************************************************************)
EXTENDS Naturals

CONSTANTS
  Id,       \* ids of legacy peers
  Key,
  NoKey,    \* no public key ("" in a legacy row, NULL in version 2)
  Path,     \* exported paths
  File,     \* filenames of legacy startup_sync rows
  MaxStops  \* bound on the stops of the process before it is up

registrySchemaVersion == 2
Row == [id : Id, key : Key \cup {NoKey}]
Schema == {"absent", "legacy", "v2"}

ASSUME MigrationAssumption ==
  /\ NoKey \notin Key
  /\ MaxStops \in Nat

VARIABLES
  version,   \* node_settings' registry_schema_version, 0 when there is none
  peers,     \* the schema of the peers table and its rows
  paths,     \* the legacy column exported_paths, gone when the table is recreated
  junction,  \* peer_exported_paths
  syncs,     \* the schema of startup_sync and the filenames in it
  pc,        \* the step of migrate to do next
  ver,       \* version as read at its beginning
  captured,  \* capturedPaths
  stops,     \* stops so far
  old        \* history: rows, paths and filenames of the legacy database

database == <<version, peers, paths, junction, syncs>>
vars == <<database, pc, ver, captured, stops, old>>

Step == {"start", "peers", "syncs", "backfill", "version", "up", "failed"}

(* A new database, or one of the old release; peers and startup_sync came  *)
(* with different releases.                                                *)
Init ==
  /\ version = 0
  /\ \/ peers = [schema |-> "absent", rows |-> {}]
     \/ \E f \in [Id -> Key \cup {NoKey}], S \in SUBSET Id :
          peers = [schema |-> "legacy", rows |-> {[id |-> i, key |-> f[i]] : i \in S}]
  /\ paths \in SUBSET ({r.id : r \in peers.rows} \X Path)
  /\ junction = {}
  /\ \/ syncs = [schema |-> "absent", files |-> {}]
     \/ \E S \in SUBSET File : syncs = [schema |-> "legacy", files |-> S]
  /\ pc = "start"
  /\ ver = 0
  /\ captured = {}
  /\ stops = 0
  /\ old = [rows |-> peers.rows, paths |-> paths, files |-> syncs.files]

(* A definition whose name ends in Fault is a plausible mistake in the one *)
(* that follows it; nothing uses it.                                       *)

LegacyFault == ver <= registrySchemaVersion

Legacy == ver < registrySchemaVersion

ReadVersion ==
  /\ pc = "start"
  /\ ver' = version
  /\ captured' = {}
  /\ pc' = "peers"
  /\ UNCHANGED <<database, stops, old>>

----------------------------------------------------------------------------
(* The peers table.                                                        *)

CreatePeers ==
  /\ pc = "peers"
  /\ peers.schema = "absent"
  /\ peers' = [schema |-> "v2", rows |-> {}]
  /\ pc' = "syncs"
  /\ UNCHANGED <<version, paths, junction, syncs, ver, captured, stops, old>>

(* migratePeersToV2 reads columns that only legacy tables have, and the    *)
(* new table takes a key only once.                                        *)
CanRecreate ==
  /\ peers.schema = "legacy"
  /\ \A r, s \in peers.rows : r.key = s.key /\ r.key # NoKey => r = s

RecreatePeers ==
  /\ pc = "peers"
  /\ peers.schema # "absent" /\ Legacy
  /\ CanRecreate
  /\ peers' = [peers EXCEPT !.schema = "v2"]
  /\ captured' = paths
  /\ paths' = {}
  /\ pc' = "syncs"
  /\ UNCHANGED <<version, junction, syncs, ver, stops, old>>

RecreateFails ==
  /\ pc = "peers"
  /\ peers.schema # "absent" /\ Legacy
  /\ ~CanRecreate
  /\ pc' = "failed"
  /\ UNCHANGED <<database, ver, captured, stops, old>>

KeepPeers ==
  /\ pc = "peers"
  /\ peers.schema # "absent" /\ ~Legacy
  /\ pc' = "syncs"
  /\ UNCHANGED <<database, ver, captured, stops, old>>

----------------------------------------------------------------------------
(* startup_sync: created, recreated (migrateStartupSyncToV2 only reads     *)
(* columns that both versions have), or kept.                              *)
MigrateSyncs ==
  /\ pc = "syncs"
  /\ IF syncs.schema # "absent" /\ ~Legacy THEN UNCHANGED syncs
     ELSE syncs' = [syncs EXCEPT !.schema = "v2"]
  /\ pc' = "backfill"
  /\ UNCHANGED <<version, peers, paths, junction, ver, captured, stops, old>>

(* The auxiliary tables exist by now; one INSERT OR IGNORE per path.       *)
BackfillPath ==
  /\ pc = "backfill"
  /\ \E x \in captured :
       /\ junction' = junction \cup {x}
       /\ captured' = captured \ {x}
  /\ UNCHANGED <<version, peers, paths, syncs, pc, ver, stops, old>>

BackfilledFault == TRUE

Backfilled == captured = {}

EndBackfill ==
  /\ pc = "backfill"
  /\ Backfilled
  /\ pc' = "version"
  /\ UNCHANGED <<database, ver, captured, stops, old>>

WriteVersion ==
  /\ pc = "version"
  /\ version' = IF Legacy THEN registrySchemaVersion ELSE version
  /\ pc' = "up"
  /\ UNCHANGED <<peers, paths, junction, syncs, ver, captured, stops, old>>

----------------------------------------------------------------------------
(* log.Fatalf in main; the operator or the container starts the node again.*)
Restart ==
  /\ pc = "failed"
  /\ pc' = "start"
  /\ UNCHANGED <<database, ver, captured, stops, old>>

(* A crash, or a statement that fails for a reason of its own.  A version  *)
(* that cannot be read counts as 0; when it is 2, that comes to the same,  *)
(* for a table of version 2 cannot be recreated.                           *)
Stop ==
  /\ stops < MaxStops
  /\ stops' = stops + 1
  /\ pc' = "start"
  /\ captured' = {}
  /\ UNCHANGED <<database, ver, old>>

Migrate ==
  \/ ReadVersion
  \/ CreatePeers
  \/ RecreatePeers
  \/ RecreateFails
  \/ KeepPeers
  \/ MigrateSyncs
  \/ BackfillPath
  \/ EndBackfill
  \/ WriteVersion
  \/ Restart

Next == Migrate \/ Stop

Spec == Init /\ [][Next]_vars
(* Whoever starts the node lets it run, and starts it again when it fails. *)
FairSpec == Spec /\ WF_vars(Migrate)

----------------------------------------------------------------------------
TypeOK ==
  /\ version \in {0, registrySchemaVersion} /\ ver \in {0, registrySchemaVersion}
  /\ peers \in [schema : Schema, rows : SUBSET Row]
  /\ paths \subseteq Id \X Path
  /\ junction \subseteq Id \X Path
  /\ captured \subseteq Id \X Path
  /\ syncs \in [schema : Schema, files : SUBSET File]
  /\ pc \in Step
  /\ stops \in 0 .. MaxStops
  /\ old \in [rows : SUBSET Row, paths : SUBSET (Id \X Path), files : SUBSET File]

(* A database that counts as version 2 has every row and every path of the *)
(* legacy one, wherever earlier attempts to migrate it stopped.  migrate.  *)
NothingLost ==
  version = registrySchemaVersion =>
    /\ peers = [schema |-> "v2", rows |-> old.rows]
    /\ syncs = [schema |-> "v2", files |-> old.files]
    /\ junction = old.paths

(* What version 2 asks of legacy rows.                                     *)
KeysUnique == \A r, s \in old.rows : r.key = s.key /\ r.key # NoKey => r = s

(* What a start cannot go on from: the table is recreated, the version     *)
(* still says that it has to be.                                           *)
Lost ==
  peers.schema = "v2" /\ version # registrySchemaVersion /\ pc \in {"start", "peers", "failed"}

(* Only a stop in the middle of migrate makes a database that no start can *)
(* open, and no start mends it; but for that, a start fails only for a key *)
(* that two legacy peers have.  migrate, migratePeersToV2.                 *)
LostForGood ==
  [][/\ Lost => Lost'
     /\ ~Lost /\ Lost' => Stop
     /\ RecreateFails => Lost \/ ~KeysUnique]_vars

(* registry.go:60: InitRegistry is "Safe to call repeatedly": whatever     *)
(* stopped it, a later start opens a database whose keys are unique.       *)
OpensAgain == KeysUnique => <>(pc = "up")
=============================================================================
