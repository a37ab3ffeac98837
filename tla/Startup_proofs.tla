--------------------------- MODULE Startup_proofs ---------------------------
(***************************************************************************)
(* Any number of starts, stopped anywhere, with any config.json and any    *)
(* legacy database: first the migration by itself, then the starts it is   *)
(* the first step of.                                                      *)
(***************************************************************************)
EXTENDS Startup, TLAPS

USE MigrationAssumption
USE DEF database, registrySchemaVersion, Legacy

(* How far an unfinished migration has got can be read off the database    *)
(* and what is in memory: every legacy path is still in the column, or in  *)
(* capturedPaths, or in the junction table.                                *)
RowsKept ==
  /\ peers.rows = old.rows
  /\ syncs.files = old.files
  /\ peers.schema = "absent" => old.rows = {} /\ old.paths = {}
  /\ peers.schema = "legacy" => paths = old.paths
  /\ peers.schema # "v2" => junction = {}

Underway == pc \in {"syncs", "backfill", "version"}

PathsUnderway ==
  /\ pc = "peers" => captured = {}
  /\ Underway => peers.schema = "v2" /\ junction \cup captured = old.paths
  /\ pc \in {"backfill", "version"} => syncs.schema = "v2"
  /\ pc = "version" => captured = {}

VersionRead == Underway \/ pc \in {"peers", "failed"} => ver = version

IndInv == TypeOK /\ RowsKept /\ PathsUnderway /\ VersionRead /\ NothingLost

----------------------------------------------------------------------------
LEMMA InitInv == Init => IndInv
<1> SUFFICES ASSUME Init
             PROVE  IndInv
  OBVIOUS
<1>1. /\ peers \in [schema : Schema, rows : SUBSET Row]
      /\ peers.schema = "absent" => peers.rows = {}
      /\ peers.schema # "v2"
  <2>1. CASE peers = [schema |-> "absent", rows |-> {}]
    BY <2>1 DEF Schema
  <2>2. CASE \E f \in [Id -> Key \cup {NoKey}], S \in SUBSET Id :
               peers = [schema |-> "legacy", rows |-> {[id |-> i, key |-> f[i]] : i \in S}]
    <3>1. PICK f \in [Id -> Key \cup {NoKey}], S \in SUBSET Id :
                 peers = [schema |-> "legacy", rows |-> {[id |-> i, key |-> f[i]] : i \in S}]
      BY <2>2
    <3>2. {[id |-> i, key |-> f[i]] : i \in S} \subseteq Row
      BY DEF Row
    <3> QED
      BY <3>1, <3>2 DEF Schema
  <2> QED
    BY <2>1, <2>2 DEF Init
<1>2. paths \subseteq Id \X Path /\ (peers.rows = {} => paths = {})
  <2>1. paths \subseteq {r.id : r \in peers.rows} \X Path
    BY DEF Init
  <2>2. {r.id : r \in peers.rows} \subseteq Id
    BY <1>1 DEF Row
  <2> QED
    BY <2>1, <2>2
<1>3. syncs \in [schema : Schema, files : SUBSET File]
  BY DEF Init, Schema
<1>4. /\ version = 0 /\ ver = 0 /\ junction = {} /\ captured = {} /\ stops = 0 /\ pc = "start"
      /\ old = [rows |-> peers.rows, paths |-> paths, files |-> syncs.files]
  BY DEF Init
<1>5. TypeOK
  BY <1>1, <1>2, <1>3, <1>4 DEF TypeOK, Step
<1> QED
  BY <1>1, <1>2, <1>4, <1>5 DEF IndInv, RowsKept, PathsUnderway, Underway, VersionRead, NothingLost

(* One case per step of migrate; every one reads its guard off pc.         *)
LEMMA NextInv == IndInv /\ [Next]_vars => IndInv'
<1> SUFFICES ASSUME IndInv, [Next]_vars
             PROVE  IndInv'
  OBVIOUS
<1> USE DEF IndInv, TypeOK, Step, Schema, RowsKept, PathsUnderway, Underway, VersionRead, NothingLost
<1>1. CASE ReadVersion
  BY <1>1 DEF ReadVersion
<1>2. CASE CreatePeers
  BY <1>2 DEF CreatePeers
<1>3. CASE RecreatePeers
  BY <1>3 DEF RecreatePeers, CanRecreate
<1>4. CASE RecreateFails
  BY <1>4 DEF RecreateFails
<1>5. CASE KeepPeers
  BY <1>5 DEF KeepPeers
<1>6. CASE MigrateSyncs
  BY <1>6 DEF MigrateSyncs
<1>7. CASE BackfillPath
  BY <1>7 DEF BackfillPath
<1>8. CASE EndBackfill
  BY <1>8 DEF EndBackfill, Backfilled
<1>9. CASE WriteVersion
  BY <1>9 DEF WriteVersion
<1>10. CASE Restart
  BY <1>10 DEF Restart
<1>11. CASE Stop
  BY <1>11 DEF Stop
<1>12. CASE UNCHANGED vars
  BY <1>12 DEF vars
<1> QED
  BY <1>1, <1>2, <1>3, <1>4, <1>5, <1>6, <1>7, <1>8, <1>9, <1>10, <1>11, <1>12 DEF Next, Migrate

LEMMA Invariant == Spec => []IndInv
BY InitInv, NextInv, PTL DEF Spec

----------------------------------------------------------------------------
(* Every variable keeps its type.                                          *)
THEOREM TypeCorrect == Spec => []TypeOK
<1>1. IndInv => TypeOK
  BY DEF IndInv
<1> QED
  BY <1>1, Invariant, PTL

(* However often migrate is stopped, a registry marked version 2 holds     *)
(* every row, filename and exported path of the legacy database.           *)
THEOREM NothingLostHolds == Spec => []NothingLost
<1>1. IndInv => NothingLost
  BY DEF IndInv
<1> QED
  BY <1>1, Invariant, PTL

(* Only a stop between the new table and the new version makes a database  *)
(* that no start opens; nothing mends it; and only such a database or a    *)
(* key that two legacy peers have makes a start fail.                      *)
THEOREM LostForGoodHolds == Spec => LostForGood
<1>1. IndInv /\ [Next]_vars =>
        [/\ Lost => Lost'
         /\ ~Lost /\ Lost' => Stop
         /\ RecreateFails => Lost \/ ~KeysUnique]_vars
  <2> SUFFICES ASSUME IndInv, Next
               PROVE  /\ Lost => Lost'
                      /\ ~Lost /\ Lost' => Stop
                      /\ RecreateFails => Lost \/ ~KeysUnique
    BY DEF vars
  <2> USE DEF IndInv, TypeOK, VersionRead, Lost
  <2>1. CASE ReadVersion \/ Restart
    BY <2>1 DEF ReadVersion, Restart, RecreateFails
  <2>2. CASE CreatePeers \/ KeepPeers
    BY <2>2 DEF CreatePeers, KeepPeers, RecreateFails
  <2>3. CASE RecreatePeers
    BY <2>3 DEF RecreatePeers, CanRecreate, RecreateFails
  <2>4. CASE RecreateFails
    <3>1. peers.schema = "v2" \/ peers.schema = "legacy"
      BY <2>4 DEF RecreateFails, Schema
    <3>2. peers.schema = "legacy" => ~KeysUnique
      BY <2>4 DEF RecreateFails, CanRecreate, KeysUnique, RowsKept
    <3> QED
      BY <2>4, <3>1, <3>2 DEF RecreateFails
  <2>5. CASE MigrateSyncs \/ BackfillPath \/ EndBackfill \/ WriteVersion
    BY <2>5 DEF MigrateSyncs, BackfillPath, EndBackfill, WriteVersion, RecreateFails
  <2>6. CASE Stop
    BY <2>6 DEF Stop, RecreateFails
  <2> QED
    BY <2>1, <2>2, <2>3, <2>4, <2>5, <2>6 DEF Next, Migrate
<1> QED
  BY <1>1, Invariant, PTL DEF Spec, LostForGood

----------------------------------------------------------------------------
(* The starts, of which the migration is one step.                         *)

USE StartupAssumption
USE DEF database, identity, syncList, nodeSettings, own, Identity, NoIdentity

OwnTypeOK ==
  /\ at \in Place
  /\ table \subseteq File /\ entries \subseteq Seed /\ removed \subseteq File
  /\ opened \in BOOLEAN /\ halfSeeded \in BOOLEAN /\ emptied \in BOOLEAN /\ halfSaved \in BOOLEAN
  /\ keyFile \in Identity \cup {NoIdentity} /\ pubFile \in Identity \cup {NoIdentity}
  /\ nodeKey \in Identity \cup {NoIdentity} /\ served \in Identity \cup {NoIdentity}
  /\ made \in 0 .. MaxIdentities
  /\ keys \subseteq Setting
  /\ settings \in [Setting -> {"none", "config", "operator", "blank"}]
  /\ given \in [Setting -> {"none", "operator", "blank"}]
  /\ edits \in 0 .. MaxEdits
  /\ misread \subseteq Setting \cup {"key", "list"}

Identified == at \in {"list", "import", "settings", "running"}
Saving == at \in {"saveKey", "fillKey", "savePub"}

(* While nothing is misread, the key file is the identity that was served. *)
KeyInv ==
  /\ Identified \/ at = "savePub" => keyFile = nodeKey
  /\ Identified \/ Saving => nodeKey # NoIdentity
  /\ served # NoIdentity /\ "key" \notin misread => keyFile = served /\ ~Saving
  /\ ~halfSaved /\ keyFile # NoIdentity => pubFile = keyFile

(* An import that has begun will bring the entries it has left.            *)
SeedInv ==
  /\ at # "import" => entries = {}
  /\ ~opened => at = "migrate" /\ table = {} /\ removed = {}
  /\ ~halfSeeded /\ syncs.files = {} =>
       \/ Seed \subseteq table \cup removed \cup entries
       \/ table = {} /\ at \notin {"import", "settings", "running"}

(* Only an import that found the list empty, or did not see it, is a       *)
(* danger to what was removed.                                             *)
RemovedInv ==
  removed # {} /\ (table = {} \/ entries # {} \/ removed \cap table # {}) =>
    emptied \/ "list" \in misread

MainInv == IndInv /\ OwnTypeOK /\ KeyInv /\ SeedInv /\ RemovedInv /\ SettingsKept

----------------------------------------------------------------------------
(* A start is a migration followed by steps that do not touch it.          *)

LEMMA MainStep ==
  ASSUME [MainNext]_allVars
  PROVE  [Next]_vars
<1>1. CASE Main
  BY <1>1 DEF Main, InitRegistry, InitNodeIdentity, Import, Next, Open, LoadKey, GenerateKey, EmptyKey,
              FillKey, SavePub, ListSyncs, ImportEntry, EndImport, SeedSetting, KeepSetting, Serve
<1>2. CASE Operator
  BY <1>2 DEF Operator, AddSync, RemoveSync, ChangeSetting, Edit
<1>3. CASE StopMain
  BY <1>3 DEF StopMain, Next
<1>4. CASE UNCHANGED allVars
  BY <1>4 DEF allVars
<1> QED BY <1>1, <1>2, <1>3, <1>4 DEF MainNext

(* Every start is a run of the migration.                                  *)
THEOREM StartsMigrate == MainSpec => Spec
<1>1. MainInit => Init
  BY DEF MainInit
<1>2. [MainNext]_allVars => [Next]_vars
  BY MainStep
<1> QED BY <1>1, <1>2, PTL DEF MainSpec, Spec

----------------------------------------------------------------------------
(* A registry that counts as version 2 has lost nothing, at any start.     *)
THEOREM NothingLostAtStart == MainSpec => []NothingLost
BY StartsMigrate, NothingLostHolds, PTL

(* Nor does a start mend, or make, a database that cannot be opened.       *)
THEOREM LostForGoodAtStart == MainSpec => LostForGood
BY StartsMigrate, LostForGoodHolds, PTL

LEMMA MainInitInv ==
  ASSUME MainInit
  PROVE  MainInv
<1>1. IndInv
  BY InitInv DEF MainInit
<1>2. OwnTypeOK
  <2>1. /\ settings \in [Setting -> {"none", "config", "operator", "blank"}]
        /\ given \in [Setting -> {"none", "operator", "blank"}]
    BY DEF MainInit
  <2>2. /\ made \in 0 .. MaxIdentities /\ edits \in 0 .. MaxEdits
        /\ keyFile \in Identity \cup {NoIdentity} /\ pubFile \in Identity \cup {NoIdentity}
        /\ nodeKey \in Identity \cup {NoIdentity} /\ served \in Identity \cup {NoIdentity}
    BY DEF MainInit
  <2> QED BY <2>1, <2>2 DEF MainInit, OwnTypeOK, Place
<1>3. KeyInv /\ SeedInv /\ RemovedInv /\ SettingsKept
  BY DEF MainInit, KeyInv, SeedInv, RemovedInv, SettingsKept, Identified, Saving
<1> QED BY <1>1, <1>2, <1>3 DEF MainInv

(* Migrations keep the filenames.                                          *)
LEMMA SyncsKept ==
  ASSUME IndInv, Next
  PROVE  syncs'.files = syncs.files
BY DEF IndInv, TypeOK, Next, Migrate, ReadVersion, CreatePeers, RecreatePeers, RecreateFails, KeepPeers,
       MigrateSyncs, BackfillPath, EndBackfill, WriteVersion, Restart, Stop

(* Types.                                                                  *)
LEMMA OwnTypeStep ==
  ASSUME MainInv, MainNext
  PROVE  OwnTypeOK'
<1> USE DEF vars, MainInv, OwnTypeOK, Place, IndInv, TypeOK
<1>1. CASE InitRegistry
  BY <1>1 DEF InitRegistry
<1>2. CASE Open
  BY <1>2 DEF Open
<1>3. CASE LoadKey
  BY <1>3 DEF LoadKey
<1>4. CASE GenerateKey
  BY <1>4 DEF GenerateKey
<1>5. CASE EmptyKey
  BY <1>5 DEF EmptyKey
<1>6. CASE FillKey
  BY <1>6 DEF FillKey, Saved
<1>7. CASE SavePub
  BY <1>7 DEF SavePub, SavedPub
<1>8. CASE ListSyncs
  BY <1>8 DEF ListSyncs, NothingListed
<1>9. CASE ImportEntry
  BY <1>9 DEF ImportEntry
<1>10. CASE EndImport
  BY <1>10 DEF EndImport, Imported
<1>11. CASE SeedSetting
  BY <1>11 DEF SeedSetting, NoValue
<1>12. CASE KeepSetting
  BY <1>12 DEF KeepSetting
<1>13. CASE Serve
  BY <1>13 DEF Serve
<1>14. CASE StopMain
  BY <1>14 DEF StopMain
<1>15. ASSUME NEW f \in File, AddSync(f) PROVE OwnTypeOK'
  BY <1>15 DEF AddSync, Edit
<1>16. ASSUME NEW f \in File, RemoveSync(f) PROVE OwnTypeOK'
  BY <1>16 DEF RemoveSync, Edit
<1>17. ASSUME NEW s \in Setting, NEW value \in {"operator", "blank"}, ChangeSetting(s, value) PROVE OwnTypeOK'
  BY <1>17 DEF ChangeSetting, Edit
<1> QED
  BY <1>1, <1>2, <1>3, <1>4, <1>5, <1>6, <1>7, <1>8, <1>9, <1>10, <1>11, <1>12,
     <1>13, <1>14, <1>15, <1>16, <1>17
  DEF MainNext, Main, InitNodeIdentity, Import, Operator

(* The key files: only the steps of InitNodeIdentity and Serve matter.     *)
LEMMA KeyStep ==
  ASSUME MainInv, MainNext
  PROVE  KeyInv'
<1> USE DEF vars, MainInv, OwnTypeOK, KeyInv, Identified, Saving
<1>1. CASE InitRegistry
  BY <1>1 DEF InitRegistry
<1>2. CASE Open
  BY <1>2 DEF Open
<1>3. CASE LoadKey
  BY <1>3 DEF LoadKey
<1>4. CASE GenerateKey
  BY <1>4 DEF GenerateKey
<1>5. CASE EmptyKey
  BY <1>5 DEF EmptyKey
<1>6. CASE FillKey
  BY <1>6 DEF FillKey, Saved
<1>7. CASE SavePub
  BY <1>7 DEF SavePub, SavedPub
<1>8. CASE ListSyncs
  BY <1>8 DEF ListSyncs, NothingListed
<1>9. CASE ImportEntry
  BY <1>9 DEF ImportEntry
<1>10. CASE EndImport
  BY <1>10 DEF EndImport, Imported
<1>11. CASE SeedSetting
  BY <1>11 DEF SeedSetting, NoValue
<1>12. CASE KeepSetting
  BY <1>12 DEF KeepSetting
<1>13. CASE Serve
  BY <1>13 DEF Serve
<1>14. CASE StopMain
  BY <1>14 DEF StopMain
<1>15. ASSUME NEW f \in File, AddSync(f) PROVE KeyInv'
  BY <1>15 DEF AddSync, Edit
<1>16. ASSUME NEW f \in File, RemoveSync(f) PROVE KeyInv'
  BY <1>16 DEF RemoveSync, Edit
<1>17. ASSUME NEW s \in Setting, NEW value \in {"operator", "blank"}, ChangeSetting(s, value) PROVE KeyInv'
  BY <1>17 DEF ChangeSetting, Edit
<1> QED
  BY <1>1, <1>2, <1>3, <1>4, <1>5, <1>6, <1>7, <1>8, <1>9, <1>10, <1>11, <1>12,
     <1>13, <1>14, <1>15, <1>16, <1>17
  DEF MainNext, Main, InitNodeIdentity, Import, Operator

(* What an import still owes.                                              *)
LEMMA SeedStep ==
  ASSUME MainInv, MainNext
  PROVE  SeedInv'
<1> USE DEF vars, MainInv, OwnTypeOK, SeedInv
<1>0. InitRegistry \/ StopMain => syncs'.files = syncs.files
  BY SyncsKept DEF InitRegistry, StopMain, Next
<1>1. CASE InitRegistry
  BY <1>0, <1>1 DEF InitRegistry
<1>2. CASE Open
  BY <1>2 DEF Open
<1>3. CASE LoadKey
  BY <1>3 DEF LoadKey
<1>4. CASE GenerateKey
  BY <1>4 DEF GenerateKey
<1>5. CASE EmptyKey
  BY <1>5 DEF EmptyKey
<1>6. CASE FillKey
  BY <1>6 DEF FillKey, Saved
<1>7. CASE SavePub
  BY <1>7 DEF SavePub, SavedPub
<1>8. CASE ListSyncs
  BY <1>8 DEF ListSyncs, NothingListed
<1>9. CASE ImportEntry
  BY <1>9 DEF ImportEntry
<1>10. CASE EndImport
  BY <1>10 DEF EndImport, Imported
<1>11. CASE SeedSetting
  BY <1>11 DEF SeedSetting, NoValue
<1>12. CASE KeepSetting
  BY <1>12 DEF KeepSetting
<1>13. CASE Serve
  BY <1>13 DEF Serve
<1>14. CASE StopMain
  BY <1>0, <1>14 DEF StopMain
<1>15. ASSUME NEW f \in File, AddSync(f) PROVE SeedInv'
  BY <1>15 DEF AddSync, Edit
<1>16. ASSUME NEW f \in File, RemoveSync(f) PROVE SeedInv'
  BY <1>16 DEF RemoveSync, Edit
<1>17. ASSUME NEW s \in Setting, NEW value \in {"operator", "blank"}, ChangeSetting(s, value) PROVE SeedInv'
  BY <1>17 DEF ChangeSetting, Edit
<1> QED
  BY <1>0, <1>1, <1>2, <1>3, <1>4, <1>5, <1>6, <1>7, <1>8, <1>9, <1>10, <1>11,
     <1>12, <1>13, <1>14, <1>15, <1>16, <1>17
  DEF MainNext, Main, InitNodeIdentity, Import, Operator

(* What is a danger to what was removed.                                   *)
LEMMA RemovedStep ==
  ASSUME MainInv, MainNext
  PROVE  RemovedInv'
<1> USE DEF vars, MainInv, OwnTypeOK, SeedInv, RemovedInv
<1>1. CASE InitRegistry
  BY <1>1 DEF InitRegistry
<1>2. CASE Open
  BY <1>2 DEF Open
<1>3. CASE LoadKey
  BY <1>3 DEF LoadKey
<1>4. CASE GenerateKey
  BY <1>4 DEF GenerateKey
<1>5. CASE EmptyKey
  BY <1>5 DEF EmptyKey
<1>6. CASE FillKey
  BY <1>6 DEF FillKey, Saved
<1>7. CASE SavePub
  BY <1>7 DEF SavePub, SavedPub
<1>8. CASE ListSyncs
  BY <1>8 DEF ListSyncs, NothingListed
<1>9. CASE ImportEntry
  BY <1>9 DEF ImportEntry
<1>10. CASE EndImport
  BY <1>10 DEF EndImport, Imported
<1>11. CASE SeedSetting
  BY <1>11 DEF SeedSetting, NoValue
<1>12. CASE KeepSetting
  BY <1>12 DEF KeepSetting
<1>13. CASE Serve
  BY <1>13 DEF Serve
<1>14. CASE StopMain
  BY <1>14 DEF StopMain
<1>15. ASSUME NEW f \in File, AddSync(f) PROVE RemovedInv'
  BY <1>15 DEF AddSync, Edit
<1>16. ASSUME NEW f \in File, RemoveSync(f) PROVE RemovedInv'
  BY <1>16 DEF RemoveSync, Edit
<1>17. ASSUME NEW s \in Setting, NEW value \in {"operator", "blank"}, ChangeSetting(s, value) PROVE RemovedInv'
  BY <1>17 DEF ChangeSetting, Edit
<1> QED
  BY <1>1, <1>2, <1>3, <1>4, <1>5, <1>6, <1>7, <1>8, <1>9, <1>10, <1>11, <1>12,
     <1>13, <1>14, <1>15, <1>16, <1>17
  DEF MainNext, Main, InitNodeIdentity, Import, Operator

(* Settings.                                                               *)
LEMMA SettingsStep ==
  ASSUME MainInv, MainNext
  PROVE  SettingsKept'
<1> USE DEF vars, MainInv, OwnTypeOK, SettingsKept
<1>1. CASE InitRegistry
  BY <1>1 DEF InitRegistry
<1>2. CASE Open
  BY <1>2 DEF Open
<1>3. CASE LoadKey
  BY <1>3 DEF LoadKey
<1>4. CASE GenerateKey
  BY <1>4 DEF GenerateKey
<1>5. CASE EmptyKey
  BY <1>5 DEF EmptyKey
<1>6. CASE FillKey
  BY <1>6 DEF FillKey, Saved
<1>7. CASE SavePub
  BY <1>7 DEF SavePub, SavedPub
<1>8. CASE ListSyncs
  BY <1>8 DEF ListSyncs, NothingListed
<1>9. CASE ImportEntry
  BY <1>9 DEF ImportEntry
<1>10. CASE EndImport
  BY <1>10 DEF EndImport, Imported
<1>11. CASE SeedSetting
  BY <1>11 DEF SeedSetting, NoValue
<1>12. CASE KeepSetting
  BY <1>12 DEF KeepSetting
<1>13. CASE Serve
  BY <1>13 DEF Serve
<1>14. CASE StopMain
  BY <1>14 DEF StopMain
<1>15. ASSUME NEW f \in File, AddSync(f) PROVE SettingsKept'
  BY <1>15 DEF AddSync, Edit
<1>16. ASSUME NEW f \in File, RemoveSync(f) PROVE SettingsKept'
  BY <1>16 DEF RemoveSync, Edit
<1>17. ASSUME NEW s \in Setting, NEW value \in {"operator", "blank"}, ChangeSetting(s, value) PROVE SettingsKept'
  BY <1>17 DEF ChangeSetting, Edit
<1> QED
  BY <1>1, <1>2, <1>3, <1>4, <1>5, <1>6, <1>7, <1>8, <1>9, <1>10, <1>11, <1>12,
     <1>13, <1>14, <1>15, <1>16, <1>17
  DEF MainNext, Main, InitNodeIdentity, Import, Operator

LEMMA MainNextInv ==
  ASSUME MainInv, [MainNext]_allVars
  PROVE  MainInv'
<1>1. IndInv'
  BY MainStep, NextInv DEF MainInv
<1>2. CASE UNCHANGED allVars
  BY <1>2 DEF allVars, vars, database, MainInv, IndInv, OwnTypeOK, KeyInv, SeedInv, RemovedInv, SettingsKept,
              Identified, Saving, TypeOK, RowsKept, PathsUnderway, VersionRead, Underway, NothingLost
<1> QED BY <1>1, <1>2, OwnTypeStep, KeyStep, SeedStep, RemovedStep, SettingsStep DEF MainInv

LEMMA MainInvariant == MainSpec => []MainInv
BY MainInitInv, MainNextInv, PTL DEF MainSpec

----------------------------------------------------------------------------
(* Every variable keeps its type.                                          *)
THEOREM MainTypeCorrect == MainSpec => []MainTypeOK
<1>1. MainInv => MainTypeOK
  BY DEF MainInv, IndInv, OwnTypeOK, MainTypeOK
<1> QED BY <1>1, MainInvariant, PTL

(* node.pub is wrong only if a start stopped between the two writes.       *)
THEOREM PubFileMatchesHolds == MainSpec => []PubFileMatches
<1>1. MainInv => PubFileMatches
  BY DEF MainInv, KeyInv, PubFileMatches, Identified
<1> QED BY <1>1, MainInvariant, PTL

(* However many imports, starts and stops: what config.json offers is      *)
(* there or was removed by the operator.                                   *)
THEOREM SeedsArriveHolds == MainSpec => []SeedsArrive
<1>1. MainInv => SeedsArrive
  BY DEF MainInv, SeedInv, SeedsArrive
<1> QED BY <1>1, MainInvariant, PTL

(* Only an empty or unreadable list brings back what was removed.          *)
THEOREM RemovedStaysOutHolds == MainSpec => []RemovedStaysOut
<1>1. MainInv => RemovedStaysOut
  BY DEF MainInv, RemovedInv, RemovedStaysOut
<1> QED BY <1>1, MainInvariant, PTL

(* No start writes over a setting of the operator's that it can read.      *)
THEOREM SettingsKeptHolds == MainSpec => []SettingsKept
<1>1. MainInv => SettingsKept
  BY DEF MainInv
<1> QED BY <1>1, MainInvariant, PTL

(* A readable node.key makes every start the same node.                    *)
THEOREM IdentityKeptHolds == MainSpec => IdentityKept
<1>1. MainInv /\ [MainNext]_allVars =>
        [served' # served /\ served # NoIdentity => "key" \in misread]_allVars
  <2> SUFFICES ASSUME MainInv, MainNext, served' # served, served # NoIdentity
               PROVE  "key" \in misread
    BY DEF allVars
  <2>1. Serve
    BY DEF MainNext, Main, Operator, StopMain, InitRegistry, Open, InitNodeIdentity, Import, LoadKey,
           GenerateKey, EmptyKey, FillKey, SavePub, ListSyncs, ImportEntry, EndImport, SeedSetting,
           KeepSetting, AddSync, RemoveSync, ChangeSetting, Edit
  <2> QED BY <2>1 DEF Serve, MainInv, KeyInv, Identified
<1> QED BY <1>1, MainInvariant, PTL DEF MainSpec, IdentityKept
=============================================================================
