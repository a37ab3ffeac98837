------------------------------ MODULE Startup ------------------------------
(***************************************************************************)
(* Every start of the node, from InitRegistry to ListenAndServe, and the   *)
(* life of what a start decides: which key the node is known by, and what  *)
(* of config.json is in the database.  RegistryMigration is the first part *)
(* of it; this module adds what main does once the registry is open, and   *)
(* what the operator changes while the node runs.  The process may stop    *)
(* between any two steps, and is started again.                            *)
(*                                                                         *)
(* Failures that main does not look at (the list of syncs, a setting, the  *)
(* key file) are steps like the successes.                                 *)
(***************************************************************************)
EXTENDS RegistryMigration

CONSTANTS
  Seed,           \* filenames of the startupSync entries of config.json
  Setting,        \* keys of node_settings that config.json has a value for
  MaxIdentities,  \* bound on generated key pairs
  MaxEdits        \* bound on what the operator changes

ASSUME StartupAssumption ==
  /\ Seed \subseteq File
  /\ "key" \notin Setting /\ "list" \notin Setting
  /\ MaxIdentities \in Nat
  /\ MaxEdits \in Nat

Identity == 1 .. MaxIdentities
NoIdentity == 0

VARIABLES
  at,         \* main's step; "migrate" while InitRegistry runs
  table,      \* filenames in startup_sync, since InitRegistry first returned
  keyFile,    \* node.key; NoIdentity when it is missing or cut short
  pubFile,    \* node.pub
  nodeKey,    \* nodeKey and nodePub
  entries,    \* what is left of the import
  keys,       \* settings left to look at
  settings,   \* who gave each setting its value; "blank" is the operator's empty string
  made,       \* key pairs generated so far
  edits,      \* operator's changes so far
  opened,     \* history: InitRegistry has returned before
  served,     \* history: the identity of the last start that got to serve
  halfSaved,  \* history: the last write of node.key was not followed by node.pub
  halfSeeded, \* history: an import was stopped, or an entry of it failed
  removed,    \* history: filenames the operator removed and did not add again
  emptied,    \* history: the operator removed the last entry
  given,      \* history: what the operator last gave each setting
  misread     \* history: "key" and "list" for failed reads of node.key, since
              \* the last start, and of startup_sync; settings that were not read
              \* since the operator last changed them

identity == <<keyFile, pubFile, nodeKey, made, served, halfSaved>>
syncList == <<table, entries, opened, halfSeeded, removed, emptied>>
nodeSettings == <<keys, settings, given>>
own == <<at, identity, syncList, nodeSettings, edits, misread>>
allVars == <<vars, own>>

Place == {"migrate", "identity", "saveKey", "fillKey", "savePub", "list", "import", "settings",
          "running"}

MainInit ==
  /\ Init
  /\ at = "migrate"
  /\ table = {} /\ entries = {} /\ opened = FALSE /\ halfSeeded = FALSE
  /\ removed = {} /\ emptied = FALSE
  /\ keyFile = NoIdentity /\ pubFile = NoIdentity /\ nodeKey = NoIdentity
  /\ made = 0 /\ served = NoIdentity /\ halfSaved = FALSE
  /\ keys = {} /\ settings = [s \in Setting |-> "none"] /\ given = [s \in Setting |-> "none"]
  /\ edits = 0 /\ misread = {}

(* InitRegistry returns.                                                   *)
Open ==
  /\ at = "migrate" /\ pc = "up"
  /\ at' = "identity"
  /\ table' = IF opened THEN table ELSE syncs.files
  /\ opened' = TRUE
  /\ UNCHANGED <<vars, identity, entries, halfSeeded, removed, emptied, nodeSettings, edits, misread>>

----------------------------------------------------------------------------
(* InitNodeIdentity.                                                       *)

LoadKey ==
  /\ at = "identity"
  /\ keyFile # NoIdentity
  /\ nodeKey' = keyFile
  /\ at' = "list"
  /\ UNCHANGED <<vars, keyFile, pubFile, made, served, halfSaved, syncList, nodeSettings, edits, misread>>

(* No key file, one of the wrong size, or one that cannot be read.         *)
GenerateKey ==
  /\ at = "identity"
  /\ \/ keyFile = NoIdentity /\ UNCHANGED misread
     \/ misread' = misread \cup {"key"}
  /\ made < MaxIdentities
  /\ made' = made + 1
  /\ nodeKey' = made + 1
  /\ at' = "saveKey"
  /\ UNCHANGED <<vars, keyFile, pubFile, served, halfSaved, syncList, nodeSettings, edits>>

(* os.WriteFile empties the file and then fills it.  A write that fails is *)
(* a panic, hence a Stop.                                                  *)
EmptyKey ==
  /\ at = "saveKey"
  /\ keyFile' = NoIdentity
  /\ at' = "fillKey"
  /\ UNCHANGED <<vars, pubFile, nodeKey, made, served, halfSaved, syncList, nodeSettings, edits, misread>>

SavedFault == keyFile

Saved == nodeKey

FillKey ==
  /\ at = "fillKey"
  /\ keyFile' = Saved
  /\ halfSaved' = TRUE
  /\ at' = "savePub"
  /\ UNCHANGED <<vars, pubFile, nodeKey, made, served, syncList, nodeSettings, edits, misread>>

SavedPubFault == IF pubFile = NoIdentity THEN nodeKey ELSE pubFile

SavedPub == nodeKey

SavePub ==
  /\ at = "savePub"
  /\ pubFile' = SavedPub
  /\ halfSaved' = FALSE
  /\ at' = "list"
  /\ UNCHANGED <<vars, keyFile, nodeKey, made, served, syncList, nodeSettings, edits, misread>>

----------------------------------------------------------------------------
(* The import of config.json.                                              *)

NothingListedFault == ~(Seed \subseteq table)

NothingListed == table = {}

(* An error of ListStartupSync leaves existing empty.                      *)
ListSyncs ==
  /\ at = "list"
  /\ \E fails \in BOOLEAN :
       /\ misread' = IF fails THEN misread \cup {"list"} ELSE misread
       /\ entries' = IF fails \/ NothingListed THEN Seed ELSE {}
  /\ at' = "import"
  /\ UNCHANGED <<vars, identity, table, opened, halfSeeded, removed, emptied, nodeSettings, edits>>

(* An entry that fails is logged.                                          *)
ImportEntry ==
  /\ at = "import"
  /\ \E f \in entries :
       /\ entries' = entries \ {f}
       /\ \/ table' = table \cup {f} /\ UNCHANGED halfSeeded
          \/ halfSeeded' = TRUE /\ UNCHANGED table
  /\ UNCHANGED <<vars, at, identity, opened, removed, emptied, nodeSettings, edits, misread>>

ImportedFault == entries # Seed

Imported == entries = {}

EndImport ==
  /\ at = "import"
  /\ Imported
  /\ at' = "settings"
  /\ keys' = Setting
  /\ UNCHANGED <<vars, identity, syncList, settings, given, edits, misread>>

NoValueFault(s) == TRUE

NoValue(s) == settings[s] \in {"none", "blank"}

(* A setting that cannot be read counts as none; one that cannot be        *)
(* written stays as it is.                                                 *)
SeedSetting ==
  /\ at = "settings"
  /\ \E s \in keys :
       /\ keys' = keys \ {s}
       /\ \/ NoValue(s) /\ UNCHANGED misread
          \/ misread' = misread \cup {s}
       /\ settings' = [settings EXCEPT ![s] = "config"]
  /\ UNCHANGED <<vars, at, identity, syncList, given, edits>>

KeepSetting ==
  /\ at = "settings"
  /\ \E s \in keys : keys' = keys \ {s}
  /\ UNCHANGED <<vars, at, identity, syncList, settings, given, edits, misread>>

(* The startup syncs, the reload, the watcher and periodicSync are not     *)
(* this module's.                                                          *)
Serve ==
  /\ at = "settings" /\ keys = {}
  /\ at' = "running"
  /\ served' = nodeKey
  /\ misread' = misread \ {"key"}
  /\ UNCHANGED <<vars, keyFile, pubFile, nodeKey, made, halfSaved, syncList, nodeSettings, edits>>

----------------------------------------------------------------------------
(* The operator; settings are changed with another program.                *)

Edit ==
  /\ at = "running" /\ edits < MaxEdits
  /\ edits' = edits + 1
  /\ UNCHANGED <<vars, at, identity, entries, opened, halfSeeded, keys>>

AddSync(f) ==
  /\ table' = table \cup {f}
  /\ removed' = removed \ {f}
  /\ Edit
  /\ UNCHANGED <<emptied, settings, given, misread>>

RemoveSync(f) ==
  /\ f \in table
  /\ table' = table \ {f}
  /\ removed' = removed \cup {f}
  /\ emptied' = (emptied \/ table = {f})
  /\ Edit
  /\ UNCHANGED <<settings, given, misread>>

ChangeSetting(s, value) ==
  /\ settings' = [settings EXCEPT ![s] = value]
  /\ given' = [given EXCEPT ![s] = value]
  /\ misread' = misread \ {s}
  /\ Edit
  /\ UNCHANGED <<table, removed, emptied>>

----------------------------------------------------------------------------
StopMain ==
  /\ Stop
  /\ at' = "migrate"
  /\ nodeKey' = NoIdentity
  /\ entries' = {} /\ keys' = {}
  /\ halfSeeded' = (halfSeeded \/ (at = "import" /\ entries # {}))
  /\ UNCHANGED <<table, opened, removed, emptied, keyFile, pubFile, made, served, halfSaved, settings,
                 given, edits, misread>>

InitRegistry == at = "migrate" /\ Migrate /\ UNCHANGED own

InitNodeIdentity == LoadKey \/ GenerateKey \/ EmptyKey \/ FillKey \/ SavePub

Import == ListSyncs \/ ImportEntry \/ EndImport \/ SeedSetting \/ KeepSetting

Main == InitRegistry \/ Open \/ InitNodeIdentity \/ Import \/ Serve

Operator ==
  \/ \E f \in File : AddSync(f) \/ RemoveSync(f)
  \/ \E s \in Setting, value \in {"operator", "blank"} : ChangeSetting(s, value)

MainNext == Main \/ Operator \/ StopMain

MainSpec == MainInit /\ [][MainNext]_allVars
FairMainSpec == MainSpec /\ WF_allVars(Main)

----------------------------------------------------------------------------
MainTypeOK ==
  /\ TypeOK
  /\ at \in Place
  /\ table \subseteq File /\ entries \subseteq Seed /\ removed \subseteq File
  /\ opened \in BOOLEAN /\ halfSeeded \in BOOLEAN /\ emptied \in BOOLEAN /\ halfSaved \in BOOLEAN
  /\ keyFile \in Identity \cup {NoIdentity} /\ pubFile \in Identity \cup {NoIdentity}
  /\ nodeKey \in Identity \cup {NoIdentity} /\ served \in Identity \cup {NoIdentity}
  /\ made \in 0 .. MaxIdentities
  /\ keys \subseteq Setting
  /\ settings \in [Setting -> {"none", "config", "operator", "blank"}]
  /\ given \in [Setting -> {"none", "operator", "blank"}]
  /\ edits \in 0 .. MaxEdits
  /\ misread \subseteq Setting \cup {"key", "list"}

(* The node serves with the identity it served with before, wherever it    *)
(* was stopped, unless node.key could not be read at a start in between.   *)
(* InitNodeIdentity.                                                       *)
IdentityKept ==
  [][served' # served /\ served # NoIdentity => "key" \in misread]_allVars

(* What scripts read in node.pub is the identity of the running node,      *)
(* unless a start stopped after it wrote node.key: nothing mends the file  *)
(* later.  InitNodeIdentity.                                               *)
PubFileMatches == at = "running" /\ ~halfSaved => pubFile = nodeKey

(* A running node has every entry that config.json offers, but for those   *)
(* the operator removed, unless an import was stopped or an older release  *)
(* had left entries.  main, ListStartupSync, AddStartupSync.               *)
SeedsArrive ==
  at = "running" /\ ~halfSeeded /\ syncs.files = {} => Seed \subseteq table \cup removed

(* An entry that the operator removed does not come back with a start,     *)
(* unless the operator removed the last one or the list could not be read. *)
(* main, RemoveStartupSync.                                                *)
RemovedStaysOut == removed \cap table # {} => emptied \/ "list" \in misread

(* What the operator last gave a setting survives every start, unless it   *)
(* could not be read at one since, or was the empty string: main takes     *)
(* that for a setting that was never written, and the next start gives it  *)
(* the value of config.json again.  main, GetSetting.                      *)
SettingsKept ==
  \A s \in Setting : given[s] # "none" =>
    \/ settings[s] = given[s]
    \/ s \in misread
    \/ given[s] = "blank" /\ settings[s] = "config"

(* If the keys of the legacy peers are unique, the node is in the end up   *)
(* for good, unless a stop left a new table of peers without the new       *)
(* version.                                                                *)
ComesUp == KeysUnique => <>[](at = "running" \/ Lost)
=============================================================================
