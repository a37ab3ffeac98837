------------------------------ MODULE NavIndex ------------------------------
(***************************************************************************)
(* The navigation index: nav_folders, nav_guides and the descriptions an   *)
(* operator sets, filled by scans of the data directory.                   *)
(*                                                                         *)
(* A scan is one deferred transaction.  Its first write takes SQLite's     *)
(* write lock, which it then holds to the end; until then another scan, or *)
(* a request, may write.  Whoever waits for the lock in vain gets an error,*)
(* and a scan goes on after most errors.  No lock covers the disk.         *)
(*                                                                         *)
(* A row of a folder implies its parent's id, and the row of a guide its   *)
(* folder's: paths are unique and rows are never deleted.  What a guide's  *)
(* row says (title, preview, word count) is a function of the body it was  *)
(* indexed from, and so is a description taken from index.md.              *)
(***************************************************************************)
EXTENDS FiniteSets, Naturals

CONSTANTS
  Folder,   \* directories below the data directory that are not hidden
  Parent,   \* Folder -> Folder, None for a vault
  Guide,    \* .md files that are not hidden
  In,       \* Guide -> Folder
  IndexOf,  \* Folder -> Guide: its index.md, if there can be one
  Body,
  Text,     \* descriptions an operator gives
  Scanner,  \* goroutines that scan: one at the start, and requests to rescan
  Admin,    \* requests that set a description
  Absent,   \* no such file; no description
  None,
  MaxEdits, \* bound on changes of the disk
  MaxScans, \* bound on scans
  MaxTexts  \* bound on descriptions set

ASSUME NavAssumption ==
  /\ IsFiniteSet(Folder) /\ IsFiniteSet(Guide)
  /\ Parent \in [Folder -> Folder \cup {None}]
  /\ \A S \in SUBSET Folder : S # {} => \E f \in S : Parent[f] \notin S  \* paths end
  /\ In \in [Guide -> Folder]
  /\ IndexOf \in [Folder -> Guide \cup {None}]
  /\ \A f \in Folder : IndexOf[f] # None => In[IndexOf[f]] = f
  /\ None \notin Folder \cup Guide \cup Scanner
  /\ Absent \notin Body \cup Text
  /\ MaxEdits \in Nat /\ MaxScans \in Nat /\ MaxTexts \in Nat

Row == [desc : Body \cup Text \cup {Absent}, source : {"auto", "override"},
        leaf : BOOLEAN, children : Nat, guides : Nat]
NoRow == [desc |-> Absent, source |-> "auto", leaf |-> FALSE, children |-> 0, guides |-> 0]

(* The two tables a scan writes.                                           *)
Tables == [has : SUBSET Folder, row : [Folder -> Row], guide : [Guide -> Body \cup {Absent}]]

VARIABLES
  dirs, files,  \* the disk
  db,           \* nav_folders and nav_guides as committed
  overrides,    \* nav_description_overrides, Absent where there is no row
  writer,       \* the scan that holds the write lock
  draft,        \* the tables as it sees them
  pc, at, todo, \* of each scan: its step, the folder it is in, folders to visit
  seen,         \* the listing of that folder, and the description from index.md
  job,          \* a request between its two statements
  clean,        \* history: since the scan began the disk is unchanged, all upserts succeeded
  visited,      \* history: folders the scan has written
  split,        \* history: folders whose last descriptions raced or were half set
  edits, scans, texts

disk == <<dirs, files>>
tables == <<db, writer, draft>>
walk == <<pc, at, todo, seen, clean, visited>>
admin == <<overrides, job, split>>
bounds == <<edits, scans, texts>>
vars == <<disk, tables, walk, admin, bounds>>

Step == {"idle", "walk", "index", "upsert", "guides"}
Subs(f) == {e \in dirs : Parent[e] = f}
Here(f) == {g \in Guide : In[g] = f /\ files[g] # Absent}
Listing == [guides : SUBSET Guide, subs : SUBSET Folder, desc : Body \cup {Absent}]
NoListing == [guides |-> {}, subs |-> {}, desc |-> Absent]
Idle == [folder |-> None, text |-> Absent]

Init ==
  /\ dirs = {} /\ files = [g \in Guide |-> Absent]
  /\ db = [has |-> {}, row |-> [f \in Folder |-> NoRow], guide |-> [g \in Guide |-> Absent]]
  /\ overrides = [f \in Folder |-> Absent]
  /\ writer = None /\ draft = db
  /\ pc = [s \in Scanner |-> "idle"] /\ at = [s \in Scanner |-> None]
  /\ todo = [s \in Scanner |-> {}] /\ seen = [s \in Scanner |-> NoListing]
  /\ job = [a \in Admin |-> Idle]
  /\ clean = [s \in Scanner |-> FALSE] /\ visited = [s \in Scanner |-> {}]
  /\ split = {}
  /\ edits = 0 /\ scans = 0 /\ texts = 0

----------------------------------------------------------------------------
(* The disk: pulls, editors and removals.                                  *)

Edit ==
  /\ edits < MaxEdits
  /\ edits' = edits + 1
  /\ clean' = [s \in Scanner |-> FALSE]
  /\ UNCHANGED <<tables, pc, at, todo, seen, visited, admin, scans, texts>>

MakeFolder(f) ==
  /\ f \notin dirs /\ (Parent[f] = None \/ Parent[f] \in dirs)
  /\ dirs' = dirs \cup {f}
  /\ UNCHANGED files
  /\ Edit

WriteGuide(g, b) ==
  /\ In[g] \in dirs
  /\ files' = [files EXCEPT ![g] = b]
  /\ UNCHANGED dirs
  /\ Edit

RemoveFolder(f) ==
  /\ f \in dirs /\ Subs(f) = {}
  /\ dirs' = dirs \ {f}
  /\ files' = [g \in Guide |-> IF In[g] = f THEN Absent ELSE files[g]]
  /\ Edit

----------------------------------------------------------------------------
(* A scan.                                                                 *)

(* What a scan sees: its own writes, once it has written.                  *)
View(s) == IF writer = s THEN draft ELSE db
CanWrite(s) == writer \in {None, s}

StartScan(s) ==
  /\ pc[s] = "idle"
  /\ scans < MaxScans
  /\ scans' = scans + 1
  /\ pc' = [pc EXCEPT ![s] = "walk"]
  /\ todo' = [todo EXCEPT ![s] = Subs(None)]
  /\ clean' = [clean EXCEPT ![s] = TRUE]
  /\ UNCHANGED <<disk, tables, at, seen, visited, admin, edits, texts>>

(* ReadDir.  A folder that is gone by now is an error, and is skipped.     *)
(* Folders are visited depth first; their order changes nothing else.      *)
ReadFolder(s) ==
  /\ pc[s] = "walk"
  /\ \E f \in todo[s] :
       /\ todo' = [todo EXCEPT ![s] = @ \ {f}]
       /\ IF f \in dirs
          THEN /\ at' = [at EXCEPT ![s] = f]
               /\ seen' = [seen EXCEPT ![s] =
                             [guides |-> Here(f), subs |-> Subs(f), desc |-> Absent]]
               /\ pc' = [pc EXCEPT ![s] = IF IndexOf[f] \in Here(f) THEN "index" ELSE "upsert"]
          ELSE UNCHANGED <<at, seen, pc>>
  /\ UNCHANGED <<disk, tables, clean, visited, admin, bounds>>

(* The description is the first paragraph of index.md, if it can be read.  *)
ReadIndex(s) ==
  /\ pc[s] = "index"
  /\ seen' = [seen EXCEPT ![s].desc = files[IndexOf[at[s]]]]
  /\ pc' = [pc EXCEPT ![s] = "upsert"]
  /\ UNCHANGED <<disk, tables, at, todo, clean, visited, admin, bounds>>

(* A folder is a leaf when it holds markdown files and no subfolders.      *)
IsLeaf(l) == l.guides # {} /\ l.subs = {}

(* A definition whose name ends in Fault is a plausible mistake in the one *)
(* that follows it; nothing uses it.                                       *)
UpsertRowFault(t, f, l) ==
  [t EXCEPT !.has = @ \cup {f},
            !.row[f] = IF f \in t.has THEN [@ EXCEPT !.leaf = IsLeaf(l), !.desc = l.desc]
                       ELSE [NoRow EXCEPT !.leaf = IsLeaf(l), !.desc = l.desc]]

(* On conflict the description stays as it is, and so do the counts.       *)
UpsertRow(t, f, l) ==
  [t EXCEPT !.has = @ \cup {f},
            !.row[f] = IF f \in t.has THEN [@ EXCEPT !.leaf = IsLeaf(l)]
                       ELSE [NoRow EXCEPT !.leaf = IsLeaf(l), !.desc = l.desc]]

UpsertFolder(s) ==
  /\ pc[s] = "upsert"
  /\ CanWrite(s)
  /\ draft' = UpsertRow(View(s), at[s], seen[s])
  /\ writer' = s
  /\ pc' = [pc EXCEPT ![s] = "guides"]
  /\ visited' = [visited EXCEPT ![s] = @ \cup {at[s]}]
  /\ UNCHANGED <<disk, db, at, todo, seen, clean, admin, bounds>>

Forget(s) ==
  /\ at' = [at EXCEPT ![s] = None]
  /\ seen' = [seen EXCEPT ![s] = NoListing]

SkippedFault(s) == todo[s] \cup seen[s].subs

(* The whole subtree is skipped, and the scan goes on.                     *)
Skipped(s) == todo[s]

UpsertBusy(s) ==
  /\ pc[s] = "upsert"
  /\ ~CanWrite(s)
  /\ pc' = [pc EXCEPT ![s] = "walk"]
  /\ todo' = [todo EXCEPT ![s] = Skipped(s)]
  /\ Forget(s)
  /\ clean' = [clean EXCEPT ![s] = FALSE]
  /\ UNCHANGED <<disk, tables, visited, admin, bounds>>

UpsertGuide(t, g, b) == [t EXCEPT !.guide[g] = b]

(* A file of the listing that cannot be read any more is left out.         *)
IndexGuide(s) ==
  /\ pc[s] = "guides"
  /\ \E g \in seen[s].guides :
       /\ seen' = [seen EXCEPT ![s].guides = @ \ {g}]
       /\ draft' = IF files[g] = Absent THEN draft ELSE UpsertGuide(draft, g, files[g])
  /\ UNCHANGED <<disk, db, writer, pc, at, todo, clean, visited, admin, bounds>>

LeaveFault(s) == todo[s]

(* Then the subfolders.                                                    *)
Leave(s) == todo[s] \cup seen[s].subs

LeaveFolder(s) ==
  /\ pc[s] = "guides"
  /\ seen[s].guides = {}
  /\ todo' = [todo EXCEPT ![s] = Leave(s)]
  /\ Forget(s)
  /\ pc' = [pc EXCEPT ![s] = "walk"]
  /\ UNCHANGED <<disk, tables, clean, visited, admin, bounds>>

ChildrenOf(t, f) == Cardinality({e \in t.has : Parent[e] = f})
GuidesOf(t, f) == Cardinality({g \in Guide : In[g] = f /\ t.guide[g] # Absent})

AggregatedFault(t) ==
  [t EXCEPT !.row = [f \in Folder |->
     IF f \notin t.has THEN t.row[f]
     ELSE [t.row[f] EXCEPT !.children = ChildrenOf(db, f),
                           !.guides = IF t.row[f].leaf THEN GuidesOf(db, f) ELSE @]]]

(* updateAggregates: child_count everywhere, guide_count only for leaves.  *)
Aggregated(t) ==
  [t EXCEPT !.row = [f \in Folder |->
     IF f \notin t.has THEN t.row[f]
     ELSE [t.row[f] EXCEPT !.children = ChildrenOf(t, f),
                           !.guides = IF t.row[f].leaf THEN GuidesOf(t, f) ELSE @]]]

EndScan(s) ==
  /\ pc[s] = "walk" /\ todo[s] = {}
  /\ CanWrite(s)
  /\ db' = Aggregated(View(s))
  /\ draft' = db'
  /\ writer' = None
  /\ pc' = [pc EXCEPT ![s] = "idle"]
  /\ clean' = [clean EXCEPT ![s] = FALSE]
  /\ visited' = [visited EXCEPT ![s] = {}]
  /\ UNCHANGED <<disk, at, todo, seen, admin, bounds>>

(* The aggregates need the write lock; without it the scan rolls back, and *)
(* it had written nothing.                                                 *)
ScanFails(s) ==
  /\ pc[s] = "walk" /\ todo[s] = {}
  /\ ~CanWrite(s)
  /\ pc' = [pc EXCEPT ![s] = "idle"]
  /\ clean' = [clean EXCEPT ![s] = FALSE]
  /\ visited' = [visited EXCEPT ![s] = {}]
  /\ UNCHANGED <<disk, tables, at, todo, seen, admin, bounds>>

----------------------------------------------------------------------------
(* SetFolderDescription: two statements, each its own transaction.  Nothing*)
(* checks that the folder exists: foreign keys are not enforced.           *)

UnderWay(f) == \E a \in Admin : job[a].folder = f

WriteOverride(a, f, t) ==
  /\ job[a] = Idle
  /\ texts < MaxTexts
  /\ texts' = texts + 1
  /\ writer = None
  /\ overrides' = [overrides EXCEPT ![f] = t]
  /\ job' = [job EXCEPT ![a] = [folder |-> f, text |-> t]]
  /\ split' = IF UnderWay(f) THEN split \cup {f} ELSE split \ {f}
  /\ UNCHANGED <<disk, tables, walk, edits, scans>>

Describe(r, t) == [r EXCEPT !.desc = t, !.source = "override"]

WriteDescription(a) ==
  /\ job[a] # Idle
  /\ writer = None
  /\ LET f == job[a].folder IN
       /\ db' = IF f \in db.has THEN [db EXCEPT !.row[f] = Describe(@, job[a].text)] ELSE db
       /\ split' = IF f \in db.has THEN split ELSE split \cup {f}
  /\ draft' = db'
  /\ job' = [job EXCEPT ![a] = Idle]
  /\ UNCHANGED <<disk, writer, walk, overrides, bounds>>

(* The second statement waits for the lock in vain.                        *)
DescriptionBusy(a) ==
  /\ job[a] # Idle
  /\ writer # None
  /\ split' = split \cup {job[a].folder}
  /\ job' = [job EXCEPT ![a] = Idle]
  /\ UNCHANGED <<disk, tables, walk, overrides, bounds>>

----------------------------------------------------------------------------
(* The process stops; an open transaction is rolled back.                  *)
Crash ==
  /\ pc' = [s \in Scanner |-> "idle"]
  /\ at' = [s \in Scanner |-> None]
  /\ todo' = [s \in Scanner |-> {}]
  /\ seen' = [s \in Scanner |-> NoListing]
  /\ clean' = [s \in Scanner |-> FALSE]
  /\ visited' = [s \in Scanner |-> {}]
  /\ writer' = None
  /\ draft' = db
  /\ split' = split \cup {f \in Folder : UnderWay(f)}
  /\ job' = [a \in Admin |-> Idle]
  /\ UNCHANGED <<disk, db, overrides, bounds>>

Next ==
  \/ \E f \in Folder : MakeFolder(f) \/ RemoveFolder(f)
  \/ \E g \in Guide, b \in Body \cup {Absent} : WriteGuide(g, b)
  \/ \E s \in Scanner :
       \/ StartScan(s) \/ ReadFolder(s) \/ ReadIndex(s)
       \/ UpsertFolder(s) \/ UpsertBusy(s) \/ IndexGuide(s) \/ LeaveFolder(s)
       \/ EndScan(s) \/ ScanFails(s)
  \/ \E a \in Admin, f \in Folder, t \in Text : WriteOverride(a, f, t)
  \/ \E a \in Admin : WriteDescription(a) \/ DescriptionBusy(a)
  \/ Crash

Spec == Init /\ [][Next]_vars

----------------------------------------------------------------------------
TypeOK ==
  /\ dirs \subseteq Folder
  /\ files \in [Guide -> Body \cup {Absent}]
  /\ db \in Tables /\ draft \in Tables
  /\ overrides \in [Folder -> Text \cup {Absent}]
  /\ writer \in Scanner \cup {None}
  /\ pc \in [Scanner -> Step]
  /\ at \in [Scanner -> Folder \cup {None}]
  /\ \A s \in Scanner : pc[s] \in {"index", "upsert", "guides"} => at[s] \in Folder
  /\ \A s \in Scanner : pc[s] = "index" => IndexOf[at[s]] \in Guide
  /\ todo \in [Scanner -> SUBSET Folder]
  /\ seen \in [Scanner -> Listing]
  /\ job \in [Admin -> [folder : Folder \cup {None}, text : Text \cup {Absent}]]
  /\ \A a \in Admin : job[a] # Idle => job[a].folder \in Folder /\ job[a].text \in Text
  /\ clean \in [Scanner -> BOOLEAN]
  /\ visited \in [Scanner -> SUBSET Folder]
  /\ split \subseteq Folder
  /\ edits \in 0 .. MaxEdits /\ scans \in 0 .. MaxScans /\ texts \in 0 .. MaxTexts

(* No folder without its parent and no guide without its folder, although  *)
(* a scan goes on after a folder could not be written (VerifyNavigationDB).*)
RowsConnected ==
  /\ \A f \in db.has : Parent[f] # None => Parent[f] \in db.has
  /\ \A g \in Guide : db.guide[g] # Absent => In[g] \in db.has

(* The counts readers see are those of the rows they see: updateAggregates *)
(* counts in the transaction that adds them.  Not the guides of a folder   *)
(* that has subfolders.                                                    *)
CountsAreRows ==
  \A f \in db.has :
    /\ db.row[f].children = ChildrenOf(db, f)
    /\ db.row[f].leaf => db.row[f].guides = GuidesOf(db, f)

(* The folders GetNavigationTree shows below a folder: it looks for none   *)
(* below a leaf.                                                           *)
Children(t, f) == IF t.row[f].leaf THEN {} ELSE {e \in t.has : Parent[e] = f}

(* What the tables say of the folders and guides that exist.               *)
Agrees(t) ==
  /\ \A f \in dirs :
       /\ f \in t.has
       /\ t.row[f].leaf <=> (Here(f) # {} /\ Subs(f) = {})
  /\ \A g \in Guide : files[g] # Absent => t.guide[g] = files[g]

(* A scan that ends without an error agrees with the disk, if that stayed  *)
(* as it was; GetNavigationTree then goes down to each folder there is.    *)
(* What is gone from the disk stays in the tables.  ScanDataDirectories.   *)
CompleteScanAgrees ==
  [][\A s \in Scanner :
       EndScan(s) /\ clean[s] =>
         /\ Agrees(db')
         /\ \A f \in dirs : Parent[f] # None => f \in Children(db', Parent[f])]_vars

(* The description an operator has set is what readers get: scans leave it *)
(* alone, and only a request that failed between its two statements, raced *)
(* with another or was early for the folder makes the two tables differ.   *)
(* SetFolderDescription, upsertFolder.                                     *)
OverrideShown ==
  \A f \in db.has :
    overrides[f] # Absent /\ ~UnderWay(f) /\ f \notin split =>
      db.row[f].desc = overrides[f] /\ db.row[f].source = "override"
=============================================================================
