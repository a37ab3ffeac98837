-------------------------- MODULE NavIndex_proofs --------------------------
(***************************************************************************)
(* The navigation index for every tree of folders, any number of scans and *)
(* requests, and any changes of the disk.                                  *)
(***************************************************************************)
EXTENDS NavIndex, FiniteSetTheorems, TLAPS

USE NavAssumption
USE DEF disk, tables, walk, admin, bounds

(* A folder lies in a folder, a file in a folder.                          *)
DiskInv ==
  /\ \A f \in dirs : Parent[f] # None => Parent[f] \in dirs
  /\ \A g \in Guide : files[g] # Absent => In[g] \in dirs

(* The write lock is held by a scan, and by the one that writes.           *)
LockInv ==
  /\ writer # None => pc[writer] # "idle"
  /\ writer = None => draft = db
  /\ \A s \in Scanner : pc[s] = "guides" => writer = s

Connected(t) ==
  /\ \A f \in t.has : Parent[f] # None => Parent[f] \in t.has
  /\ \A g \in Guide : t.guide[g] # Absent => In[g] \in t.has

(* A scan that has gone down from a folder has written that folder.        *)
Entered(s) == pc[s] \in {"index", "upsert", "guides"}
Written(s, f) == f # None => writer = s /\ f \in draft.has

WalkInv ==
  \A s \in Scanner :
    /\ pc[s] = "idle" => todo[s] = {} /\ visited[s] = {} /\ ~clean[s]
    /\ \A f \in todo[s] : Written(s, Parent[f])
    /\ Entered(s) => /\ Written(s, Parent[at[s]])
                     /\ \A e \in seen[s].subs : Parent[e] = at[s]
                     /\ \A g \in seen[s].guides : In[g] = at[s]
    /\ pc[s] = "guides" => at[s] \in draft.has

(* The request that wrote an override last will write the same text into   *)
(* the folder, and no other request will touch the folder.                 *)
JobInv ==
  \A a \in Admin :
    job[a] # Idle /\ job[a].folder \notin split =>
      /\ overrides[job[a].folder] = job[a].text
      /\ \A b \in Admin : job[b].folder = job[a].folder => b = a

Shown(t) ==
  \A f \in Folder :
    overrides[f] # Absent /\ ~UnderWay(f) /\ f \notin split =>
      f \in t.has /\ t.row[f].desc = overrides[f] /\ t.row[f].source = "override"

(* Of a scan on a quiet disk: what it has seen and not written, and that   *)
(* what it has written agrees.                                             *)
Pending(s) ==
  todo[s] \cup (IF pc[s] \in {"index", "upsert"} THEN {at[s]} ELSE {})
          \cup (IF pc[s] = "guides" THEN Subs(at[s]) ELSE {})

Indexed(s, f) ==
  /\ writer = s /\ f \in draft.has
  /\ draft.row[f].leaf <=> (Here(f) # {} /\ Subs(f) = {})
  /\ \A g \in Here(f) : \/ draft.guide[g] = files[g]
                        \/ pc[s] = "guides" /\ at[s] = f /\ g \in seen[s].guides

Faithful(s) ==
  /\ Entered(s) => at[s] \in dirs /\ seen[s].subs = Subs(at[s])
  /\ pc[s] \in {"index", "upsert"} => seen[s].guides = Here(at[s])
  /\ \A f \in dirs : Parent[f] = None \/ Parent[f] \in visited[s]
                       => f \in Pending(s) \cup visited[s]
  /\ \A f \in visited[s] \cap dirs : Indexed(s, f)

CleanInv == \A s \in Scanner : clean[s] => Faithful(s)

IndInv ==
  /\ TypeOK
  /\ DiskInv
  /\ LockInv
  /\ Connected(db) /\ Connected(draft)
  /\ WalkInv
  /\ JobInv
  /\ Shown(db) /\ Shown(draft)
  /\ CleanInv
  /\ CountsAreRows

----------------------------------------------------------------------------
(* What the statements of a scan do to the tables.                         *)

LEMMA UpsertRowType ==
  ASSUME NEW t \in Tables, NEW f \in Folder, NEW l \in Listing
  PROVE  /\ UpsertRow(t, f, l) \in Tables
         /\ UpsertRow(t, f, l).has = t.has \cup {f}
         /\ UpsertRow(t, f, l).guide = t.guide
         /\ UpsertRow(t, f, l).row[f].leaf = IsLeaf(l)
         /\ \A e \in Folder : e # f => UpsertRow(t, f, l).row[e] = t.row[e]
         /\ \A e \in t.has : /\ UpsertRow(t, f, l).row[e].desc = t.row[e].desc
                             /\ UpsertRow(t, f, l).row[e].source = t.row[e].source
<1> DEFINE new == IF f \in t.has THEN [t.row[f] EXCEPT !.leaf = IsLeaf(l)]
                  ELSE [NoRow EXCEPT !.leaf = IsLeaf(l), !.desc = l.desc]
<1>1. t.row \in [Folder -> Row] /\ t.has \subseteq Folder /\ t.row[f] \in Row
  BY DEF Tables
<1>2. new \in Row /\ new.leaf = IsLeaf(l)
  BY <1>1 DEF Row, NoRow, IsLeaf, Listing
<1>3. f \in t.has => new.desc = t.row[f].desc /\ new.source = t.row[f].source
  BY <1>1 DEF Row
<1>4. UpsertRow(t, f, l) = [t EXCEPT !.has = t.has \cup {f}, !.row = [t.row EXCEPT ![f] = new]]
  BY <1>1 DEF UpsertRow, Tables
<1> HIDE DEF new
<1>5. UpsertRow(t, f, l) = [has |-> t.has \cup {f}, row |-> [t.row EXCEPT ![f] = new], guide |-> t.guide]
  BY <1>4 DEF Tables
<1> QED
  BY <1>1, <1>2, <1>3, <1>5 DEF Tables

LEMMA CountTypes ==
  ASSUME NEW t \in Tables, NEW f \in Folder
  PROVE  ChildrenOf(t, f) \in Nat /\ GuidesOf(t, f) \in Nat
<1>1. /\ {e \in t.has : Parent[e] = f} \subseteq Folder
      /\ {g \in Guide : In[g] = f /\ t.guide[g] # Absent} \subseteq Guide
  BY DEF Tables
<1>2. /\ IsFiniteSet({e \in t.has : Parent[e] = f})
      /\ IsFiniteSet({g \in Guide : In[g] = f /\ t.guide[g] # Absent})
  BY <1>1, FS_Subset
<1> QED
  BY <1>2, FS_CardinalityType DEF ChildrenOf, GuidesOf

LEMMA AggregatedType ==
  ASSUME NEW t \in Tables
  PROVE  /\ Aggregated(t) \in Tables
         /\ Aggregated(t).has = t.has
         /\ Aggregated(t).guide = t.guide
         /\ \A f \in t.has :
              /\ Aggregated(t).row[f].leaf = t.row[f].leaf
              /\ Aggregated(t).row[f].desc = t.row[f].desc
              /\ Aggregated(t).row[f].source = t.row[f].source
              /\ Aggregated(t).row[f].children = ChildrenOf(t, f)
              /\ t.row[f].leaf => Aggregated(t).row[f].guides = GuidesOf(t, f)
<1> DEFINE counted(f) ==
      [t.row[f] EXCEPT !.children = ChildrenOf(t, f),
                       !.guides = IF t.row[f].leaf THEN GuidesOf(t, f) ELSE t.row[f].guides]
    new == [f \in Folder |-> IF f \notin t.has THEN t.row[f] ELSE counted(f)]
<1>1. t.row \in [Folder -> Row] /\ t.has \subseteq Folder
  BY DEF Tables
<1>2. \A f \in Folder :
        /\ counted(f) \in Row
        /\ counted(f).leaf = t.row[f].leaf
        /\ counted(f).desc = t.row[f].desc
        /\ counted(f).source = t.row[f].source
        /\ counted(f).children = ChildrenOf(t, f)
        /\ t.row[f].leaf => counted(f).guides = GuidesOf(t, f)
  <2> SUFFICES ASSUME NEW f \in Folder
               PROVE  /\ counted(f) \in Row
                      /\ counted(f).leaf = t.row[f].leaf
                      /\ counted(f).desc = t.row[f].desc
                      /\ counted(f).source = t.row[f].source
                      /\ counted(f).children = ChildrenOf(t, f)
                      /\ t.row[f].leaf => counted(f).guides = GuidesOf(t, f)
    OBVIOUS
  <2>1. t.row[f] \in Row
    BY <1>1
  <2>2. ChildrenOf(t, f) \in Nat /\ GuidesOf(t, f) \in Nat
    BY CountTypes
  <2> QED
    BY <2>1, <2>2 DEF Row
<1>3. Aggregated(t) = [t EXCEPT !.row = new]
  BY <1>1 DEF Aggregated, Tables, Row
<1> HIDE DEF counted
<1>4. Aggregated(t) = [has |-> t.has, row |-> new, guide |-> t.guide]
  BY <1>3 DEF Tables
<1>5. new \in [Folder -> Row] /\ \A f \in t.has : new[f] = counted(f)
  BY <1>1, <1>2
<1> HIDE DEF new
<1> QED
  BY <1>1, <1>2, <1>4, <1>5 DEF Tables

(* Counts only depend on which rows there are.                             *)
LEMMA CountsKept ==
  ASSUME NEW t, NEW u, t.has = u.has, t.guide = u.guide, NEW f
  PROVE  ChildrenOf(t, f) = ChildrenOf(u, f) /\ GuidesOf(t, f) = GuidesOf(u, f)
BY DEF ChildrenOf, GuidesOf

----------------------------------------------------------------------------
LEMMA InitInv == Init => IndInv
<1> SUFFICES ASSUME Init PROVE IndInv
  OBVIOUS
<1>1. NoRow \in Row /\ NoListing \in Listing
  BY DEF NoRow, Row, NoListing, Listing
<1>2. db \in Tables /\ db.has = {} /\ db.guide = [g \in Guide |-> Absent]
  BY <1>1 DEF Init, Tables
<1>3. TypeOK
  BY <1>1, <1>2 DEF Init, TypeOK, Step, Idle
<1>4. DiskInv /\ LockInv /\ WalkInv /\ JobInv /\ CleanInv
  BY DEF Init, DiskInv, LockInv, WalkInv, JobInv, CleanInv, Entered
<1>5. Connected(db) /\ Shown(db) /\ CountsAreRows
  BY <1>2 DEF Init, Connected, Shown, CountsAreRows
<1>6. Connected(draft) /\ Shown(draft)
  BY <1>5 DEF Init
<1> QED
  BY <1>3, <1>4, <1>5, <1>6 DEF IndInv

(* What is said of the committed tables and the requests stays true in a   *)
(* step that leaves them alone.                                            *)
LEMMA RowsKeep ==
  ASSUME IndInv, db' = db
  PROVE  Connected(db)' /\ CountsAreRows'
<1>1. db' = db
  OBVIOUS
<1>2. Connected(db)'
  BY <1>1 DEF IndInv, Connected
<1>3. CountsAreRows'
  BY <1>1 DEF IndInv, CountsAreRows, ChildrenOf, GuidesOf
<1> QED
  BY <1>2, <1>3

LEMMA AdminKeeps ==
  ASSUME IndInv, UNCHANGED <<db, admin>>
  PROVE  Connected(db)' /\ JobInv' /\ Shown(db)' /\ CountsAreRows'
<1>1. db' = db /\ overrides' = overrides /\ job' = job /\ split' = split
  OBVIOUS
<1>2. Connected(db)' /\ CountsAreRows'
  BY <1>1, RowsKeep
<1>3. JobInv' /\ Shown(db)'
  BY <1>1 DEF IndInv, JobInv, Shown, UnderWay
<1> QED
  BY <1>2, <1>3

LEMMA TablesKeep ==
  ASSUME IndInv, UNCHANGED <<tables, admin>>
  PROVE  /\ Connected(db)' /\ JobInv' /\ Shown(db)' /\ CountsAreRows'
         /\ Connected(draft)' /\ Shown(draft)'
<1>1. draft' = draft /\ overrides' = overrides /\ job' = job /\ split' = split
  OBVIOUS
<1>2. Connected(draft)' /\ Shown(draft)'
  BY <1>1 DEF IndInv, Connected, Shown, UnderWay
<1> QED
  BY <1>2, AdminKeeps

----------------------------------------------------------------------------
(* The disk changes, and no scan is clean any more.                        *)
LEMMA EditInv ==
  ASSUME IndInv, Edit,
         \/ \E f \in Folder : MakeFolder(f) \/ RemoveFolder(f)
         \/ \E g \in Guide, b \in Body \cup {Absent} : WriteGuide(g, b)
  PROVE  IndInv'
<1>1. TypeOK' /\ DiskInv'
  <2>1. dirs' \subseteq Folder /\ files' \in [Guide -> Body \cup {Absent}]
    BY DEF IndInv, TypeOK, MakeFolder, RemoveFolder, WriteGuide
  <2>2. DiskInv'
    <3>1. CASE \E f \in Folder : MakeFolder(f)
      BY <3>1 DEF MakeFolder, IndInv, DiskInv
    <3>2. ASSUME NEW f \in Folder, RemoveFolder(f) PROVE DiskInv'
      BY <3>2 DEF RemoveFolder, Subs, IndInv, TypeOK, DiskInv
    <3>3. CASE \E g \in Guide, b \in Body \cup {Absent} : WriteGuide(g, b)
      BY <3>3 DEF WriteGuide, IndInv, TypeOK, DiskInv
    <3> QED
      BY <3>1, <3>2, <3>3
  <2>3. edits' \in 0 .. MaxEdits
    BY DEF Edit, IndInv, TypeOK
  <2> QED
    BY <2>1, <2>2, <2>3 DEF Edit, IndInv, TypeOK
<1>2. LockInv' /\ WalkInv' /\ CleanInv'
  BY DEF Edit, IndInv, TypeOK, LockInv, WalkInv, Written, Entered, CleanInv
<1> QED
  BY <1>1, <1>2, TablesKeep DEF Edit, IndInv

----------------------------------------------------------------------------
(* Steps of a scan that write nothing.                                     *)

LEMMA StartScanInv ==
  ASSUME IndInv, NEW s \in Scanner, StartScan(s)
  PROVE  IndInv'
<1>1. TypeOK'
  BY DEF StartScan, IndInv, TypeOK, Step, Subs
<1>2. DiskInv' /\ LockInv'
  BY DEF StartScan, IndInv, TypeOK, DiskInv, LockInv
<1>3. WalkInv'
  BY DEF StartScan, IndInv, TypeOK, WalkInv, Written, Entered, Subs
<1>4. CleanInv'
  <2> SUFFICES ASSUME NEW r \in Scanner, clean'[r] PROVE Faithful(r)'
    BY DEF CleanInv
  <2>1. CASE r = s
    <3>1. todo'[s] = Subs(None) /\ pc'[s] = "walk" /\ visited'[s] = {}
      BY DEF StartScan, IndInv, TypeOK, WalkInv
    <3> QED
      BY <2>1, <3>1 DEF StartScan, Faithful, Entered, Pending, Subs
  <2>2. CASE r # s
    <3>1. Faithful(r)
      BY <2>2 DEF StartScan, IndInv, TypeOK, CleanInv
    <3>2. todo'[r] = todo[r] /\ pc'[r] = pc[r]
      BY <2>2 DEF StartScan, IndInv, TypeOK
    <3> QED
      BY <3>1, <3>2 DEF StartScan, Faithful, Entered, Pending, Indexed, Here, Subs
  <2> QED
    BY <2>1, <2>2
<1> QED
  BY <1>1, <1>2, <1>3, <1>4, TablesKeep DEF StartScan, IndInv

(* Others are as faithful as before when this scan alone moves.            *)
LEMMA OthersFaithful ==
  ASSUME IndInv, NEW s \in Scanner, NEW r \in Scanner, r # s, Faithful(r),
         UNCHANGED <<disk, writer, draft>>,
         pc'[r] = pc[r], at'[r] = at[r], todo'[r] = todo[r], seen'[r] = seen[r],
         visited'[r] = visited[r]
  PROVE  Faithful(r)'
BY DEF Faithful, Entered, Pending, Indexed, Here, Subs

LEMMA ReadFolderInv ==
  ASSUME IndInv, NEW s \in Scanner, ReadFolder(s)
  PROVE  IndInv'
<1>1. PICK f \in todo[s] :
        /\ todo' = [todo EXCEPT ![s] = @ \ {f}]
        /\ IF f \in dirs
           THEN /\ at' = [at EXCEPT ![s] = f]
                /\ seen' = [seen EXCEPT ![s] =
                              [guides |-> Here(f), subs |-> Subs(f), desc |-> Absent]]
                /\ pc' = [pc EXCEPT ![s] = IF IndexOf[f] \in Here(f) THEN "index" ELSE "upsert"]
           ELSE UNCHANGED <<at, seen, pc>>
  BY DEF ReadFolder
<1>2. f \in Folder /\ pc[s] = "walk"
  BY <1>1 DEF ReadFolder, IndInv, TypeOK
<1>3. [guides |-> Here(f), subs |-> Subs(f), desc |-> Absent] \in Listing
  BY DEF Here, Subs, Listing, IndInv, TypeOK
<1>4. TypeOK'
  <2>1. CASE f \in dirs
    <3>1. /\ at' = [at EXCEPT ![s] = f]
          /\ seen' \in [Scanner -> Listing]
          /\ todo' \in [Scanner -> SUBSET Folder]
      BY <1>1, <1>3, <2>1 DEF IndInv, TypeOK
    <3>2. /\ pc' = [pc EXCEPT ![s] = IF IndexOf[f] \in Here(f) THEN "index" ELSE "upsert"]
          /\ pc' \in [Scanner -> Step]
      BY <1>1, <2>1 DEF IndInv, TypeOK, Step
    <3>3. IndexOf[f] \in Here(f) => IndexOf[f] \in Guide
      BY DEF Here
    <3> QED
      BY <1>2, <3>1, <3>2, <3>3 DEF ReadFolder, IndInv, TypeOK
  <2>2. CASE f \notin dirs
    BY <1>1, <2>2 DEF ReadFolder, IndInv, TypeOK
  <2> QED
    BY <2>1, <2>2
<1>5. DiskInv' /\ LockInv'
  BY <1>1, <1>2 DEF ReadFolder, IndInv, TypeOK, DiskInv, LockInv
<1>6. WalkInv'
  BY <1>1, <1>2, <1>3 DEF ReadFolder, IndInv, TypeOK, WalkInv, Written, Entered, Subs, Here
<1>7. CleanInv'
  <2> SUFFICES ASSUME NEW r \in Scanner, clean'[r] PROVE Faithful(r)'
    BY DEF CleanInv
  <2>1. Faithful(r)
    BY DEF ReadFolder, IndInv, CleanInv
  <2>2. CASE r # s
    BY <1>1, <2>1, <2>2, OthersFaithful DEF ReadFolder, IndInv, TypeOK
  <2>3. CASE r = s /\ f \in dirs
    <3>1. /\ at'[s] = f /\ seen'[s].guides = Here(f) /\ seen'[s].subs = Subs(f)
          /\ pc'[s] \in {"index", "upsert"} /\ todo'[s] = todo[s] \ {f}
      BY <1>1, <1>2, <2>3 DEF IndInv, TypeOK
    <3> QED
      BY <1>2, <2>1, <2>3, <3>1
      DEF ReadFolder, Faithful, Entered, Pending, Indexed, Here, Subs
  <2>4. CASE r = s /\ f \notin dirs
    <3>1. todo'[s] = todo[s] \ {f} /\ UNCHANGED <<at, seen, pc>>
      BY <1>1, <2>4 DEF IndInv, TypeOK
    <3> QED
      BY <1>2, <2>1, <2>4, <3>1
      DEF ReadFolder, Faithful, Entered, Pending, Indexed, Here, Subs
  <2> QED
    BY <2>2, <2>3, <2>4
<1> QED
  BY <1>4, <1>5, <1>6, <1>7, TablesKeep DEF ReadFolder, IndInv

LEMMA ReadIndexInv ==
  ASSUME IndInv, NEW s \in Scanner, ReadIndex(s)
  PROVE  IndInv'
<1>1. /\ files[IndexOf[at[s]]] \in Body \cup {Absent}
      /\ seen[s] \in Listing
  BY DEF ReadIndex, IndInv, TypeOK
<1>2. /\ seen'[s] \in Listing
      /\ seen'[s].guides = seen[s].guides /\ seen'[s].subs = seen[s].subs
  BY <1>1 DEF ReadIndex, IndInv, TypeOK, Listing
<1>3. seen' \in [Scanner -> Listing] /\ \A r \in Scanner : r # s => seen'[r] = seen[r]
  BY <1>2 DEF ReadIndex, IndInv, TypeOK
<1>4. pc[s] = "index" /\ pc'[s] = "upsert" /\ \A r \in Scanner : r # s => pc'[r] = pc[r]
  BY DEF ReadIndex, IndInv, TypeOK
<1>5. TypeOK'
  BY <1>3, <1>4 DEF ReadIndex, IndInv, TypeOK, Step
<1>6. DiskInv' /\ LockInv'
  BY <1>4 DEF ReadIndex, IndInv, TypeOK, DiskInv, LockInv
<1>7. WalkInv'
  BY <1>2, <1>3, <1>4 DEF ReadIndex, IndInv, TypeOK, WalkInv, Written, Entered
<1>8. CleanInv'
  <2> SUFFICES ASSUME NEW r \in Scanner, clean'[r] PROVE Faithful(r)'
    BY DEF CleanInv
  <2>1. Faithful(r)
    BY DEF ReadIndex, IndInv, CleanInv
  <2>2. CASE r # s
    BY <1>3, <1>4, <2>1, <2>2, OthersFaithful DEF ReadIndex
  <2>3. CASE r = s
    BY <1>2, <1>4, <2>1, <2>3 DEF ReadIndex, Faithful, Entered, Pending, Indexed, Here, Subs
  <2> QED
    BY <2>2, <2>3
<1> QED
  BY <1>5, <1>6, <1>7, <1>8, TablesKeep DEF ReadIndex, IndInv

LEMMA UpsertBusyInv ==
  ASSUME IndInv, NEW s \in Scanner, UpsertBusy(s)
  PROVE  IndInv'
<1>1. pc[s] = "upsert" /\ pc'[s] = "walk" /\ \A r \in Scanner : r # s => pc'[r] = pc[r]
  BY DEF UpsertBusy, IndInv, TypeOK
<1>2. NoListing \in Listing
  BY DEF NoListing, Listing
<1>3. TypeOK'
  BY <1>1, <1>2 DEF UpsertBusy, Forget, Skipped, IndInv, TypeOK, Step
<1>4. DiskInv' /\ LockInv'
  BY <1>1 DEF UpsertBusy, Forget, IndInv, TypeOK, DiskInv, LockInv
<1>5. WalkInv'
  BY <1>1 DEF UpsertBusy, Forget, Skipped, IndInv, TypeOK, WalkInv, Written, Entered
<1>6. CleanInv'
  <2> SUFFICES ASSUME NEW r \in Scanner, clean'[r] PROVE Faithful(r)'
    BY DEF CleanInv
  <2>1. r # s /\ Faithful(r)
    BY DEF UpsertBusy, IndInv, TypeOK, CleanInv
  <2> QED
    BY <1>1, <2>1, OthersFaithful DEF UpsertBusy, Forget, IndInv, TypeOK
<1> QED
  BY <1>3, <1>4, <1>5, <1>6, TablesKeep DEF UpsertBusy, IndInv

LEMMA LeaveFolderInv ==
  ASSUME IndInv, NEW s \in Scanner, LeaveFolder(s)
  PROVE  IndInv'
<1>1. /\ pc[s] = "guides" /\ pc'[s] = "walk" /\ \A r \in Scanner : r # s => pc'[r] = pc[r]
      /\ todo'[s] = todo[s] \cup seen[s].subs
      /\ \A r \in Scanner : r # s => todo'[r] = todo[r]
  BY DEF LeaveFolder, Leave, IndInv, TypeOK
<1>2. NoListing \in Listing /\ seen[s].subs \subseteq Folder
  BY DEF NoListing, Listing, IndInv, TypeOK
<1>3. TypeOK'
  BY <1>1, <1>2 DEF LeaveFolder, Forget, Leave, IndInv, TypeOK, Step
<1>4. DiskInv' /\ LockInv'
  BY <1>1 DEF LeaveFolder, Forget, IndInv, TypeOK, DiskInv, LockInv
<1>5. WalkInv'
  BY <1>1 DEF LeaveFolder, Forget, IndInv, TypeOK, LockInv, WalkInv, Written, Entered
<1>6. CleanInv'
  <2> SUFFICES ASSUME NEW r \in Scanner, clean'[r] PROVE Faithful(r)'
    BY DEF CleanInv
  <2>1. Faithful(r)
    BY DEF LeaveFolder, IndInv, CleanInv
  <2>2. CASE r # s
    BY <1>1, <2>1, <2>2, OthersFaithful DEF LeaveFolder, Forget, IndInv, TypeOK
  <2>3. CASE r = s
    BY <1>1, <2>1, <2>3 DEF LeaveFolder, Faithful, Entered, Pending, Indexed, Here, Subs
  <2> QED
    BY <2>2, <2>3
<1> QED
  BY <1>3, <1>4, <1>5, <1>6, TablesKeep DEF LeaveFolder, IndInv

LEMMA ScanFailsInv ==
  ASSUME IndInv, NEW s \in Scanner, ScanFails(s)
  PROVE  IndInv'
<1>1. /\ pc[s] = "walk" /\ pc'[s] = "idle" /\ \A r \in Scanner : r # s => pc'[r] = pc[r]
      /\ writer # s
  BY DEF ScanFails, CanWrite, IndInv, TypeOK
<1>2. TypeOK'
  BY <1>1 DEF ScanFails, IndInv, TypeOK, Step
<1>3. DiskInv' /\ LockInv'
  BY <1>1 DEF ScanFails, IndInv, TypeOK, DiskInv, LockInv
<1>4. WalkInv'
  BY <1>1 DEF ScanFails, IndInv, TypeOK, WalkInv, Written, Entered
<1>5. CleanInv'
  <2> SUFFICES ASSUME NEW r \in Scanner, clean'[r] PROVE Faithful(r)'
    BY DEF CleanInv
  <2>1. r # s /\ Faithful(r)
    BY DEF ScanFails, IndInv, TypeOK, CleanInv
  <2> QED
    BY <1>1, <2>1, OthersFaithful DEF ScanFails, IndInv, TypeOK
<1> QED
  BY <1>2, <1>3, <1>4, <1>5, TablesKeep DEF ScanFails, IndInv

----------------------------------------------------------------------------
(* Steps of a scan that write: the others have written nothing.            *)

LEMMA ViewIsDraft ==
  ASSUME IndInv, NEW s \in Scanner, CanWrite(s)
  PROVE  /\ View(s) = draft
         /\ \A r \in Scanner : r # s =>
              pc[r] # "guides" /\ \A f \in Folder \cup {None} : Written(r, f) => f = None
BY DEF IndInv, LockInv, TypeOK, CanWrite, View, Written

(* A scan that has written nothing stays as faithful as it was.            *)
LEMMA ReadersFaithful ==
  ASSUME IndInv, NEW s \in Scanner, CanWrite(s), NEW r \in Scanner, r # s, Faithful(r),
         UNCHANGED disk,
         pc'[r] = pc[r], at'[r] = at[r], todo'[r] = todo[r], seen'[r] = seen[r],
         visited'[r] = visited[r]
  PROVE  Faithful(r)'
<1>1. writer # r
  BY DEF CanWrite, IndInv, TypeOK
<1>2. visited[r] \cap dirs = {}
  BY <1>1 DEF Faithful, Indexed
<1> QED
  BY <1>2 DEF Faithful, Entered, Pending, Here, Subs

LEMMA UpsertFolderInv ==
  ASSUME IndInv, NEW s \in Scanner, UpsertFolder(s)
  PROVE  IndInv'
<1>0. PICK f \in Folder : f = at[s]
  BY DEF UpsertFolder, IndInv, TypeOK
<1>1. /\ CanWrite(s) /\ View(s) = draft /\ f \in Folder /\ seen[s] \in Listing
      /\ draft \in Tables
      /\ draft' = UpsertRow(draft, f, seen[s]) /\ writer' = s
  BY <1>0, ViewIsDraft DEF UpsertFolder, IndInv, TypeOK
<1>2. /\ draft' \in Tables
      /\ draft'.has = draft.has \cup {f}
      /\ draft'.guide = draft.guide
      /\ draft'.row[f].leaf = IsLeaf(seen[s])
      /\ \A e \in Folder : e # f => draft'.row[e] = draft.row[e]
      /\ \A e \in draft.has : /\ draft'.row[e].desc = draft.row[e].desc
                              /\ draft'.row[e].source = draft.row[e].source
  BY <1>1, UpsertRowType
<1>3. /\ pc[s] = "upsert" /\ pc'[s] = "guides"
      /\ \A r \in Scanner : r # s => pc'[r] = pc[r] /\ pc[r] # "guides"
  BY <1>1, ViewIsDraft DEF UpsertFolder, IndInv, TypeOK
<1>4. TypeOK'
  BY <1>1, <1>2, <1>3 DEF UpsertFolder, IndInv, TypeOK, Step
<1>5. DiskInv' /\ LockInv'
  BY <1>1, <1>3 DEF UpsertFolder, IndInv, TypeOK, DiskInv, LockInv
<1>6. Parent[f] # None => Parent[f] \in draft.has
  BY <1>0, <1>1, <1>3 DEF IndInv, WalkInv, Entered, Written
<1>7. Connected(draft)'
  BY <1>2, <1>6 DEF IndInv, Connected
<1>8. Shown(draft)'
  BY <1>2 DEF UpsertFolder, IndInv, Shown, UnderWay
<1>9. WalkInv'
  <2> SUFFICES ASSUME NEW r \in Scanner PROVE WalkInv!(r)'
    BY DEF WalkInv
  <2>1. CASE r = s
    BY <1>0, <1>1, <1>2, <1>3, <2>1 DEF UpsertFolder, IndInv, TypeOK, WalkInv, Written, Entered
  <2>2. CASE r # s
    <3>1. writer # r
      BY <1>1, <2>2 DEF CanWrite, IndInv, TypeOK
    <3> QED
      BY <1>1, <1>3, <2>2, <3>1 DEF UpsertFolder, IndInv, TypeOK, WalkInv, Written, Entered
  <2> QED
    BY <2>1, <2>2
<1>10. CleanInv'
  <2> SUFFICES ASSUME NEW r \in Scanner, clean'[r] PROVE Faithful(r)'
    BY DEF CleanInv
  <2>1. Faithful(r)
    BY DEF UpsertFolder, IndInv, CleanInv
  <2>2. CASE r # s
    BY <1>1, <1>3, <2>1, <2>2, ReadersFaithful DEF UpsertFolder, IndInv, TypeOK
  <2>3. CASE r = s
    <3>1. visited'[s] = visited[s] \cup {f}
      BY <1>0 DEF UpsertFolder, IndInv, TypeOK
    <3>2. Pending(s)' = todo[s] \cup Subs(f) /\ Pending(s) = todo[s] \cup {f}
      BY <1>0, <1>3 DEF UpsertFolder, Pending, Subs
    <3>3. f \in dirs /\ seen[s].subs = Subs(f) /\ seen[s].guides = Here(f)
      BY <1>0, <1>3, <2>1, <2>3 DEF Faithful, Entered
    <3>4. \A e \in dirs : Parent[e] = None \/ Parent[e] \in visited[s] \cup {f}
                           => e \in todo[s] \cup Subs(f) \cup visited[s] \cup {f}
      BY <2>1, <2>3, <3>2 DEF Faithful, Subs
    <3>5. \A e \in visited'[s] \cap dirs : Indexed(s, e)'
      <4> SUFFICES ASSUME NEW e \in visited'[s] \cap dirs PROVE Indexed(s, e)'
        OBVIOUS
      <4>1. CASE e = f
        <5>1. /\ f \in draft'.has
              /\ draft'.row[f].leaf <=> (Here(f) # {} /\ Subs(f) = {})
          BY <1>2, <3>3 DEF IsLeaf
        <5>2. Here(f)' = Here(f) /\ Subs(f)' = Subs(f) /\ at'[s] = f
          BY <1>0 DEF UpsertFolder, Here, Subs
        <5>3. \A g \in Here(f) : g \in seen'[s].guides
          BY <3>3 DEF UpsertFolder
        <5>4. Indexed(s, f)'
          BY <1>1, <1>3, <5>1, <5>2, <5>3 DEF Indexed
        <5> QED
          BY <4>1, <5>4
      <4>2. CASE e # f
        <5>1. Indexed(s, e) /\ e \in Folder
          BY <2>1, <2>3, <3>1, <4>2 DEF Faithful, IndInv, TypeOK
        <5>2. draft'.row[e] = draft.row[e] /\ e \in draft'.has /\ draft'.guide = draft.guide
          BY <1>2, <4>2, <5>1 DEF Indexed
        <5>3. Here(e)' = Here(e) /\ Subs(e)' = Subs(e)
          BY DEF UpsertFolder, Here, Subs
        <5>4. \A g \in Here(e) : draft.guide[g] = files[g] /\ files'[g] = files[g]
          BY <1>3, <5>1 DEF UpsertFolder, Indexed
        <5>5. draft.row[e].leaf <=> (Here(e) # {} /\ Subs(e) = {})
          BY <5>1 DEF Indexed
        <5> QED
          BY <1>1, <5>2, <5>3, <5>4, <5>5 DEF Indexed
      <4> QED
        BY <4>1, <4>2
    <3> QED
      BY <1>0, <1>3, <2>3, <3>1, <3>2, <3>3, <3>4, <3>5
      DEF UpsertFolder, Faithful, Entered, Here, Subs
  <2> QED
    BY <2>2, <2>3
<1> QED
  BY <1>4, <1>5, <1>7, <1>8, <1>9, <1>10, AdminKeeps DEF UpsertFolder, IndInv

LEMMA IndexGuideInv ==
  ASSUME IndInv, NEW s \in Scanner, IndexGuide(s)
  PROVE  IndInv'
<1>1. PICK g \in seen[s].guides :
        /\ seen' = [seen EXCEPT ![s].guides = @ \ {g}]
        /\ draft' = IF files[g] = Absent THEN draft ELSE [draft EXCEPT !.guide[g] = files[g]]
  BY DEF IndexGuide, UpsertGuide
<1>2. /\ pc[s] = "guides" /\ writer = s /\ seen[s] \in Listing /\ g \in Guide
      /\ at[s] \in draft.has /\ In[g] = at[s] /\ draft \in Tables /\ CanWrite(s)
  BY <1>1 DEF IndexGuide, IndInv, TypeOK, LockInv, WalkInv, Entered, Listing, CanWrite
<1>3. /\ seen'[s] \in Listing /\ seen' \in [Scanner -> Listing]
      /\ seen'[s].guides = seen[s].guides \ {g} /\ seen'[s].subs = seen[s].subs
      /\ \A r \in Scanner : r # s => seen'[r] = seen[r]
  BY <1>1, <1>2 DEF Listing, IndInv, TypeOK
<1>4. /\ draft' \in Tables /\ draft'.has = draft.has /\ draft'.row = draft.row
      /\ \A h \in Guide : h # g => draft'.guide[h] = draft.guide[h]
      /\ draft'.guide[g] = IF files[g] = Absent THEN draft.guide[g] ELSE files[g]
  <2>1. files[g] \in Body \cup {Absent} /\ draft.guide \in [Guide -> Body \cup {Absent}]
    BY <1>2 DEF IndInv, TypeOK, Tables
  <2>2. [draft EXCEPT !.guide[g] = files[g]]
          = [has |-> draft.has, row |-> draft.row, guide |-> [draft.guide EXCEPT ![g] = files[g]]]
    BY <1>2 DEF Tables
  <2> QED
    BY <1>1, <1>2, <2>1, <2>2 DEF Tables
<1>5. TypeOK'
  BY <1>3, <1>4 DEF IndexGuide, IndInv, TypeOK
<1>6. DiskInv' /\ LockInv'
  BY <1>2 DEF IndexGuide, IndInv, DiskInv, LockInv
<1>7. Connected(draft)'
  BY <1>2, <1>4 DEF IndInv, Connected
<1>8. Shown(draft)'
  BY <1>4 DEF IndexGuide, IndInv, Shown, UnderWay
<1>9. WalkInv'
  BY <1>3, <1>4 DEF IndexGuide, IndInv, WalkInv, Written, Entered
<1>10. CleanInv'
  <2> SUFFICES ASSUME NEW r \in Scanner, clean'[r] PROVE Faithful(r)'
    BY DEF CleanInv
  <2>1. Faithful(r)
    BY DEF IndexGuide, IndInv, CleanInv
  <2>2. CASE r # s
    BY <1>2, <1>3, <2>1, <2>2, ReadersFaithful DEF IndexGuide
  <2>3. CASE r = s
    <3>1. ASSUME NEW f \in visited[s] \cap dirs PROVE Indexed(s, f)'
      <4>1. Indexed(s, f)
        BY <2>1, <2>3 DEF Faithful
      <4>2. Here(f)' = Here(f) /\ Subs(f)' = Subs(f)
        BY DEF IndexGuide, Here, Subs
      <4>3. /\ f \in draft'.has
            /\ draft'.row[f].leaf <=> (Here(f) # {} /\ Subs(f) = {})
        BY <1>4, <4>1 DEF Indexed
      <4>4. ASSUME NEW h \in Here(f)
            PROVE  \/ draft'.guide[h] = files[h]
                   \/ pc[s] = "guides" /\ at[s] = f /\ h \in seen'[s].guides
        <5>1. h \in Guide /\ files[h] # Absent
          BY DEF Here
        <5> QED
          BY <1>2, <1>3, <1>4, <4>1, <5>1 DEF Indexed
      <4> QED
        BY <1>2, <4>2, <4>3, <4>4 DEF IndexGuide, Indexed
    <3> QED
      BY <1>2, <1>3, <2>1, <2>3, <3>1 DEF IndexGuide, Faithful, Entered, Pending, Here, Subs
  <2> QED
    BY <2>2, <2>3
<1> QED
  BY <1>5, <1>6, <1>7, <1>8, <1>9, <1>10, AdminKeeps DEF IndexGuide, IndInv

LEMMA EndScanInv ==
  ASSUME IndInv, NEW s \in Scanner, EndScan(s)
  PROVE  IndInv'
<1>1. /\ CanWrite(s) /\ db' = Aggregated(draft) /\ draft' = db' /\ draft \in Tables
      /\ \A r \in Scanner : r # s =>
           pc[r] # "guides" /\ \A f \in Folder \cup {None} : Written(r, f) => f = None
  BY ViewIsDraft DEF EndScan, IndInv, TypeOK
<1>2. /\ db' \in Tables /\ db'.has = draft.has /\ db'.guide = draft.guide
      /\ \A f \in draft.has :
           /\ db'.row[f].leaf = draft.row[f].leaf
           /\ db'.row[f].desc = draft.row[f].desc
           /\ db'.row[f].source = draft.row[f].source
           /\ db'.row[f].children = ChildrenOf(draft, f)
           /\ draft.row[f].leaf => db'.row[f].guides = GuidesOf(draft, f)
  BY <1>1, AggregatedType
<1>3. pc[s] = "walk" /\ pc'[s] = "idle" /\ \A r \in Scanner : r # s => pc'[r] = pc[r]
  BY DEF EndScan, IndInv, TypeOK
<1>4. TypeOK'
  BY <1>1, <1>2, <1>3 DEF EndScan, IndInv, TypeOK, Step
<1>5. DiskInv' /\ LockInv'
  BY <1>1, <1>3 DEF EndScan, IndInv, DiskInv, LockInv
<1>6. Connected(db)' /\ Connected(draft)'
  BY <1>1, <1>2 DEF IndInv, Connected
<1>7. Shown(db)' /\ Shown(draft)' /\ JobInv'
  <2>1. JobInv'
    BY DEF EndScan, IndInv, JobInv
  <2>2. Shown(db)'
    BY <1>2 DEF EndScan, IndInv, Shown, UnderWay
  <2> QED
    BY <1>1, <2>1, <2>2 DEF Shown, UnderWay
<1>8. CountsAreRows'
  <2> SUFFICES ASSUME NEW f \in db'.has
               PROVE  /\ db'.row[f].children = ChildrenOf(db', f)
                      /\ db'.row[f].leaf => db'.row[f].guides = GuidesOf(db', f)
    BY DEF CountsAreRows, ChildrenOf, GuidesOf
  <2>1. ChildrenOf(db', f) = ChildrenOf(draft, f) /\ GuidesOf(db', f) = GuidesOf(draft, f)
    BY <1>2 DEF ChildrenOf, GuidesOf
  <2> QED
    BY <1>2, <2>1
<1>9. WalkInv'
  <2>1. WalkInv!(s)'
    BY <1>3 DEF EndScan, IndInv, TypeOK, WalkInv, Entered
  <2>2. ASSUME NEW r \in Scanner, r # s PROVE WalkInv!(r)'
    <3>1. \A f \in todo[r] : Parent[f] = None
      BY <1>1, <2>2 DEF IndInv, WalkInv, TypeOK
    <3>2. Entered(r) => Parent[at[r]] = None
      BY <1>1, <2>2 DEF IndInv, WalkInv, TypeOK, Entered
    <3> QED
      BY <1>1, <1>3, <2>2, <3>1, <3>2 DEF EndScan, IndInv, TypeOK, WalkInv, Written, Entered
  <2> QED
    BY <2>1, <2>2 DEF WalkInv
<1>10. CleanInv'
  <2> SUFFICES ASSUME NEW r \in Scanner, clean'[r] PROVE Faithful(r)'
    BY DEF CleanInv
  <2>1. r # s /\ Faithful(r)
    BY DEF EndScan, IndInv, TypeOK, CleanInv
  <2> QED
    BY <1>1, <1>3, <2>1, ReadersFaithful DEF EndScan, IndInv, TypeOK
<1> QED
  BY <1>4, <1>5, <1>6, <1>7, <1>8, <1>9, <1>10 DEF IndInv

----------------------------------------------------------------------------
(* Requests and crashes.                                                   *)

(* The scans do not notice a step of a request: it needs the write lock.   *)
LEMMA ScansKeep ==
  ASSUME IndInv, UNCHANGED <<disk, walk, writer>>,
         draft' = draft \/ (writer = None /\ draft'.has = draft.has /\ draft' = db')
  PROVE  DiskInv' /\ WalkInv' /\ CleanInv'
<1>1. DiskInv' /\ WalkInv'
  BY DEF IndInv, DiskInv, WalkInv, Written, Entered
<1>2. ASSUME NEW r \in Scanner, clean'[r] PROVE Faithful(r)'
  <2>1. Faithful(r)
    BY <1>2 DEF IndInv, CleanInv
  <2>2. CASE draft' = draft
    BY <2>1, <2>2 DEF Faithful, Entered, Pending, Indexed, Here, Subs
  <2>3. CASE writer = None
    <3>1. visited[r] \cap dirs = {}
      BY <2>1, <2>3 DEF Faithful, Indexed
    <3> QED
      BY <2>1, <3>1 DEF Faithful, Entered, Pending, Here, Subs
  <2> QED
    BY <2>2, <2>3
<1> QED
  BY <1>1, <1>2 DEF CleanInv

LEMMA WriteOverrideInv ==
  ASSUME IndInv, NEW a \in Admin, NEW f \in Folder, NEW t \in Text, WriteOverride(a, f, t)
  PROVE  IndInv'
<1>1. /\ job'[a] = [folder |-> f, text |-> t] /\ \A b \in Admin : b # a => job'[b] = job[b]
      /\ overrides'[f] = t /\ \A e \in Folder : e # f => overrides'[e] = overrides[e]
      /\ job[a] = Idle
  BY DEF WriteOverride, IndInv, TypeOK
<1>2. TypeOK'
  BY DEF WriteOverride, IndInv, TypeOK
<1>3. JobInv'
  <2> SUFFICES ASSUME NEW b \in Admin, job'[b] # Idle, job'[b].folder \notin split'
               PROVE  /\ overrides'[job'[b].folder] = job'[b].text
                      /\ \A c \in Admin : job'[c].folder = job'[b].folder => c = b
    BY DEF JobInv
  <2>1. CASE b = a
    <3>1. \A c \in Admin : job[c].folder # f
      BY <1>1, <2>1 DEF WriteOverride, UnderWay
    <3> QED
      BY <1>1, <2>1, <3>1
  <2>2. CASE b # a
    <3>1. job[b] # Idle /\ job'[b] = job[b] /\ job[b].folder # f
      BY <1>1, <2>2 DEF WriteOverride, UnderWay
    <3> QED
      BY <1>1, <2>2, <3>1 DEF WriteOverride, IndInv, TypeOK, JobInv
  <2> QED
    BY <2>1, <2>2
<1>4. UnderWay(f)' /\ \A e \in Folder : e # f => (UnderWay(e)' <=> UnderWay(e))
  BY <1>1 DEF UnderWay, Idle
<1>5. Shown(db)' /\ Shown(draft)'
  <2>1. \A e \in Folder : e # f /\ e \notin split' => e \notin split
    BY DEF WriteOverride
  <2>2. db' = db /\ draft' = draft
    BY DEF WriteOverride
  <2> QED
    BY <1>1, <1>4, <2>1, <2>2 DEF IndInv, Shown
<1>6. LockInv' /\ Connected(db)' /\ Connected(draft)' /\ CountsAreRows'
  <2>1. LockInv' /\ Connected(draft)'
    BY DEF WriteOverride, IndInv, LockInv, Connected
  <2> QED
    BY <2>1, RowsKeep DEF WriteOverride
<1> QED
  BY <1>2, <1>3, <1>5, <1>6, ScansKeep DEF WriteOverride, IndInv

(* A request that is over leaves the others as they were.                  *)
LEMMA JobEnds ==
  ASSUME IndInv, NEW a \in Admin, overrides' = overrides, split \subseteq split',
         job'[a] = Idle, \A b \in Admin : b # a => job'[b] = job[b]
  PROVE  JobInv'
<1> SUFFICES ASSUME NEW b \in Admin, job'[b] # Idle, job'[b].folder \notin split'
             PROVE  /\ overrides'[job'[b].folder] = job'[b].text
                    /\ \A c \in Admin : job'[c].folder = job'[b].folder => c = b
  BY DEF JobInv
<1>1. b # a /\ job'[b] = job[b] /\ job[b] # Idle /\ job[b].folder \notin split
  OBVIOUS
<1>2. job[b].folder \in Folder
  BY <1>1 DEF IndInv, TypeOK
<1>3. job'[a].folder = None
  BY DEF Idle
<1> QED
  BY <1>1, <1>2, <1>3 DEF IndInv, JobInv

LEMMA WriteDescriptionInv ==
  ASSUME IndInv, NEW a \in Admin, WriteDescription(a)
  PROVE  IndInv'
<1>1. PICK f \in Folder : f = job[a].folder
  BY DEF WriteDescription, IndInv, TypeOK
<1>2. /\ job[a] # Idle /\ job[a].text \in Text /\ writer = None /\ draft = db /\ db \in Tables
      /\ job'[a] = Idle /\ \A b \in Admin : b # a => job'[b] = job[b]
      /\ draft' = db'
  BY DEF WriteDescription, IndInv, TypeOK, LockInv
<1>3. /\ split' = IF f \in db.has THEN split ELSE split \cup {f}
      /\ db' = IF f \in db.has THEN [db EXCEPT !.row[f] = Describe(@, job[a].text)] ELSE db
  BY <1>1 DEF WriteDescription
<1>4. /\ db' \in Tables /\ db'.has = db.has /\ db'.guide = db.guide
      /\ \A e \in Folder : e # f => db'.row[e] = db.row[e]
      /\ db'.row[f].leaf = db.row[f].leaf /\ db'.row[f].children = db.row[f].children
      /\ db'.row[f].guides = db.row[f].guides
      /\ f \in db.has => db'.row[f].desc = job[a].text /\ db'.row[f].source = "override"
  <2> DEFINE new == Describe(db.row[f], job[a].text)
  <2>1. db.row \in [Folder -> Row] /\ db.row[f] \in Row
    BY <1>2 DEF Tables
  <2>2. /\ new \in Row /\ new.desc = job[a].text /\ new.source = "override"
        /\ new.leaf = db.row[f].leaf /\ new.children = db.row[f].children
        /\ new.guides = db.row[f].guides
    BY <1>2, <2>1 DEF Describe, Row
  <2>3. [db EXCEPT !.row[f] = new]
          = [has |-> db.has, row |-> [db.row EXCEPT ![f] = new], guide |-> db.guide]
    BY <1>2 DEF Tables
  <2> HIDE DEF new
  <2>4. db' = IF f \in db.has THEN [db EXCEPT !.row[f] = new] ELSE db
    BY <1>3 DEF new
  <2> QED
    BY <1>2, <2>1, <2>2, <2>3, <2>4 DEF Tables
<1>5. TypeOK'
  BY <1>2, <1>3, <1>4 DEF WriteDescription, IndInv, TypeOK, Idle
<1>6. JobInv'
  BY <1>2, <1>3, JobEnds DEF WriteDescription
<1>7. \A e \in Folder : e # f => (UnderWay(e)' <=> UnderWay(e))
  BY <1>1, <1>2 DEF UnderWay, Idle
<1>8. Shown(db)'
  <2> SUFFICES ASSUME NEW e \in Folder, overrides'[e] # Absent, ~UnderWay(e)', e \notin split'
               PROVE  e \in db'.has /\ db'.row[e].desc = overrides'[e] /\ db'.row[e].source = "override"
    BY DEF Shown
  <2>1. CASE e = f
    <3>1. f \in db.has /\ f \notin split
      BY <1>3, <2>1
    <3>2. overrides[f] = job[a].text
      BY <1>1, <1>2, <3>1 DEF IndInv, JobInv
    <3> QED
      BY <1>4, <2>1, <3>1, <3>2 DEF WriteDescription
  <2>2. CASE e # f
    BY <1>3, <1>4, <1>7, <2>2 DEF WriteDescription, IndInv, Shown
  <2> QED
    BY <2>1, <2>2
<1>9. Connected(db)' /\ CountsAreRows'
  <2>1. \A e \in Folder : ChildrenOf(db', e) = ChildrenOf(db, e) /\ GuidesOf(db', e) = GuidesOf(db, e)
    BY <1>4 DEF ChildrenOf, GuidesOf
  <2>2. \A e \in db'.has : /\ db'.row[e].children = ChildrenOf(db', e)
                           /\ db'.row[e].leaf => db'.row[e].guides = GuidesOf(db', e)
    BY <1>2, <1>4, <2>1 DEF IndInv, CountsAreRows, Tables
  <2>3. CountsAreRows'
    BY <2>2 DEF CountsAreRows, ChildrenOf, GuidesOf
  <2>4. Connected(db)'
    BY <1>4 DEF IndInv, Connected
  <2> QED
    BY <2>3, <2>4
<1>10. LockInv' /\ Connected(draft)' /\ Shown(draft)'
  BY <1>2, <1>8, <1>9 DEF WriteDescription, IndInv, LockInv, Connected, Shown, UnderWay
<1>11. DiskInv' /\ WalkInv' /\ CleanInv'
  BY <1>2, <1>4, ScansKeep DEF WriteDescription
<1> QED
  BY <1>5, <1>6, <1>8, <1>9, <1>10, <1>11 DEF IndInv

LEMMA DescriptionBusyInv ==
  ASSUME IndInv, NEW a \in Admin, DescriptionBusy(a)
  PROVE  IndInv'
<1>1. /\ job[a] # Idle /\ job[a].folder \in Folder
      /\ job'[a] = Idle /\ \A b \in Admin : b # a => job'[b] = job[b]
      /\ split' = split \cup {job[a].folder}
  BY DEF DescriptionBusy, IndInv, TypeOK
<1>2. TypeOK'
  BY <1>1 DEF DescriptionBusy, IndInv, TypeOK, Idle
<1>3. JobInv'
  BY <1>1, JobEnds DEF DescriptionBusy
<1>4. \A e \in Folder : e # job[a].folder => (UnderWay(e)' <=> UnderWay(e))
  BY <1>1 DEF UnderWay, Idle
<1>5. Shown(db)' /\ Shown(draft)'
  BY <1>1, <1>4 DEF DescriptionBusy, IndInv, Shown
<1>6. LockInv' /\ Connected(db)' /\ Connected(draft)' /\ CountsAreRows'
  <2>1. LockInv' /\ Connected(draft)'
    BY DEF DescriptionBusy, IndInv, LockInv, Connected
  <2> QED
    BY <2>1, RowsKeep DEF DescriptionBusy
<1> QED
  BY <1>2, <1>3, <1>5, <1>6, ScansKeep DEF DescriptionBusy, IndInv

LEMMA CrashInv ==
  ASSUME IndInv, Crash
  PROVE  IndInv'
<1>1. NoListing \in Listing
  BY DEF NoListing, Listing
<1>2. TypeOK'
  BY <1>1 DEF Crash, IndInv, TypeOK, Step, Idle
<1>3. DiskInv' /\ LockInv' /\ WalkInv' /\ CleanInv' /\ JobInv'
  BY DEF Crash, IndInv, DiskInv, LockInv, WalkInv, Entered, CleanInv, JobInv
<1>4. Connected(db)' /\ CountsAreRows'
  BY RowsKeep DEF Crash
<1>5. Shown(db)'
  BY DEF Crash, IndInv, Shown
<1>6. Connected(draft)' /\ Shown(draft)'
  BY <1>4, <1>5 DEF Crash, Connected, Shown, UnderWay
<1> QED
  BY <1>2, <1>3, <1>4, <1>5, <1>6 DEF IndInv

LEMMA NextInv == IndInv /\ [Next]_vars => IndInv'
<1> SUFFICES ASSUME IndInv, [Next]_vars PROVE IndInv'
  OBVIOUS
<1>1. CASE \/ \E f \in Folder : MakeFolder(f) \/ RemoveFolder(f)
           \/ \E g \in Guide, b \in Body \cup {Absent} : WriteGuide(g, b)
  <2>1. Edit
    BY <1>1 DEF MakeFolder, RemoveFolder, WriteGuide
  <2> QED
    BY <1>1, <2>1, EditInv
<1>2. ASSUME NEW s \in Scanner,
             \/ StartScan(s) \/ ReadFolder(s) \/ ReadIndex(s)
             \/ UpsertFolder(s) \/ UpsertBusy(s) \/ IndexGuide(s) \/ LeaveFolder(s)
             \/ EndScan(s) \/ ScanFails(s)
      PROVE  IndInv'
  BY <1>2, StartScanInv, ReadFolderInv, ReadIndexInv, UpsertFolderInv, UpsertBusyInv,
     IndexGuideInv, LeaveFolderInv, EndScanInv, ScanFailsInv
<1>3. ASSUME NEW a \in Admin, NEW f \in Folder, NEW t \in Text, WriteOverride(a, f, t)
      PROVE  IndInv'
  BY <1>3, WriteOverrideInv
<1>4. ASSUME NEW a \in Admin, WriteDescription(a) \/ DescriptionBusy(a) PROVE IndInv'
  BY <1>4, WriteDescriptionInv, DescriptionBusyInv
<1>5. CASE Crash
  BY <1>5, CrashInv
<1>6. CASE UNCHANGED vars
  <2>1. UNCHANGED <<disk, tables, walk, admin, bounds>>
    BY <1>6 DEF vars
  <2>2. TypeOK' /\ LockInv'
    BY <2>1 DEF IndInv, TypeOK, LockInv
  <2>3. DiskInv' /\ WalkInv' /\ CleanInv'
    BY <2>1, ScansKeep
  <2> QED
    BY <2>1, <2>2, <2>3, TablesKeep DEF IndInv
<1> QED
  BY <1>1, <1>2, <1>3, <1>4, <1>5, <1>6 DEF Next

LEMMA Invariant == Spec => []IndInv
BY InitInv, NextInv, PTL DEF Spec

----------------------------------------------------------------------------
(* Every variable keeps its type, and a scan that is in a folder knows     *)
(* which.                                                                  *)
THEOREM TypeCorrect == Spec => []TypeOK
<1>1. IndInv => TypeOK
  BY DEF IndInv
<1> QED
  BY <1>1, Invariant, PTL

(* VerifyNavigationDB never finds an orphan, although scans overlap, fail  *)
(* in the middle and are rolled back.                                      *)
THEOREM RowsConnectedHolds == Spec => []RowsConnected
<1>1. IndInv => RowsConnected
  BY DEF IndInv, Connected, RowsConnected
<1> QED
  BY <1>1, Invariant, PTL

(* updateAggregates leaves counts that are those of the committed rows.    *)
THEOREM CountsAreRowsHolds == Spec => []CountsAreRows
<1>1. IndInv => CountsAreRows
  BY DEF IndInv
<1> QED
  BY <1>1, Invariant, PTL

(* No interleaving of scans with requests hides a description an operator  *)
(* has set, but for the named accidents of the requests themselves.        *)
THEOREM OverrideShownHolds == Spec => []OverrideShown
<1>1. IndInv => OverrideShown
  BY DEF IndInv, TypeOK, Tables, Shown, OverrideShown
<1> QED
  BY <1>1, Invariant, PTL

(* A clean scan has written every folder there is: a folder it missed      *)
(* would have a highest one above it that it missed, and that one was in   *)
(* the listing of its parent.                                              *)
LEMMA CleanScanVisits ==
  ASSUME IndInv, NEW s \in Scanner, EndScan(s), clean[s]
  PROVE  dirs \subseteq visited[s]
<1>1. Faithful(s) /\ Pending(s) = {}
  BY DEF EndScan, IndInv, CleanInv, Pending
<1>2. \A f \in dirs : Parent[f] = None \/ Parent[f] \in visited[s] => f \in visited[s]
  BY <1>1 DEF Faithful
<1> SUFFICES ASSUME dirs \ visited[s] # {} PROVE FALSE
  OBVIOUS
<1>3. dirs \ visited[s] \in SUBSET Folder
  BY DEF IndInv, TypeOK
<1>4. PICK f \in dirs \ visited[s] : Parent[f] \notin dirs \ visited[s]
  BY <1>3
<1>5. Parent[f] = None \/ Parent[f] \in visited[s]
  BY <1>4 DEF IndInv, DiskInv
<1> QED
  BY <1>2, <1>4, <1>5

(* What a finished scan says of the disk, for any tree of folders.         *)
THEOREM CompleteScanAgreesHolds == Spec => CompleteScanAgrees
<1>1. ASSUME IndInv, NEW s \in Scanner, EndScan(s), clean[s]
      PROVE  Agrees(db') /\ \A f \in dirs : Parent[f] # None => f \in Children(db', Parent[f])
  <2>1. dirs \subseteq visited[s] /\ Faithful(s) /\ pc[s] = "walk"
    BY <1>1, CleanScanVisits DEF EndScan, IndInv, CleanInv
  <2>2. \A f \in dirs : Indexed(s, f)
    BY <2>1 DEF Faithful
  <2>3. db' = Aggregated(draft) /\ draft \in Tables
    BY <1>1, ViewIsDraft DEF EndScan, IndInv, TypeOK
  <2>4. /\ db'.has = draft.has /\ db'.guide = draft.guide
        /\ \A f \in draft.has : db'.row[f].leaf = draft.row[f].leaf
    BY <2>3, AggregatedType
  <2>5. \A f \in dirs : f \in db'.has /\ (db'.row[f].leaf <=> (Here(f) # {} /\ Subs(f) = {}))
    BY <2>2, <2>4 DEF Indexed
  <2>6. \A g \in Guide : files[g] # Absent => db'.guide[g] = files[g]
    <3> SUFFICES ASSUME NEW g \in Guide, files[g] # Absent PROVE db'.guide[g] = files[g]
      OBVIOUS
    <3>1. In[g] \in dirs /\ g \in Here(In[g])
      BY <1>1 DEF IndInv, DiskInv, Here
    <3> QED
      BY <2>1, <2>2, <2>4, <3>1 DEF Indexed
  <2>7. \A f \in dirs : Parent[f] # None => Parent[f] \in dirs /\ Subs(Parent[f]) # {}
    BY <1>1 DEF IndInv, DiskInv, Subs
  <2> QED
    BY <2>5, <2>6, <2>7 DEF Agrees, Children
<1>2. IndInv =>
        [\A s \in Scanner :
           EndScan(s) /\ clean[s] =>
             /\ Agrees(db')
             /\ \A f \in dirs : Parent[f] # None => f \in Children(db', Parent[f])]_vars
  BY <1>1
<1> QED
  BY <1>2, Invariant, PTL DEF CompleteScanAgrees
=============================================================================
