---------------------------- MODULE SyncFolders ----------------------------
(***************************************************************************)
(* Which source lands in which folder of the data directory, and what the  *)
(* list of sources says about it.  An import writes to the folder of the   *)
(* name the operator gave; startup, periodicSync and webhooks write to the *)
(* last element of that name; a removal deletes the folder of the whole    *)
(* name.  Two entries may so share a folder, and one may have two.         *)
(*                                                                         *)
(* ContentSync looks into one pull, one source to a folder; here a pull is *)
(* one step, and what lies in a folder is the set of sources it came from. *)
(***************************************************************************)
EXTENDS Naturals

CONSTANTS
  Dir, Document, \* places below the data directory: folders, and .md files
  Inside,        \* pairs: the second place is the first or lies in it
  Base,          \* a place of the same last name, at the top
  Md,            \* a folder's name with .md
  Name,          \* what operators call an entry
  Config,        \* name and source of each entry of config.json
  Source, Kind,  \* URLs, and what detectSrcType makes of each
  Peer,          \* sources that are a peer's URL and path
  Incoming,      \* repositories that webhooks are sent for
  Matches,       \* pairs of an Incoming and a Source with that prefix
  Own, Edit,     \* stand for articles that the operator wrote: at paths that no
                 \* source has, and at paths that sources have as well
  Written,       \* places where the operator writes
  Main,          \* main, which goes on as periodicSync
  Hook,          \* webhook goroutines
  Request,       \* requests of the operator
  None,
  MaxRequests    \* bound on what the operator does

Place == Dir \cup Document
Worker == Main \cup Hook

ASSUME FolderAssumption ==
  /\ Dir \cap Document = {}
  /\ Inside \subseteq Place \X Place
  /\ \A p \in Place : <<p, p>> \in Inside
  /\ \A p, q, r \in Place : <<p, q>> \in Inside /\ <<q, r>> \in Inside => <<p, r>> \in Inside
  /\ \A d \in Document, p \in Place : <<d, p>> \in Inside => p = d
  /\ Base \in [Place -> Place]
  /\ \A d \in Dir : Base[d] \in Dir
  /\ \A d \in Document : Base[d] \in Document
  /\ Md \in [Dir -> Document]
  /\ Name \subseteq Dir
  /\ Config \subseteq Name \X Source
  /\ Written \subseteq Place

ASSUME SourceAssumption ==
  /\ Kind \in [Source -> {"git", "archive", "raw"}]
  /\ Peer \subseteq {s \in Source : Kind[s] = "raw"}
  /\ Matches \subseteq Incoming \X Source
  /\ Own \notin Source /\ Edit \notin Source /\ Own # Edit /\ None \notin Source
  /\ Main \cap Hook = {}
  /\ MaxRequests \in Nat

Article == Source \cup {Own, Edit}
Row == [url : Source, status : {"pending", "ok", "error"}]
Listed == Place \X Source
SaveTask == [step : {"save"}, name : Place, url : Source]
Task == SaveTask \cup [step : {"delete"}, name : Place]

ASSUME SentinelAssumption == None \notin Row \cup Task \cup (Listed \X BOOLEAN)

VARIABLES
  files,   \* for each place, the sources of the articles there
  origin,  \* for each place, where the git repository there was cloned from
  rows,    \* startup_sync
  todo,    \* for each worker, the entries it has listed and not yet pulled
  pulled,  \* for each worker, the entry whose result it has to record, and the result
  task,    \* for each request, what it has still to do
  requests,
  aimed,   \* history: <<p, s>> if s has been pulled to p
  spoiled, \* history: places that a failed pull or a removal may have emptied
           \* and no pull has filled since
  rekeyed, \* history: entries whose status may be another URL's
  cloned,  \* history: places cloned to, and not removed since
  gone     \* history: places whose entry and files the operator removed, while
           \* nobody was about to write there

disk == <<files, origin>>
history == <<aimed, spoiled, rekeyed, cloned, gone>>
vars == <<disk, rows, todo, pulled, task, requests, history>>

(* The entries of config.json have been imported and never been pulled.    *)
Init ==
  /\ files \in [Place -> SUBSET {Own, Edit}] /\ \A p \in Place \ Written : files[p] = {}
  /\ origin = [p \in Place |-> None]
  /\ rows \in [Place -> [url : Source, status : {"pending"}] \cup {None}]
  /\ \A n \in Place : IF rows[n] = None THEN n \notin {e[1] : e \in Config}
                                        ELSE <<n, rows[n].url>> \in Config
  /\ todo = [w \in Worker |-> {}] /\ pulled = [w \in Worker |-> None]
  /\ task = [r \in Request |-> None] /\ requests = 0
  /\ aimed = {} /\ spoiled = {} /\ rekeyed = {} /\ cloned = {} /\ gone = {}

----------------------------------------------------------------------------
(* Where things go, and what a pull does there.  (A definition whose name  *)
(* ends in Fault is a plausible mistake in the one that follows it;        *)
(* nothing uses it.)                                                       *)

Below(p) == {q \in Place : <<p, q>> \in Inside}

Dest(n) == Base[n]

(* A raw source is a document, whatever the entry is called.               *)
Landing(p, s) == IF Kind[s] = "raw" /\ p \in Dir THEN Md[p] ELSE p

Without(f, P, none) == [q \in Place |-> IF q \in P THEN none ELSE f[q]]

(* os.Create and a reset write over what has the same path, whoever wrote  *)
(* it; of another source that may be all there is.                         *)
Overwrite(p, s) ==
  \E lost \in SUBSET (files[p] \ {Own, s}) : files' = [files EXCEPT ![p] = (@ \ lost) \cup {s}]

Aims(p, s) == aimed' = aimed \cup {<<p, s>>}
Fills(p, ok) == spoiled' = IF ok THEN spoiled \ {p} ELSE spoiled \cup {p}

IsRepositoryFault(p, s) == origin[p] = s

IsRepository(p, s) == origin[p] # None

(* A repository that is there is pulled from where it was cloned from.     *)
(* One that is up to date is not looked into, and one that cannot be       *)
(* reached stays as it is; a pull may also fail after it wrote articles.   *)
PullRepo(p, s, ok) ==
  /\ IsRepository(p, s)
  /\ \/ Overwrite(p, origin[p]) /\ Fills(p, TRUE)
     \/ UNCHANGED <<files, spoiled>>
  /\ UNCHANGED <<origin, cloned>>

(* Anything else is deleted, which is taken to succeed here.  A clone that *)
(* fails leaves nothing.                                                   *)
Clone(p, s, ok) ==
  /\ ~IsRepository(p, s)
  /\ files' = [Without(files, Below(p), {}) EXCEPT ![p] = IF ok THEN {s} ELSE {}]
  /\ origin' = [Without(origin, Below(p), None) EXCEPT ![p] = IF ok THEN s ELSE None]
  /\ cloned' = (cloned \ (Below(p) \ {p})) \cup (IF ok THEN {p} ELSE {})
  /\ Fills(p, ok)

(* Entries are written over what is there, all, some or none.              *)
ExtractFault(p, s, ok) ==
  /\ Overwrite(p, s) \/ UNCHANGED files
  /\ Fills(p, ok)
  /\ UNCHANGED <<origin, cloned>>

Extract(p, s, ok) ==
  /\ \/ Overwrite(p, s)
     \/ ~ok /\ UNCHANGED files
  /\ Fills(p, ok)
  /\ UNCHANGED <<origin, cloned>>

(* os.Create, then io.Copy.                                                *)
FetchDocument(p, s, ok) ==
  /\ \/ files' = [files EXCEPT ![p] = {s}]
     \/ ~ok /\ files' = [files EXCEPT ![p] = {}]
     \/ ~ok /\ UNCHANGED files
  /\ Fills(p, ok)
  /\ UNCHANGED <<origin, cloned>>

(* Pull of source s to the folder p.                                       *)
Pull(p, s, ok) ==
  /\ \/ Kind[s] = "git" /\ (PullRepo(p, s, ok) \/ Clone(p, s, ok))
     \/ Kind[s] = "archive" /\ Extract(p, s, ok)
     \/ Kind[s] = "raw" /\ FetchDocument(Landing(p, s), s, ok)
  /\ Aims(Landing(p, s), s)

----------------------------------------------------------------------------
(* Startup, periodicSync and webhooks: a list is read once, and its        *)
(* entries are pulled one after the other.                                 *)

Tracked == {e \in Listed : rows[e[1]] # None /\ rows[e[1]].url = e[2]}

Idle(w) == todo[w] = {} /\ pulled[w] = None

List(w, L) ==
  /\ Idle(w)
  /\ todo' = [todo EXCEPT ![w] = L]
  /\ UNCHANGED <<disk, rows, pulled, task, requests, history>>

PeriodicSync(w) == w \in Main /\ List(w, Tracked)

WebhookSync(w, i) == w \in Hook /\ List(w, {e \in Tracked : <<i, e[2]>> \in Matches})

PullDelta(w) ==
  /\ pulled[w] = None
  /\ \E e \in todo[w], ok \in BOOLEAN :
       /\ Pull(Dest(e[1]), e[2], ok)
       /\ todo' = [todo EXCEPT ![w] = @ \ {e}]
       /\ IF w \in Main THEN pulled' = [pulled EXCEPT ![w] = <<e, ok>>] ELSE UNCHANGED pulled
  /\ UNCHANGED <<rows, task, requests, rekeyed, gone>>

(* The row is found by its name, whatever its URL is by now.  A statement  *)
(* that fails is not noticed.                                              *)
MarkSyncResult(w) ==
  /\ pulled[w] # None
  /\ LET n == pulled[w][1][1]
         s == pulled[w][1][2] IN
       \/ /\ rows[n] # None
          /\ rows' = [rows EXCEPT ![n].status = IF pulled[w][2] THEN "ok" ELSE "error"]
          /\ rekeyed' = IF rows[n].url = s THEN rekeyed \ {n} ELSE rekeyed \cup {n}
       \/ UNCHANGED <<rows, rekeyed>>
  /\ pulled' = [pulled EXCEPT ![w] = None]
  /\ UNCHANGED <<disk, todo, task, requests, aimed, spoiled, cloned, gone>>

----------------------------------------------------------------------------
(* The operator.                                                           *)

Asks(r) ==
  /\ task[r] = None
  /\ requests < MaxRequests
  /\ requests' = requests + 1

Above(q) == {p \in Place : <<p, q>> \in Inside}

Then(r, ok, save, n, s) ==
  /\ task' = [task EXCEPT ![r] =
       IF ok /\ save THEN [step |-> "save", name |-> n, url |-> s] ELSE None]
  /\ gone' = gone \ (Above(n) \cup Above(Landing(Dest(n), s)))

ImportRemote(r, n, s, ok, save) ==
  /\ Asks(r)
  /\ Pull(n, s, ok)
  /\ Then(r, ok, save, Landing(n, s), s)
  /\ UNCHANGED <<rows, todo, pulled, rekeyed>>

(* The files of a peer's manifest go to the folder, and the entry that is  *)
(* saved has the peer's URL and path for a URL.                            *)
ImportFromPeer(r, n, s, ok, save) ==
  /\ Asks(r)
  /\ s \in Peer
  /\ Extract(n, s, ok)
  /\ Aims(n, s)
  /\ Then(r, ok, save, n, s)
  /\ UNCHANGED <<rows, todo, pulled, rekeyed>>

(* An entry of that name keeps its status.                                 *)
AddStartupSync(n, s) ==
  /\ rows' = [rows EXCEPT ![n] =
       [url |-> s, status |-> IF rows[n] = None THEN "pending" ELSE rows[n].status]]
  /\ rekeyed' = IF rows[n] = None \/ rows[n].url = s THEN rekeyed ELSE rekeyed \cup {n}

SaveEntry(r) ==
  /\ task[r] # None /\ task[r].step = "save"
  /\ AddStartupSync(task[r].name, task[r].url)
  /\ task' = [task EXCEPT ![r] = None]
  /\ UNCHANGED <<disk, todo, pulled, requests, aimed, spoiled, cloned, gone>>

SaveFails(r) ==
  /\ task[r] # None /\ task[r].step = "save"
  /\ task' = [task EXCEPT ![r] = None]
  /\ UNCHANGED <<disk, rows, todo, pulled, requests, history>>

AdminRemove(r, n, deleteLocalFiles) ==
  /\ Asks(r)
  /\ rows' = [rows EXCEPT ![n] = None]
  /\ rekeyed' = rekeyed \ {n}
  /\ task' = [task EXCEPT ![r] =
       IF deleteLocalFiles THEN [step |-> "delete", name |-> n] ELSE None]
  /\ UNCHANGED <<disk, todo, pulled, aimed, spoiled, cloned, gone>>

(* The entries somebody is about to pull, or will at a next sync.          *)
Saving == {<<t.name, t.url>> : t \in {task[r] : r \in Request} \cap SaveTask}

Expected == Tracked \cup Saving \cup UNION {todo[w] : w \in Worker}

Destined(p) == \E e \in Expected : Landing(Dest(e[1]), e[2]) \in Below(p)

RemovedFault(n) == Below(Dest(n))

Removed(n) == Below(n)

(* os.RemoveAll takes what it can and nobody looks at its error: the       *)
(* articles left may stay, and repos.                                      *)
Remnants(P) == SUBSET {e \in P \X Article : e[2] \in files[e[1]]}

DeleteLocalFiles(r) ==
  /\ task[r] # None /\ task[r].step = "delete"
  /\ LET n == task[r].name IN
       /\ \E left \in Remnants(Removed(n)), repos \in SUBSET Removed(n) :
            /\ files' = [q \in Place |-> IF q \in Removed(n) THEN {x \in files[q] : <<q, x>> \in left}
                                         ELSE files[q]]
            /\ origin' = Without(origin, Removed(n) \ repos, None)
            /\ gone' = IF Destined(n) \/ left # {} THEN gone ELSE gone \cup {n}
       /\ spoiled' = spoiled \cup Removed(n)
       /\ cloned' = cloned \ Removed(n)
  /\ task' = [task EXCEPT ![r] = None]
  /\ UNCHANGED <<rows, todo, pulled, requests, aimed, rekeyed>>

WriteByHand(p, x) ==
  /\ requests < MaxRequests
  /\ requests' = requests + 1
  /\ files' = [files EXCEPT ![p] = @ \cup {x}]
  /\ gone' = gone \ Above(p)
  /\ UNCHANGED <<origin, rows, todo, pulled, task, aimed, spoiled, rekeyed, cloned>>

Crash ==
  /\ todo' = [w \in Worker |-> {}]
  /\ pulled' = [w \in Worker |-> None]
  /\ task' = [r \in Request |-> None]
  /\ UNCHANGED <<disk, rows, requests, history>>

Next ==
  \/ \E w \in Worker : PeriodicSync(w) \/ PullDelta(w) \/ MarkSyncResult(w)
  \/ \E w \in Worker, i \in Incoming : WebhookSync(w, i)
  \/ \E r \in Request, n \in Name, s \in Source, ok \in BOOLEAN, save \in BOOLEAN :
       ImportRemote(r, n, s, ok, save) \/ ImportFromPeer(r, n, s, ok, save)
  \/ \E r \in Request : SaveEntry(r) \/ SaveFails(r) \/ DeleteLocalFiles(r)
  \/ \E r \in Request, n \in Place, d \in BOOLEAN : AdminRemove(r, n, d)
  \/ \E p \in Written, x \in {Own, Edit} : WriteByHand(p, x)
  \/ Crash

Spec == Init /\ [][Next]_vars

----------------------------------------------------------------------------
TypeOK ==
  /\ files \in [Place -> SUBSET Article]
  /\ origin \in [Place -> Source \cup {None}]
  /\ rows \in [Place -> Row \cup {None}]
  /\ todo \in [Worker -> SUBSET Listed]
  /\ pulled \in [Worker -> (Listed \X BOOLEAN) \cup {None}]
  /\ task \in [Request -> Task \cup {None}]
  /\ requests \in 0 .. MaxRequests
  /\ aimed \subseteq Listed
  /\ spoiled \subseteq Place /\ rekeyed \subseteq Place
  /\ cloned \subseteq Place /\ gone \subseteq Place

(* Another source, or the same one from further up, was pulled over p.     *)
Clash(p, s) == \E e \in aimed : p \in Below(e[1]) /\ e # <<p, s>>

(* An entry that the operator sees as "ok" is on disk where syncs put it,  *)
(* unless its name got another URL meanwhile, another source has been      *)
(* pulled over its folder, or the last pull or the operator emptied it.    *)
(* MarkSyncResult, AddStartupSync, PullDelta.                              *)
OkIsThere ==
  \A n \in Place :
    rows[n] # None /\ rows[n].status = "ok" /\ n \notin rekeyed =>
      LET s == rows[n].url
          p == Landing(Dest(n), s) IN
      s \in files[p] \/ p \in spoiled \/ Clash(p, s)

(* Somebody pulls to the folder p itself.                                  *)
PulledTo(p) ==
  \/ \E w \in Worker, e \in Listed :
       PullDelta(w) /\ e \in todo[w] \ todo'[w] /\ p = Landing(Dest(e[1]), e[2])
  \/ \E r \in Request, s \in Source, ok \in BOOLEAN, save \in BOOLEAN :
       ImportRemote(r, p, s, ok, save) \/ ImportFromPeer(r, p, s, ok, save)

(* A folder that was cloned to is not destroyed again: whatever is synced, *)
(* imported or removed under other names, what the operator writes there   *)
(* stays, but for articles at paths that a pull to that very folder has as *)
(* well.  pullGit, writeEntry, pullFromPeer.                               *)
KeptOnceCloned ==
  [][\A p \in cloned \cap cloned' :
       /\ Own \in files[p] => Own \in files'[p]
       /\ Edit \in files[p] => Edit \in files'[p] \/ PulledTo(p)]_vars

(* What the operator removed with its files stays away, unless a sync had  *)
(* listed the entry before or another entry lands there.  adminRemove,     *)
(* ListStartupSync.                                                        *)
GoneStaysGone == \A p \in gone : \A q \in Below(p) : files[q] = {}
=============================================================================
