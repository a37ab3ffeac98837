---------------------------- MODULE ContentSync ----------------------------
(***************************************************************************)
(* The content pipeline of a RED node: Markdown files on disk, the memory  *)
(* index that is served (store.Store), the polling file watcher, and the   *)
(* goroutines that pull remote content: the main goroutine (startup sync,  *)
(* then periodicSync), the webhook goroutines and the admin handlers       *)
(* (import, remove, reload).  They share the disk, the startup_sync table, *)
(* the store's mutex and the remoteSyncActive flag.                        *)
(*                                                                         *)
(* An article is a File; its bytes are a member of Content.  A tracked     *)
(* source is an Entry; Owner[f] is the entry whose destination directory   *)
(* holds f, None for an article the operator writes by hand.  Entries in   *)
(* Git are pulled with pullGit, the others (archives, raw files) are       *)
(* downloaded and written file by file.  The sync_status that each pull    *)
(* leaves in its row is the subject of SyncFolders.                        *)
(***************************************************************************)

CONSTANTS
  File,      \* the articles
  Entry,     \* the sources an operator can track
  Owner,     \* File -> Entry \cup {None}
  Git,       \* the entries whose URL ends in ".git"
  Matches,   \* the sets of entries that an incoming webhook URL can be a prefix of
  Preset,    \* the entries in startup_sync when the node first starts
  Cloned,    \* the git entries whose repository is on disk at that time
  Main,      \* the main goroutine, later the periodicSync goroutine
  Hook,      \* webhook goroutines that may run at the same time
  Admin,     \* admin requests that may run at the same time
  Content,   \* the bodies an article can have
  Absent,    \* the file does not exist
  Torn,      \* a file whose write failed half-way
  None

Actor == {Main} \cup Hook \cup Admin
Value == Content \cup {Absent, Torn}

ASSUME EntryAssumption ==
  /\ Owner \in [File -> Entry \cup {None}]
  /\ None \notin Entry
  /\ Git \subseteq Entry
  /\ Preset \subseteq Entry
  /\ Cloned \subseteq Git
  /\ Matches \subseteq SUBSET Entry

ASSUME ValueAssumption ==
  /\ Absent \notin Content
  /\ Torn \notin Content
  /\ None \notin Value
  /\ None \notin File

ASSUME ActorAssumption ==
  /\ Main \notin Hook \cup Admin
  /\ Hook \cap Admin = {}
  /\ None \notin Actor

VARIABLES
  remote,    \* what the remote source of each file holds now
  disk,      \* what the data directory holds
  repo,      \* the entries whose directory git.PlainOpen opens
  head,      \* the tree of its HEAD commit; None where there is no HEAD yet
  behind,    \* the repositories whose HEAD is not the last commit of the remote
  tracked,   \* the rows of startup_sync
  index,     \* Store.nav: the article served under each path
  mu,        \* the holder of Store.mu, or None
  staged,    \* Reload's newNav: what the walk has read; None where it has not been
  watching,  \* Watch() has listed the data directory
  known,     \* the files in the watcher's list
  dirty,     \* files written since the watcher last listed them
  events,    \* events of the last poll not yet received
  hand,      \* the event accepted by the watcher goroutine, not yet applied
  active,    \* remoteSyncActive
  cool,      \* less than four seconds since remoteSyncEnd
  pc,        \* where each goroutine is
  todo,      \* the entries of the list read from startup_sync still to pull
  at,        \* the entry being pulled or imported
  bundle,    \* the downloaded archive: files still to be written
  changed,   \* changed paths still to be passed to UpdateFiles
  save,      \* the import request asked for saveToStartup
  unnoticed, \* history: files whose last change the watcher will not apply
  blind      \* history: files pulled by someone who went on without indexing them

repoVars  == <<repo, head, behind>>
diskVars  == <<disk, repoVars>>
indexVars == <<index, mu, staged>>
watchVars == <<watching, known, events, hand>>
flagVars  == <<active, cool>>
jobVars   == <<pc, todo, at, bundle, changed, save>>
history   == <<unnoticed, blind>>
vars == <<remote, diskVars, tracked, indexVars, watchVars, dirty, flagVars, jobVars, history>>

FilesOf(e) == {f \in File : Owner[f] = e}
RemoteFile == {f \in File : Owner[f] # None}

Pc == {"boot", "pull", "clone", "fetch", "delete", "reload", "save", "watch", "idle", "update"}

PcOf(a) ==
  IF a = Main THEN {"boot", "pull", "clone", "fetch", "reload", "watch", "idle", "update"}
  ELSE IF a \in Hook THEN {"idle", "pull", "clone", "fetch", "reload", "update"}
  ELSE {"idle", "pull", "clone", "fetch", "delete", "reload", "save"}

NoBundle == [f \in File |-> Absent]
Unwalked == [f \in File |-> None]

----------------------------------------------------------------------------
(* Writing files.  The watcher compares modification times, so a write is  *)
(* noticed by the next poll even if the bytes are the same; before Watch() *)
(* there is nobody to notice it.  (A definition whose name ends in Fault   *)
(* is a plausible mistake in the one that follows it; nothing uses it.)    *)

Touch(S) ==
  /\ dirty' = IF watching THEN dirty \cup S ELSE dirty
  /\ unnoticed' = IF watching THEN unnoticed ELSE unnoticed \cup S

Write(new) ==
  /\ disk' = [f \in File |-> IF f \in DOMAIN new THEN new[f] ELSE disk[f]]
  /\ Touch({f \in DOMAIN new : new[f] # Absent \/ disk[f] # Absent})

FromDiskFault(f) == IF disk[f] = Absent THEN index[f] ELSE disk[f]

(* What UpdateFiles makes of one path: the article as it is on disk, and   *)
(* nothing when the file is gone.                                          *)
FromDisk(f) == disk[f]

(* The files of S have just been read from disk into the index.            *)
Noticed(S) ==
  /\ unnoticed' = unnoticed \ S
  /\ blind' = blind \ S

----------------------------------------------------------------------------
(* Where a goroutine goes next.                                            *)

CanLockFault(a) == TRUE

(* Store.mu: a holds it or can take it; None stands for a step that takes  *)
(* and releases it.                                                        *)
CanLock(a) == mu \in {None, a}

AfterPullNoDeferFault(a, outcome, files) ==
  CASE a \in Hook /\ outcome = "error" -> "idle"
    [] a \in Admin -> IF outcome = "error" THEN "idle" ELSE "reload"
    [] a \in Hook /\ outcome = "nil" -> "reload"
    [] a \in Hook /\ outcome = "list" /\ files # {} -> "update"
    [] OTHER -> "pull"

AfterPullNilFault(a, outcome, files) ==
  CASE a \in Admin -> IF outcome = "error" THEN "idle" ELSE "reload"
    [] a \in Hook /\ outcome = "list" /\ files # {} -> "update"
    [] OTHER -> "pull"

(* What follows a pull: an import reloads or gives up, a webhook reloads   *)
(* after a nil list and updates the files of a list, main goes on.         *)
AfterPull(a, outcome, files) ==
  CASE a \in Admin -> IF outcome = "error" THEN "idle" ELSE "reload"
    [] a \in Hook /\ outcome = "nil" -> "reload"
    [] a \in Hook /\ outcome = "list" /\ files # {} -> "update"
    [] OTHER -> "pull"

AfterSyncFault(a) == "idle"

AfterSync(a) == IF changed[a] = {} THEN "idle" ELSE "update"

AfterReload(a) ==
  IF a = Main THEN "watch"
  ELSE IF a \in Hook THEN "pull"
  ELSE IF save[a] THEN "save" ELSE "idle"

----------------------------------------------------------------------------
Init ==
  /\ remote \in [RemoteFile -> Content]
  /\ disk = [f \in File |-> IF f \in RemoteFile /\ Owner[f] \in Cloned
                            THEN remote[f] ELSE Absent]
  /\ repo = Cloned
  /\ head = [f \in RemoteFile |-> IF Owner[f] \in Cloned THEN remote[f] ELSE None]
  /\ behind = {}
  /\ tracked = Preset
  /\ index = [f \in File |-> Absent]
  /\ mu = None
  /\ staged = Unwalked
  /\ watching = FALSE
  /\ known = {}
  /\ dirty = {}
  /\ events = {}
  /\ hand = None
  /\ active = FALSE
  /\ cool = FALSE
  /\ pc = [a \in Actor |-> IF a = Main THEN "boot" ELSE "idle"]
  /\ todo = [a \in Actor |-> {}]
  /\ at = [a \in Actor |-> None]
  /\ bundle = [a \in Actor |-> NoBundle]
  /\ changed = [a \in Actor |-> {}]
  /\ save = [a \in Actor |-> FALSE]
  /\ unnoticed = {}
  /\ blind = {}

----------------------------------------------------------------------------
(* The environment: upstream authors and the operator's editor.            *)

(* Upstream publishes a new version of an article, or removes it.          *)
Publish(f, c) ==
  /\ remote[f] # c
  /\ remote' = [remote EXCEPT ![f] = c]
  /\ behind' = behind \cup ({Owner[f]} \cap repo)
  /\ UNCHANGED <<disk, repo, head, tracked, indexVars, watchVars, dirty, flagVars, jobVars, history>>

EditLocal(f, c) ==
  /\ Owner[f] = None
  /\ disk[f] # c
  /\ Write([g \in {f} |-> c])
  /\ UNCHANGED <<remote, repoVars, tracked, indexVars, watchVars, flagVars, jobVars, blind>>

----------------------------------------------------------------------------
(* The watcher (store.Watch): a poll lists the directory and then offers   *)
(* its events one by one; the goroutine drops those that arrive while      *)
(* ShouldIgnoreLocalEvents() holds.                                        *)

ShouldIgnoreLocalEvents == active \/ cool

Poll ==
  /\ watching
  /\ events = {}
  /\ dirty # {}
  /\ events' = {f \in dirty : f \in known \/ disk[f] # Absent}
  /\ known' = {f \in File : disk[f] # Absent}
  /\ dirty' = {}
  /\ unnoticed' = unnoticed \cup (dirty \ events')
  /\ UNCHANGED <<remote, diskVars, tracked, indexVars, watching, hand, flagVars, jobVars, blind>>

IgnoreEvent(f) ==
  /\ f \in events
  /\ hand = None
  /\ ShouldIgnoreLocalEvents
  /\ events' = events \ {f}
  /\ unnoticed' = unnoticed \cup {f}
  /\ UNCHANGED <<remote, diskVars, tracked, indexVars, watching, known, hand, dirty,
                 flagVars, jobVars, blind>>

AcceptEvent(f) ==
  /\ f \in events
  /\ hand = None
  /\ ~ShouldIgnoreLocalEvents
  /\ events' = events \ {f}
  /\ hand' = f
  /\ UNCHANGED <<remote, diskVars, tracked, indexVars, watching, known, dirty,
                 flagVars, jobVars, history>>

ApplyEvent ==
  /\ hand # None
  /\ CanLock(None)
  /\ index' = [index EXCEPT ![hand] = FromDisk(hand)]
  /\ Noticed({hand})
  /\ hand' = None
  /\ UNCHANGED <<remote, diskVars, tracked, mu, staged, watching, known, events, dirty,
                 flagVars, jobVars>>

CooldownOver ==
  /\ cool
  /\ cool' = FALSE
  /\ UNCHANGED <<remote, diskVars, tracked, indexVars, watchVars, dirty, active, jobVars, history>>

----------------------------------------------------------------------------
(* How a pull ends: it has written S, and files is the list PullDelta      *)
(* returns; outcome is "nil" for a nil list.  main uses fetch.Pull at      *)
(* startup, and so does the import handler: they drop the list and reload. *)
(* What a goroutine wrote and goes on without indexing is blind.           *)

Pulled(a, e, outcome, files, S) ==
  /\ todo' = [todo EXCEPT ![a] = @ \ {e}]
  /\ at' = IF a \in Admin /\ outcome # "error" THEN at ELSE [at EXCEPT ![a] = None]
  /\ save' = IF outcome = "error" THEN [save EXCEPT ![a] = FALSE] ELSE save
  /\ bundle' = [bundle EXCEPT ![a] = NoBundle]
  /\ changed' = IF a \in Hook \/ (a = Main /\ watching)
                THEN [changed EXCEPT ![a] = @ \cup files] ELSE changed
  /\ pc' = [pc EXCEPT ![a] = AfterPull(a, outcome, files)]
  /\ blind' = IF watching /\ (a = Main \/ outcome = "error" \/ (a \in Hook /\ outcome = "list"))
              THEN blind \cup (S \ files) ELSE blind

(* The entry a pulls next: one of its list, or the one it imports.         *)
Next2Pull(a, e) == pc[a] = "pull" /\ e \in todo[a]

(* A pull that fails before it changes anything: no network, a repository  *)
(* that does not open, a refused download.                                 *)
PullFails(a, e) ==
  /\ Next2Pull(a, e)
  /\ e \notin Git \ repo
  /\ Pulled(a, e, "error", {}, {})
  /\ UNCHANGED <<remote, diskVars, tracked, indexVars, watchVars, dirty, flagVars, unnoticed>>

----------------------------------------------------------------------------
(* pullGit on an existing repository.  go-git's pull is external: once it  *)
(* has fetched, it moves HEAD to the last commit and then resets the index *)
(* and the files.  pullGit names the differences of the two HEADs, so it   *)
(* says nothing of a file an earlier pull left behind.                     *)

DeltaOf(e) == {f \in FilesOf(e) : head[f] # remote[f]}
Differing(e) == {f \in FilesOf(e) : disk[f] # remote[f]}

(* Patch pairs a file that goes with one that comes, articles or not, as a *)
(* rename, and its statistics name the two as one path that is neither.    *)
Renamable(e) == {f \in DeltaOf(e) : Absent \in {head[f], remote[f]}}

(* HEAD moves to the last commit of the remote, and the files of S follow. *)
MoveHead(e, S) ==
  /\ head' = [f \in RemoteFile |-> IF Owner[f] = e THEN remote[f] ELSE head[f]]
  /\ behind' = behind \ {e}
  /\ Write([f \in S |-> remote[f]])

Pulling(a, e) == Next2Pull(a, e) /\ e \in Git \cap repo \cap behind

PullRepo(a, e, R) ==
  /\ Pulling(a, e)
  /\ \A f \in FilesOf(e) : head[f] # None
  /\ R \subseteq Renamable(e)
  /\ MoveHead(e, Differing(e))
  /\ Pulled(a, e, IF DeltaOf(e) = {} THEN "nil" ELSE "list", DeltaOf(e) \ R, Differing(e))
  /\ UNCHANGED <<remote, repo, tracked, indexVars, watchVars, flagVars>>

(* The same when pullGit cannot compare the two commits, or there was none *)
(* before: it returns the nil list it started from, and no error.          *)
PullUnlisted(a, e) ==
  /\ Pulling(a, e)
  /\ MoveHead(e, Differing(e))
  /\ Pulled(a, e, "nil", {}, Differing(e))
  /\ UNCHANGED <<remote, repo, tracked, indexVars, watchVars, flagVars>>

(* The reset fails after it has written the files of S.                    *)
PullBreaks(a, e, S) ==
  /\ Pulling(a, e)
  /\ S \subseteq Differing(e)
  /\ MoveHead(e, S)
  /\ Pulled(a, e, "error", {}, S)
  /\ UNCHANGED <<remote, repo, tracked, indexVars, watchVars, flagVars>>

(* HEAD is the last commit: pullGit returns an empty list, whatever the    *)
(* files look like.                                                        *)
UpToDate(a, e) ==
  /\ Next2Pull(a, e)
  /\ e \in (Git \cap repo) \ behind
  /\ Pulled(a, e, "list", {}, {})
  /\ UNCHANGED <<remote, diskVars, tracked, indexVars, watchVars, dirty, flagVars, unnoticed>>

(* pullGit without a repository: RemoveAll, then PlainClone, which first   *)
(* makes an empty repository that the next PlainOpen opens, even if the    *)
(* process stops here; then fetches, sets HEAD and writes the files.       *)
StartClone(a, e) ==
  /\ Next2Pull(a, e)
  /\ e \in Git \ repo
  /\ Write([f \in FilesOf(e) |-> Absent])
  /\ repo' = repo \cup {e}
  /\ behind' = behind \cup {e}
  /\ pc' = [pc EXCEPT ![a] = "clone"]
  /\ at' = [at EXCEPT ![a] = e]
  /\ UNCHANGED <<remote, head, tracked, indexVars, watchVars, flagVars,
                 todo, bundle, changed, save, blind>>

CloneHead(a) ==
  /\ pc[a] = "clone"
  /\ repo' = repo \cup {at[a]}
  /\ MoveHead(at[a], {})
  /\ UNCHANGED <<remote, tracked, indexVars, watchVars, flagVars, jobVars, blind>>

FinishClone(a) ==
  /\ pc[a] = "clone"
  /\ \A f \in FilesOf(at[a]) : head[f] # None
  /\ Write([f \in FilesOf(at[a]) |-> head[f]])
  /\ Pulled(a, at[a], "nil", {}, FilesOf(at[a]))
  /\ UNCHANGED <<remote, repoVars, tracked, indexVars, watchVars, flagVars>>

(* A repository and its files are removed: its HEAD is gone with them.     *)
RemoveRepo(e) ==
  /\ Write([f \in FilesOf(e) |-> Absent])
  /\ repo' = repo \ {e}
  /\ head' = [f \in RemoteFile |-> IF Owner[f] = e THEN None ELSE head[f]]
  /\ behind' = behind \ {e}

(* PlainClone cleans the directory up when it fails.                       *)
CloneFails(a) ==
  /\ pc[a] = "clone"
  /\ RemoveRepo(at[a])
  /\ Pulled(a, at[a], "error", {}, FilesOf(at[a]))
  /\ UNCHANGED <<remote, tracked, indexVars, watchVars, flagVars>>

----------------------------------------------------------------------------
(* An archive or a raw file: fetched first, then written file by file; it  *)
(* never deletes a file, and a failure leaves what was written so far.     *)
Download(a, e) ==
  /\ Next2Pull(a, e)
  /\ e \notin Git
  /\ bundle' = [bundle EXCEPT ![a] = [f \in File |-> IF Owner[f] = e THEN remote[f] ELSE Absent]]
  /\ pc' = [pc EXCEPT ![a] = "fetch"]
  /\ at' = [at EXCEPT ![a] = e]
  /\ UNCHANGED <<remote, diskVars, tracked, indexVars, watchVars, dirty, flagVars,
                 todo, changed, save, history>>

WriteEntry(a, f) ==
  /\ pc[a] = "fetch"
  /\ bundle[a][f] # Absent
  /\ Write([g \in {f} |-> bundle[a][f]])
  /\ bundle' = [bundle EXCEPT ![a] = [@ EXCEPT ![f] = Absent]]
  /\ UNCHANGED <<remote, repoVars, tracked, indexVars, watchVars, flagVars,
                 pc, todo, at, changed, save, blind>>

TearEntry(a, f) ==
  /\ pc[a] = "fetch"
  /\ bundle[a][f] # Absent
  /\ Write([g \in {f} |-> Torn])
  /\ Pulled(a, at[a], "error", {}, FilesOf(at[a]))
  /\ UNCHANGED <<remote, repoVars, tracked, indexVars, watchVars, flagVars>>

FinishExtract(a) ==
  /\ pc[a] = "fetch"
  /\ bundle[a] = NoBundle
  /\ Pulled(a, at[a], "nil", {}, FilesOf(at[a]))
  /\ UNCHANGED <<remote, diskVars, tracked, indexVars, watchVars, dirty, flagVars, unnoticed>>

----------------------------------------------------------------------------
(* store.Reload: with the mutex held, walk the directory, read every file  *)
(* into a new map and install it.  The disk is not locked meanwhile.       *)

WalkFile(a, f) ==
  /\ pc[a] = "reload"
  /\ CanLock(a)
  /\ staged[f] = None
  /\ mu' = a
  /\ staged' = [staged EXCEPT ![f] = disk[f]]
  /\ Noticed({f})
  /\ UNCHANGED <<remote, diskVars, tracked, index, watchVars, dirty, flagVars, jobVars>>

Install(a) ==
  /\ pc[a] = "reload"
  /\ mu = a
  /\ \A f \in File : staged[f] # None
  /\ index' = staged
  /\ staged' = Unwalked
  /\ mu' = None
  /\ pc' = [pc EXCEPT ![a] = AfterReload(a)]
  /\ at' = IF AfterReload(a) = "save" THEN at ELSE [at EXCEPT ![a] = None]
  /\ UNCHANGED <<remote, diskVars, tracked, watchVars, dirty, flagVars,
                 todo, bundle, changed, save, history>>

(* store.UpdateFiles on a list of changed paths, one path after another,   *)
(* under one lock.                                                         *)
UpdateFile(a, f) ==
  /\ pc[a] = "update"
  /\ CanLock(a)
  /\ f \in changed[a]
  /\ index' = [index EXCEPT ![f] = FromDisk(f)]
  /\ changed' = [changed EXCEPT ![a] = @ \ {f}]
  /\ IF changed[a] = {f}
     THEN /\ mu' = None
          /\ pc' = [pc EXCEPT ![a] = IF a = Main THEN "idle" ELSE "pull"]
     ELSE /\ mu' = a
          /\ pc' = pc
  /\ Noticed({f})
  /\ UNCHANGED <<remote, diskVars, tracked, staged, watchVars, dirty, flagVars,
                 todo, at, bundle, save>>

----------------------------------------------------------------------------
(* main: startup sync of every tracked entry, Reload, then Watch; the HTTP *)
(* server only listens after that.                                         *)

BootList ==
  /\ pc[Main] = "boot"
  /\ todo' = [todo EXCEPT ![Main] = tracked]
  /\ pc' = [pc EXCEPT ![Main] = "pull"]
  /\ UNCHANGED <<remote, diskVars, tracked, indexVars, watchVars, dirty, flagVars,
                 at, bundle, changed, save, history>>

BootPulled ==
  /\ ~watching
  /\ pc[Main] = "pull"
  /\ todo[Main] = {}
  /\ pc' = [pc EXCEPT ![Main] = "reload"]
  /\ UNCHANGED <<remote, diskVars, tracked, indexVars, watchVars, dirty, flagVars,
                 todo, at, bundle, changed, save, history>>

Watch ==
  /\ pc[Main] = "watch"
  /\ watching' = TRUE
  /\ known' = {f \in File : disk[f] # Absent}
  /\ pc' = [pc EXCEPT ![Main] = "idle"]
  /\ UNCHANGED <<remote, diskVars, tracked, indexVars, events, hand, dirty, flagVars,
                 todo, at, bundle, changed, save, history>>

(* The process dies at any point and is started again: only the disk and   *)
(* the database survive.                                                   *)
Crash ==
  /\ index' = [f \in File |-> Absent]
  /\ mu' = None
  /\ staged' = Unwalked
  /\ watching' = FALSE
  /\ known' = {}
  /\ dirty' = {}
  /\ events' = {}
  /\ hand' = None
  /\ active' = FALSE
  /\ cool' = FALSE
  /\ pc' = [a \in Actor |-> IF a = Main THEN "boot" ELSE "idle"]
  /\ todo' = [a \in Actor |-> {}]
  /\ at' = [a \in Actor |-> None]
  /\ bundle' = [a \in Actor |-> NoBundle]
  /\ changed' = [a \in Actor |-> {}]
  /\ save' = [a \in Actor |-> FALSE]
  /\ unnoticed' = {}
  /\ blind' = {}
  /\ UNCHANGED <<remote, diskVars, tracked>>

----------------------------------------------------------------------------
(* periodicSync and webhookSync: BeginRemoteSync, pull the listed entries, *)
(* EndRemoteSync.  The periodic list is read just before Begin, the        *)
(* webhook's just after; nothing that looks at either runs in between.     *)

PeriodicTick ==
  /\ pc[Main] = "idle"
  /\ todo' = [todo EXCEPT ![Main] = tracked]
  /\ changed' = [changed EXCEPT ![Main] = {}]
  /\ active' = TRUE
  /\ pc' = [pc EXCEPT ![Main] = "pull"]
  /\ UNCHANGED <<remote, diskVars, tracked, indexVars, watchVars, dirty, cool,
                 at, bundle, save, history>>

WebhookSync(h, M) ==
  /\ watching
  /\ pc[h] = "idle"
  /\ todo' = [todo EXCEPT ![h] = tracked \cap M]
  /\ active' = TRUE
  /\ pc' = [pc EXCEPT ![h] = "pull"]
  /\ UNCHANGED <<remote, diskVars, tracked, indexVars, watchVars, dirty, cool,
                 at, bundle, changed, save, history>>

EndRemoteSync(a) ==
  /\ watching
  /\ pc[a] = "pull"
  /\ todo[a] = {}
  /\ active' = FALSE
  /\ cool' = TRUE
  /\ pc' = [pc EXCEPT ![a] = AfterSync(a)]
  /\ UNCHANGED <<remote, diskVars, tracked, indexVars, watchVars, dirty,
                 todo, at, bundle, changed, save, history>>

----------------------------------------------------------------------------
(* The admin API: import (pull, Reload, then AddStartupSync), remove       *)
(* (RemoveStartupSync, RemoveAll if asked, Reload) and reload.             *)

ImportRemote(a, e, s) ==
  /\ watching
  /\ pc[a] = "idle"
  /\ todo' = [todo EXCEPT ![a] = {e}]
  /\ at' = [at EXCEPT ![a] = e]
  /\ save' = [save EXCEPT ![a] = s]
  /\ pc' = [pc EXCEPT ![a] = "pull"]
  /\ UNCHANGED <<remote, diskVars, tracked, indexVars, watchVars, dirty, flagVars,
                 bundle, changed, history>>

AddStartupSync(a) ==
  /\ pc[a] = "save"
  /\ tracked' = tracked \cup {at[a]}
  /\ at' = [at EXCEPT ![a] = None]
  /\ save' = [save EXCEPT ![a] = FALSE]
  /\ pc' = [pc EXCEPT ![a] = "idle"]
  /\ UNCHANGED <<remote, diskVars, indexVars, watchVars, dirty, flagVars,
                 todo, bundle, changed, history>>

AdminRemove(a, e, del) ==
  /\ watching
  /\ pc[a] = "idle"
  /\ tracked' = tracked \ {e}
  /\ at' = [at EXCEPT ![a] = e]
  /\ pc' = [pc EXCEPT ![a] = IF del THEN "delete" ELSE "reload"]
  /\ UNCHANGED <<remote, diskVars, indexVars, watchVars, dirty, flagVars,
                 todo, bundle, changed, save, history>>

DeleteLocalFiles(a) ==
  /\ pc[a] = "delete"
  /\ RemoveRepo(at[a])
  /\ pc' = [pc EXCEPT ![a] = "reload"]
  /\ UNCHANGED <<remote, tracked, indexVars, watchVars, flagVars,
                 todo, at, bundle, changed, save, blind>>

ReloadRequest(a) ==
  /\ watching
  /\ pc[a] = "idle"
  /\ pc' = [pc EXCEPT ![a] = "reload"]
  /\ UNCHANGED <<remote, diskVars, tracked, indexVars, watchVars, dirty, flagVars,
                 todo, at, bundle, changed, save, history>>

----------------------------------------------------------------------------
Environment ==
  \/ \E f \in RemoteFile, c \in Content \cup {Absent} : Publish(f, c)
  \/ \E f \in File, c \in Content \cup {Absent} : EditLocal(f, c)

Watcher ==
  \/ Poll
  \/ \E f \in File : IgnoreEvent(f) \/ AcceptEvent(f)
  \/ ApplyEvent

(* A pull of an existing repository that gets as far as moving its HEAD.   *)
PullMoves(a, e) ==
  \/ \E R \in SUBSET File : PullRepo(a, e, R)
  \/ PullUnlisted(a, e)
  \/ \E S \in SUBSET File : PullBreaks(a, e, S)

Pull(a) ==
  \/ \E e \in Entry : \/ PullFails(a, e) \/ PullMoves(a, e) \/ UpToDate(a, e)
                      \/ StartClone(a, e) \/ Download(a, e)
  \/ CloneHead(a) \/ FinishClone(a) \/ CloneFails(a)
  \/ \E f \in File : WriteEntry(a, f) \/ TearEntry(a, f)
  \/ FinishExtract(a)

IndexUpdate(a) ==
  \/ \E f \in File : WalkFile(a, f) \/ UpdateFile(a, f)
  \/ Install(a)

MainStep == BootList \/ BootPulled \/ Watch \/ PeriodicTick \/ EndRemoteSync(Main)

HookStep(h) ==
  \/ \E M \in Matches : WebhookSync(h, M)
  \/ EndRemoteSync(h)

AdminStep(a) ==
  \/ \E e \in Entry, s \in BOOLEAN : ImportRemote(a, e, s) \/ AdminRemove(a, e, s)
  \/ AddStartupSync(a)
  \/ DeleteLocalFiles(a)
  \/ ReloadRequest(a)

Next ==
  \/ Environment
  \/ Watcher
  \/ CooldownOver
  \/ \E a \in Actor : Pull(a) \/ IndexUpdate(a)
  \/ MainStep
  \/ \E h \in Hook : HookStep(h)
  \/ \E a \in Admin : AdminStep(a)
  \/ Crash

Spec == Init /\ [][Next]_vars

(* Goroutines keep running, the ticker keeps firing and the store's mutex  *)
(* starves nobody.  A pull always returns, and one of the repeated         *)
(* attempts on a repository always gets past the network in the end, to    *)
(* whatever outcome: upstream is not down for good and rewrites no         *)
(* history.  Nothing is assumed of the operator or of webhooks.            *)
Fairness ==
  /\ WF_vars(MainStep)
  /\ WF_vars(Poll)
  /\ WF_vars(\E f \in File : IgnoreEvent(f) \/ AcceptEvent(f))
  /\ SF_vars(ApplyEvent)
  /\ WF_vars(CooldownOver)
  /\ \A a \in Actor : WF_vars(Pull(a)) /\ SF_vars(IndexUpdate(a))
  /\ \A a \in Hook : WF_vars(EndRemoteSync(a))
  /\ \A a \in Admin : WF_vars(AddStartupSync(a) \/ DeleteLocalFiles(a))
  /\ \A a \in {Main} \cup Hook, e \in Git : SF_vars(PullMoves(a, e))

FairSpec == Spec /\ Fairness

----------------------------------------------------------------------------
TypeOK ==
  /\ remote \in [RemoteFile -> Content \cup {Absent}]
  /\ disk \in [File -> Value]
  /\ repo \subseteq Git
  /\ head \in [RemoteFile -> Content \cup {Absent, None}]
  /\ behind \subseteq Git
  /\ tracked \subseteq Entry
  /\ index \in [File -> Value]
  /\ mu \in Actor \cup {None}
  /\ staged \in [File -> Value \cup {None}]
  /\ watching \in BOOLEAN
  /\ known \subseteq File
  /\ dirty \subseteq File
  /\ events \subseteq File
  /\ hand \in File \cup {None}
  /\ active \in BOOLEAN
  /\ cool \in BOOLEAN
  /\ pc \in [Actor -> Pc]
  /\ \A a \in Actor : pc[a] \in PcOf(a)
  /\ todo \in [Actor -> SUBSET Entry]
  /\ at \in [Actor -> Entry \cup {None}]
  /\ bundle \in [Actor -> [File -> Content \cup {Absent}]]
  /\ changed \in [Actor -> SUBSET File]
  /\ save \in [Actor -> BOOLEAN]
  /\ unnoticed \subseteq File
  /\ blind \subseteq File

(* What the index will show for f once a Reload under way is installed.    *)
Served(f) == IF staged[f] # None THEN staged[f] ELSE index[f]
Stale(f) == Served(f) # disk[f]

(* The watcher still has the last change of f in front of it.              *)
WatcherOwes(f) == f \in dirty \/ f \in events \/ hand = f

(* An article that the index serves differently from the disk is one whose *)
(* change the watcher has yet to see or apply, or one whose event it       *)
(* dropped (or that changed between the startup Reload and Watch): no      *)
(* interleaving of Reload, UpdateFiles and the watcher loses a change in   *)
(* any other way.  store.Watch, Reload, UpdateFiles.                       *)
StaleIsOwedOrDropped ==
  watching => \A f \in File : Stale(f) => WatcherOwes(f) \/ f \in unnoticed

(* a has not reached the end of a job that reads f into the index.         *)
Responsible(a, f) ==
  \/ f \in changed[a] /\ pc[a] # "idle"
  \/ pc[a] = "reload" /\ (mu = a => staged[f] = None)
  \/ pc[a] \in {"clone", "fetch"} /\ at[a] = Owner[f]

(* Dropping an event during a sync is only right because the sync itself   *)
(* indexes what it wrote.  So it does, with no help from the watcher,      *)
(* except where a pull ended with an error, with a nil list that           *)
(* periodicSync ignores, or with a list that leaves out what it wrote.     *)
(* periodicSync, webhookSync, importRemote, adminRemove.                   *)
PulledIsIndexed ==
  watching => \A f \in RemoteFile :
    Stale(f) => f \in blind \/ \E a \in Actor : Responsible(a, f)

(* remoteSyncActive never stays set when no sync is left to clear it, in   *)
(* whatever order overlapping syncs begin and end: the watcher does not go *)
(* deaf for good.  BeginRemoteSync, EndRemoteSync.                         *)
Syncing(a) ==
  /\ a = Main \/ a \in Hook
  /\ watching
  /\ \/ pc[a] \in {"pull", "clone", "fetch"}
     \/ a \in Hook /\ pc[a] \in {"reload", "update"}
SuppressionHasOwner == active => \E a \in Actor : Syncing(a)

(* The index is a dictionary that no interleaving of reloads, updates and  *)
(* the watcher takes out of its order: no article is replaced behind the   *)
(* back of a walk that installs an older reading.  Reload, UpdateFiles.    *)
Dictionary == INSTANCE IndexMap WITH
  newNav <- [f \in {g \in File : staged[g] # None} |-> staged[f]]
IndexIsMap == Dictionary!Spec

----------------------------------------------------------------------------
(* The facts that make the properties above inductive.                     *)

(* The entry a goroutine works on is known wherever it is used.            *)
JobInv ==
  \A a \in Actor :
    /\ pc[a] = "clone" => at[a] \in Git
    /\ pc[a] \in {"fetch", "delete", "save"} => at[a] \in Entry
    /\ a \in Admin => changed[a] = {}
    /\ save[a] => a \in Admin /\ at[a] \in Entry
    /\ \A f \in File : bundle[a][f] # Absent => pc[a] = "fetch" /\ at[a] = Owner[f]

(* Only a Reload that holds the mutex has a map under construction.        *)
LockInv ==
  /\ \A a \in Actor : mu = a => pc[a] \in {"reload", "update"}
  /\ \A f \in File : staged[f] # None => mu \in Actor /\ pc[mu] = "reload"

(* Until Watch() nobody but main runs, and what its Reload has read is     *)
(* what is on disk, up to edits made by hand since.                        *)
BootInv ==
  /\ watching => pc[Main] \in {"pull", "clone", "fetch", "idle", "update"}
  /\ ~watching =>
       /\ pc[Main] \in {"boot", "pull", "clone", "fetch", "reload", "watch"}
       /\ \A a \in Hook \cup Admin : pc[a] = "idle"
       /\ ~active /\ events = {} /\ hand = None
       /\ unnoticed \cap RemoteFile \cap {f \in File : pc[Main] = "watch" \/ staged[f] # None} = {}
       /\ \A f \in File : pc[Main] = "watch" \/ staged[f] # None
            => Served(f) = disk[f] \/ f \in unnoticed

IndInv ==
  TypeOK /\ JobInv /\ LockInv /\ BootInv
         /\ StaleIsOwedOrDropped /\ PulledIsIndexed /\ SuppressionHasOwner

(* A pull moved HEAD and failed before it had written f.  *)
LeftBehind(f) == disk[f] # head[f]

(* When the remote stops changing and the node stops crashing, every       *)
(* article of a repository that was cloned before is served in its latest  *)
(* version, whatever webhooks, failed pulls and dropped events come in     *)
(* between; only two do not heal: one that a pull failed to write after it *)
(* had moved HEAD, and one that a pull wrote and did not name in its list. *)
(* periodicSync, webhookSync, pullGit, UpdateFiles.                        *)
DeltasAreServed ==
  <>[][FALSE]_remote /\ <>[][pc'[Main] # "boot"]_vars =>
    <>[](\A f \in RemoteFile : Owner[f] \in Cloned \cap Preset =>
           index[f] = remote[f] \/ LeftBehind(f) \/ f \in blind)

----------------------------------------------------------------------------
(* What the repository's documents and comments say of the pipeline, and   *)
(* the code does not do.                                                   *)

(* Nothing is running, nothing is pending and no event is being dropped.   *)
Settled ==
  /\ watching
  /\ \A a \in Actor : pc[a] = "idle"
  /\ dirty = {} /\ events = {} /\ hand = None
  /\ ~ShouldIgnoreLocalEvents

(* git.go:32: a nil list "tells the router to do a full memory reload", so *)
(* that a fresh clone is served once everything has settled.               *)
CloneIsServed ==
  Settled => \A f \in RemoteFile : Owner[f] \in repo => index[f] = disk[f]

(* What remains of it: an article that is not served as it is on disk when *)
(* everything has settled is one whose event the watcher dropped, and if   *)
(* it was pulled, one whose puller did not index it either.                *)
SettledServes ==
  Settled => \A f \in File : index[f] # disk[f] =>
    f \in unnoticed /\ (f \in RemoteFile => f \in blind)
=============================================================================
