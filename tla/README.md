# A verification project for the RED Engine

The RED Engine (`src/`) is a Go node that serves signed Markdown articles. It
keeps the articles on disk and an index of them in memory, pulls content from
remote repositories and archives, and knows its peers by a SQLite registry and
a challenge-response announcement protocol. This directory holds TLA+ modules
that model the node's stateful core, the TLC configurations that check them on
small instances, and TLAPS proofs of the properties that matter most.

| Module | Models | Runs | Proofs |
|---|---|---|---|
| `ContentSync` (`MCContentSync`) | disk, index, watcher and everything that pulls | `sync_git`, `sync_archive`, `sync_live`, `clone_not_served` | `ContentSync_proofs` |
| `SyncFolders` (`MCSyncFolders`) | which source lands in which folder, and what the list of sources says of it | `sync_folders` | `SyncFolders_proofs` |
| `NavTree`, `Pages` (`MCNavTree`) | the tree of sections behind the index, and what readers open in it | `nav_tree` | `NavTree_proofs` |
| `IndexMap` | what those who use the index take it to be | in `sync_archive`, `nav_tree`, `verification` | in the proofs of the three |
| `Verification` (`MCVerification`) | how an article comes by its badge | `verification` | `Verification_proofs` |
| `NavIndex` (`MCNavIndex`) | the navigation tables, scans and descriptions | `nav_index` | `NavIndex_proofs` |
| `Announce`, `PeerUrls` | the challenge-response handshake, and what it promises | `announce` | `Announce_proofs` |
| `PeerRegistry` (`MCPeerRegistry`) | the peers table and its writers | `peers` | `PeerRegistry_proofs` |
| `RegistryMigration` | `migrate` with stops and restarts | `half_migrated` | `Startup_proofs` |
| `Startup` (extends `RegistryMigration`) | every start, from `InitRegistry` to serving: migration, identity, configuration | `startup` | `Startup_proofs` |

Everything is translated from the Go source; `PROJECT.json` maps each
definition to the lines it stands for. The paths below are relative to the
repository, so `store.go` is `src/internal/store/store.go`.

## 1. Inventory

| Component | State | Operations | Hard behaviour |
|---|---|---|---|
| **Content index** (`store/store.go`) | `nav` (sections and articles), `mu`, `remoteSyncActive`, `remoteSyncEnd` | `Reload`, `UpdateFiles`, `Watch`, `Begin/EndRemoteSync`, `Get`, `GetSection`, `Root`, `Nav` | a reload walks the disk while others write it; the watcher drops events during syncs; readers keep pointers after unlocking |
| **Fetching** (`fetch/git.go`, `fetch/fetch.go`) | destination directories, git repositories | `Pull`, `PullDelta`, `pullGit`, archive extraction | a pull may fail half-way; the returned list is a delta, empty, or nil |
| **Sync drivers** (`cmd/red/main.go`, `router/sync.go`, `router/webhook.go`, `router/peer_sync.go`) | `startup_sync` rows | startup sync, `periodicSync`, `webhookSync`, `importRemote`, `pullFromPeer`, `adminRemove` | overlapping syncs share one boolean flag; stale lists; a nil list; one entry has different folders in different callers |
| **Peer registry** (`registry/registry.go`, `router/admin_peers.go`) | `peers`, `peer_exported_paths` | `AddPeer`, `UpdatePeerURL`, `DeletePeer`, gossip import, refresh | identity by key or by URL; check, fetch, then write |
| **Announcement** (`router/announce.go`) | `challengeStore` (one pending nonce per key), sweeper | `announceChallenge`, `announceConfirm`, `AnnounceURLToPeer` | read, verify, write and delete of a nonce are separate steps; TTL, sweeper, restart, delayed messages |
| **Registry schema** (`registry/registry.go`) | schema version, tables | `migrate`, `migratePeersToV2`, `migrateStartupSyncToV2` | a crash between a migration and the version it records |
| **Configuration seeding** (`cmd/red/main.go`) | `startup_sync`, `node_settings` | one-time import of `config.json` | "once" is decided by "the table is empty" |
| **Node identity** (`node/identity.go`) | `node.key`, `node.pub` | `InitNodeIdentity` | two files written one after the other; a read failure regenerates the identity |
| **Navigation index** (`internal/navigation`) | `nav_*` tables | scan, upserts, aggregates, descriptions | rescans never delete; scans overlap each other, requests and changes of the disk; a scan goes on after errors |
| **Article verification** (`store.processArticle`, `contributors.go`) | `trusted_authors`, manifests, `signer.db` | add / revoke contributor, reload | the verdict is kept in the index; its three inputs are read one after the other |
| **HTTP read side** (`serve.go`, `api.go`, `raw.go`, `render.go`) | none of its own | page, content, search, recent files | lists and lookups must agree on paths; live sections are read outside the lock |
| **Frontend** (`src/src`, Vue) | current article, navigation, search index | async loads | answers arriving out of order |

How they interact. `main` runs the startup syncs, `Reload`s the index, starts
the watcher goroutine and `periodicSync`, and only then listens. From then on
the watcher, `periodicSync`, webhook goroutines and admin handlers run
concurrently; they share the disk, the index behind `Store.mu`, the
`startup_sync` table, and the flag `remoteSyncActive` that makes the watcher
drop events. Peers talk to the announcement endpoints and are written to the
registry, which is also written by admin handlers and by the gossip goroutine.
The modules cut this where the code shares little: `ContentSync`,
`SyncFolders`, `NavTree` and `Verification` look at the same pulls, reloads and
updates with different state in view (which version is served; which source is
in which folder; where an article hangs in the tree; what its badge was made
from), and each names what it takes from the others. What three of them take is one
index, and `IndexMap` says once what that is: a dictionary from paths to
articles. Its steps are `Update` (one article is replaced), `Read` (a reload adds
an article to the new map), `Install` and `Forget` (the process stops); an update
needs that no reload is under way. `ContentSync`, `NavTree` and `Verification`
each implement it by a refinement mapping (`Dictionary`, property
`IndexIsMap`), checked and proved for each: versions of files, a tree of
sections and slices, and verdicts.

## 2. Content synchronisation: `ContentSync`

### State and actions

| Model | Code |
|---|---|
| `remote` | what the remote sources hold; changed by `Publish` |
| `disk` | the data directory |
| `repo`, `head`, `behind` | which destination directories `git.PlainOpen` opens; the tree of each HEAD; the repositories whose HEAD is not the remote's last commit |
| `tracked` | the `startup_sync` rows |
| `index`, `mu`, `staged` | `Store.nav`, `Store.mu`, and `newNav` while `Reload` walks |
| `watching`, `known`, `dirty`, `events`, `hand` | the polling watcher: has listed the directory, its file list, files written since, events not yet received, the event being applied |
| `active`, `cool` | `remoteSyncActive`; less than 4 s since `remoteSyncEnd` |
| `pc`, `todo`, `at`, `bundle`, `changed`, `save` | each goroutine's program counter and local variables |
| `unnoticed`, `blind` | history variables, read by no guard |

An article's bytes are a member of `Content`, `Absent`, or `Torn` (a write that
failed half-way). The goroutines are `Main` (startup, then `periodicSync`),
`Hook` (webhook goroutines) and `Admin` (requests). `pullGit` on an existing
repository ends in one of five ways:

| Action | What has happened | What the caller gets |
|---|---|---|
| `PullFails` | nothing (no network, unreadable repository) | an error |
| `UpToDate` | nothing, HEAD is the last commit | an empty list |
| `PullRepo` | HEAD and the files are those of the last commit | the paths in which the two commits differ, but for files that `Patch` paired as renames: their statistics name one combined path |
| `PullUnlisted` | the same | a nil list and no error: `Head`, `CommitObject` or `Patch` failed (git.go:62-81), or there was no earlier commit |
| `PullBreaks` | HEAD has moved, some of the files are written | an error; the next pull is `UpToDate` |

A clone is `StartClone` (remove the folder, make an empty repository, which
opens from then on, after a crash as well), `CloneHead`, then `FinishClone` or
`CloneFails`; an archive is `Download`, then `WriteEntry` per file, with
`TearEntry` for a failure in the middle. `Reload` is `WalkFile` for each file, then `Install`;
`UpdateFiles` is `UpdateFile` for each path; both hold `mu`, and neither locks
the disk. `Crash` restarts the process at any step: disk and database survive.

Left out: articles are not parsed here (an index entry is the bytes it was
rendered from); renames seen by the watcher (section 11); operators editing files
inside a pulled directory (`Owner` separates hand-written and pulled articles).
Names, folders, recorded results and imports from peers are in `SyncFolders`.
go-git is external, and two of its calls are taken to be short: a pull of an
existing repository is one step once it has fetched, although a crash or a reload
may fall between HEAD and the files (`PullBreaks` has the state such a crash
leaves, and a reload between the files of a pull is checked with archives), and so
is the beginning of a clone. A reset that go-git refuses because a tracked file
was edited by hand (`ErrUnstagedChanges`) comes after HEAD has moved: it is
`PullBreaks` with no file written. The 4 s cooldown and the 2 s poll are not
timed: the cooldown may end at any moment, which includes the case of a poll
that takes long.

### Properties

* `StaleIsOwedOrDropped`: an article served differently from the disk is one
  the watcher still has to see or apply, or one whose event it dropped. No
  interleaving of the unlocked disk walk with other writers loses a change in
  another way; this is what `Store.mu` is for.
* `PulledIsIndexed`: what a sync writes is indexed by that sync without help
  from the watcher, except (`blind`) after an error, after a nil list in
  `periodicSync`, and for what a list leaves out. It is the reason why dropping
  events during a sync is right, and it names where it is not.
* `SuppressionHasOwner`: `remoteSyncActive` is never left set without a running
  sync, although overlapping syncs share one boolean.
* `IndexIsMap`: the index implements `IndexMap`. With a walk that does not hold
  `Store.mu`, the installed map could hide a newer reading.
* `SettledServes`: when nobody is at work and the watcher has nothing to do, an
  article that is not served as on disk is one whose event was dropped, and if
  it was pulled, one whose puller did not index it. It is what is left of
  `CloneIsServed`; it follows from the properties above and is proved only.
* `DeltasAreServed` (liveness): once the remote stops changing and the process
  stops crashing, articles of cloned repositories end up served in their latest
  version, whatever webhooks, failed pulls and dropped events come in between.
  Two sorts of articles do not heal, and are named: those a pull failed to write
  after it had moved HEAD (`LeftBehind`; later pulls compare HEADs and find
  nothing to do), and those a pull wrote and did not name to somebody who indexes
  by the list alone (`blind`: main.go:208 takes the nil list of `PullUnlisted`,
  or a list without the renamed files, for all there is).

### Runs

| Run | Instance | Shows |
|---|---|---|
| `sync_git` | one git entry with one article, not cloned at first; `Main`, one webhook, one admin request; two versions of the article, one of them `Absent` | staleness has a known cause; pulled changes are indexed by the puller; the flag has an owner, through clone, pull, removal and import |
| `sync_archive` | one archive with one article, one hand-written article; `Main`, one webhook; one content | pulled changes are indexed, and the index stays a dictionary, with file-by-file writes, failures in the middle and edits by hand |
| `sync_live` | one cloned repository, `Main`, one webhook, the same two versions | convergence up to the two named exceptions |
| `clone_not_served` | `periodicSync` clones; nothing is published meanwhile (`QuietSpec`) | violation of `CloneIsServed`: main.go:208 takes the nil list of a fresh clone, "full memory reload" in git.go:32, for an empty one |

The safety properties speak of each article separately, and an interleaving
that makes one stale needs a writer, a walker and the watcher: one article per
source is enough. One content and `Absent` are two versions, between which a
file changes, changes back, and may be taken for a rename. The actors are as many as can
overlap on one source; every role of the code is among them. The proofs lift
these bounds for the safety properties.

Fairness (`FairSpec`): goroutines keep running, the ticker fires, and Go's
mutex does not starve a waiter, hence strong fairness for steps that need `mu`;
a pull returns, and of repeated attempts on a repository with something to pull
one gets past the network in the end (strong fairness on `PullMoves`), with a
list, without one, or with an error after HEAD has moved: upstream is not down for
good and rewrites no history. Webhooks, admins,
editors and crashes are not assumed to happen.

Two things the model shows that no run states: the first of two overlapping
syncs to end clears the flag under the other (store.go:102), so that the watcher
applies events of a pull that is still going on; and events of articles no sync
touched are dropped with the rest, so that an operator's edit during a sync, or
between the startup reload and the watcher's first listing, is not served until
the file changes again or something reloads (README.md:284 calls the dropped
events redundant). `StaleIsOwedOrDropped` names these cases by `unnoticed`.

### Proofs: `ContentSync_proofs`

`TypeCorrect`, `StaleIsOwedOrDroppedHolds`, `PulledIsIndexedHolds`,
`SuppressionHasOwnerHolds`, `SettledServesHolds` and `IndexIsMapHolds` hold for all sets of files, entries, goroutines and
contents, under the three named assumptions of `ContentSync`. The inductive
invariant `IndInv` adds to the properties: `JobInv` (the entry a goroutine works
on, and that a download only holds that entry's files), `LockInv` (a map under
construction belongs to a reloading holder of `mu`: without it `UpdateFile`
could write the index behind a walk that installs an older reading) and
`BootInv` (before `Watch` nobody but main runs, and what the startup reload has
read is on disk up to hand edits). `LockInv` is also what the refinement needs:
who updates holds `mu`, so no map is under construction. `PullStep` says once what a step of a pull may
do, and the five preservation lemmas use it for the thirteen actions of a pull.
Liveness is only model-checked.

## 3. Names, folders and sources: `SyncFolders`

`ContentSync` gives each entry one folder and one source for ever. The code does
not: an import writes to the folder of the name it is given (sync.go:121),
startup, `periodicSync` and webhooks to the last element of that name
(main.go:127, main.go:197), a removal deletes the folder of the whole name, and
a list keeps its URLs although the operator has changed an entry meanwhile.

| Model | Code |
|---|---|
| `files`, `origin` | for each place, the sources of what lies there; where the repository there was cloned from |
| `rows` | `startup_sync`: URL and `sync_status` of each name |
| `todo`, `pulled` | a sync's list, and the entry whose result `MarkSyncResult` has yet to record |
| `task` | what an admin request still has to do: save the entry, or delete the folder |
| `aimed`, `spoiled`, `rekeyed`, `cloned`, `gone` | history: the exceptions of the properties, by name |

A pull is one step here, with the effect of its kind: `PullRepo` from `origin`
whatever the URL, `Clone` after `os.RemoveAll`, `Extract` over what is there,
`FetchDocument` to the name with `.md`. What arrives is written over what has the
same path (`Overwrite`): `writeEntry` and `pullFromPeer` create their files
without looking, and so does a reset of go-git with files it does not track.
Hand-written articles are therefore of two sorts, `Own` at paths no source has and
`Edit` at paths that sources have as well, and another source may lose all its
articles. A repository that is up to date is not looked into, so that a pull may
succeed and bring nothing. `DeleteLocalFiles` may leave anything (the error of
`os.RemoveAll`, sync.go:226, is dropped), a repository without its articles too.
Then come `MarkSyncResult`, `SaveEntry`,
`AdminRemove` and `DeleteLocalFiles` as steps of their own, as in the code, so
that syncs, webhooks and requests fall between them; `Crash` forgets all
lists. `ImportFromPeer` is `pullFromPeer`: its files lie in a folder, but the
entry it saves has no suffix that `detectSrcType` knows, so that later syncs
fetch it as one raw document.

* `OkIsThere`: an entry the operator sees as "ok" is on disk where syncs put it,
  unless its name was given another URL (`AddStartupSync` and `MarkSyncResult`
  go by name and keep the status), another source was pulled over its folder, or
  the last pull or a removal emptied it.
* `GoneStaysGone`: what the operator removed with its files stays away, unless
  somebody was about to write there. The exception is real: `periodicSync` pulls
  an entry from a list read before the removal, and README.md:83 promises the
  deletion without it. A removal of `a/b` deletes `data/a/b`; what syncs wrote
  to `data/b` stays.
* `KeptOnceCloned` (action): a folder that was cloned to is not emptied again by a
  sync, an import or the removal of another entry. `Own` articles stay whatever
  happens, `Edit` ones go only by a pull to that very folder, which may write over
  them. The first clone takes both: git.go:20 removes whatever was there.
  CHANGELOG.md:50 counts the loop that did so every minute as fixed.

`sync_folders` has the names `b` and `a/b`, two repositories (so that the origin
can differ from the entry's URL), an archive and a peer, one webhook, one
request at a time and two acts of the operator: the smallest instance with two
entries for one folder and an entry that changes under a sync. Webhooks match
by prefix (webhook.go:101), hence `Matches` is a relation.

Assumed of what is not under `src/`: go-git's merge reset leaves untracked files
alone whose path the new commit does not have; the `os.RemoveAll` before a clone
(git.go:20, its error is dropped as well) succeeds. Left out: an edited file that
go-git tracks makes later pulls fail (`ErrUnstagedChanges`), which is one of the
pulls that bring nothing here.

`SyncFolders_proofs` proves the three for any names, folders and sources. The
inductive invariant adds `RightPlaces` (whatever is going to be pulled to a
folder has a folder's name), `ClonedAreRepositories`, `OriginsPulled`,
`OriginsPlaced` (what a repository was cloned from is there, or lost in a named
way, which is what a pull that brings nothing relies on), `ResultsPlaced` (a
success that is not recorded yet is on disk, or lost in a named way) and `NobodyDestined` (nobody holds a list that leads to a place that
is gone). `Fetched` says once what a pull of any kind may do.

## 4. The tree behind the index: `NavTree` and `Pages`

`ContentSync` and `Verification` take the index to be a function from files to
what they were rendered to. In the code it is a tree of sections whose articles
are slices, and `Reload` and `UpdateFiles` change it in two ways. That this
implements `IndexMap` is a theorem here.

| Model | Code |
|---|---|
| `nav` | `Store.nav`: the sections there are, and how often each article is listed |
| `newNav`, `todo` | the map `Reload` builds, and the files its walk has still to visit |
| `In`, `Above` | the directories of a path, as `insertIntoMap` and `Get` split it |
| `rendered`, `walked`, `since` | history: the last outcome for each file, in the index and in the walk; what was indexed since the last reload |

Actions: `UpdateFile` (one path of `UpdateFiles`: `RemoveFromMap`, then
`InsertIntoMap` if the file can be rendered), `Reload`, `WalkFile`, `Install`.
`mu` makes updates and reloads exclude each other (`todo = None`). What a file
is rendered to is any body, or `None` for one that is missing or unreadable. A
directory called `root` shares its section with the articles at the top, as in
the code.

* `TreeIsMap`: `Get` finds for a path what the file was last rendered to. It
  fails if a removal takes away a section with others below it, or if an
  insertion forgets a section on the way.
* `IndexIsMap`: what `Get` finds in the tree, for every path at once, is a
  dictionary. `TreeIsMap` compares it with a history variable; this needs none:
  replacing an article changes what is found under no other path, and what is
  under construction shows only when it is installed.
* `SearchIsFull`: the search index names each article that `Get` finds, once;
  it fails if an update leaves the old entry in the slice. Articles below a
  directory called `root` are exempt: `BuildSearchIndex` (store.go:369) returns
  before it looks at the sections of the section "root".
* `EmptySectionsAreLeftovers`: `removeFromMap` only takes away top-level
  sections; a lower section that has lost its last article is still found by
  `GetSection` and listed in the search index until a reload. No other section
  is empty, and never one at the top.

`nav_tree` has three levels of directories, two articles at the top, one
under `root/`, and two bodies: each case of the two functions, and each pair of
articles that can disturb each other. `NavTree_proofs` proves
the four properties for any directories, of any depth, in which a section has
one top. The inductive invariant is `Shows(nav, rendered)`: the listing counts
are exactly 1 for what was rendered last and 0 for everything else, the sections
of listed articles exist, and sections are reachable; the same for `newNav`,
so that `Install` has nothing to prove. One lemma per function of the code
(`WithoutShows`, `DropShows`, `RemoveShows`, `InsertShows`) says what it does to
`Shows`, and `GetShows` that `Get` finds what the listing shows: with it, each
step of the tree is one of the dictionary's.

Left out: the order of articles in a section, covers and icons
(`checkMetaFiles`, which only a reload calls), and handlers that read a section
after the lock is released (section 11).

### What readers open: `Pages`

`Pages` adds no state. It says which article or section the path of a request
opens, in `contentAPI` (`ContentAPI`) and in the pages for browsers without the
built front end (`Serve`), and which paths the search index (`Hits`,
`FolderHits`) and the list of recent files (`Recent`, `ShownAt`) hand out. Four
handlers interpret paths on their own: with or without `.md`, a folder by its
article `RED_KNOWLEDGE`, an article before a folder of the same path.

* `SearchOpens`: what the search index names can be opened, by its path and by
  its path with `.md`; a folder shows its page or the article of that path. The
  exception is a segment that begins with a dot: `Reload` and `UpdateFiles`
  index such files and the search index names them, while every request for
  them is refused.
* `RecentOpens`: the list of recent files names each article once and by a path
  that opens it, unless another article has the path of its folder (`a.md`
  beside `a/RED_KNOWLEDGE.md`), or it is the `RED_KNOWLEDGE` of the data
  directory itself, which is named by the empty path and answered 400.
  (README.md:274 says "correct display paths".)

Both are checked and proved with `NavTree`, in every state that reloads and
updates can leave: `nav_tree` has an article beside a folder of its name, three
`RED_KNOWLEDGE`s and a path with a dot, and each exception named above is needed
there. The proofs rest on `TreeIsMap` and the uniqueness of paths.

## 5. Article verification: `Verification`

| Model | Code |
|---|---|
| `files`, `manifest`, `authors` | the articles, the signers' entries in `signer.db`, the rows of `trusted_authors` |
| `index`, `mu` | the verdict and author in `Store.nav`; `Store.mu` |
| `keys`, `sigs`, `newNav` | `trustedKeys`, `allSignatures` and the map under construction, of each call |
| `stale`, `moved`, `since` | history: what changed since a verdict was made, since a call began to read, and who was listed meanwhile |

`Reload` reads the trusted keys, then the signatures, then each article;
`UpdateFiles` does so anew for each path. `ProcessArticle` goes through the
cases of store.go in their order: unsigned, tampered, untrusted, malformed,
invalid, verified. Keys are registered as strings: two spellings of one key are
two rows, `RevokeContributor` revokes one of them, and the lookup lowers both.
Databases that cannot be read to their end count as the rows that were read.

* `VerdictsCurrent`: a verdict differs from what the disk and the registry now
  say only if the file, its signature or a contributor changed, or could not be
  read, since the article was last indexed; no reload puts back an older
  verdict than an update's. This is what is true of README.md:212, which says
  the verdict is made "per request": revoking a contributor changes nothing
  until somebody reloads, and a new `signer.db` is no event for the watcher.
* `JudgedInTheCall` (action): an article gets a contributor's badge only by a
  key that was listed as that contributor's, in some spelling, at some moment of
  the reload, or since the update came to this path. With a key in two
  spellings, revoking one leaves the other trusted.
* `IndexIsMap`: the verdicts implement `IndexMap`. A reload judges into a map of
  its own, and no update comes between its judgements and its installation.

`verification` has two articles, one registered key in two spellings under two
names, an entry by another key, two goroutines and one change at any moment;
each property concerns one change between two reads. `Verification_proofs`
proves the three for any numbers: `LockInv` (one call at a time), `ReadInv` (what a
call has read and did not change since is what is there), `MovedInv` and
`JudgedInv`, and for the refinement `FreshInv` (a reload begins with an empty
map).

## 6. The navigation index: `NavIndex`

| Model | Code |
|---|---|
| `dirs`, `files` | the disk |
| `db` | `nav_folders`, `nav_guides` as committed |
| `writer`, `draft` | the scan with SQLite's write lock, and the tables as it sees them |
| `pc`, `at`, `todo`, `seen` | each scan's place in `scanDir`, and its listing of that folder |
| `overrides`, `job` | `nav_description_overrides`, and a request between its two statements |
| `clean`, `visited`, `split` | history |

A scan is one deferred transaction: it takes the write lock with its first
upsert and keeps it to the commit. It reads each folder, its `index.md` and its
guides one after the other while the disk changes. An upsert that waits for the
lock in vain is an error that skips the subtree, and the scan goes on. Scans
overlap: one runs at the start, and every request to rescan runs its own.
`SetFolderDescription` is two transactions.

* `RowsConnected`: no folder without its parent, no guide without its folder,
  although folders are skipped on errors.
* `CountsAreRows`: the committed counts are those of the committed rows, whoever
  wrote last (not `guide_count` of a folder with subfolders, which nothing
  updates).
* `OverrideShown`: a description an operator set is what readers get, unless a
  request failed between its statements, raced with another, or named a folder
  that was not there yet.
* `CompleteScanAgrees` (action): a scan without errors over a disk that stayed
  as it was ends in agreement with it, and `GetNavigationTree` reaches every
  folder there is. What is gone from the disk stays in the tables: scanner.go:11
  says the index is rebuilt, and no statement deletes a row. The description
  taken from `index.md` is written with a folder's first row and never again.

`nav_index` has a vault with an `index.md`, a folder below it with a guide and an
empty vault; two scans, two requests, four changes of the disk. That is what it
takes for a folder to be a leaf, stop being one and be skipped. `NavIndex_proofs`
proves all four for trees of any depth and any number of scans: `LockInv` (only
one scan has a draft of its own), `WalkInv` (a scan has written the parents of
what it has still to visit), `JobInv` and `Shown` (the tables differ only in the
named cases) and `CleanInv` (on a quiet disk, every folder is written or
pending).

## 7. Announcements: `Announce` and `PeerUrls`

| Model | Code |
|---|---|
| `url` | `peers.url` of the row with a key, `None` without a row |
| `store`, `issued`, `expired` | `challengeStore`; nonces numbered as they are generated; those older than `challengeTTL` |
| `job` | for each request handler, the message it works on and its next step |
| `sweep` | the challenge the sweeper has found expired, whose key it is about to delete |
| `here`, `step` | the announcing process: its URL, and how far it is |
| `wire` | every message ever sent; any may be delivered at any time, any number of times, or never |
| `spent`, `applied`, `raced` | history |

A handler is cut where the code touches shared state: `AnnounceChallenge` (look
up the key), `StoreChallenge`; `AnnounceConfirm` (load and check), then
`UpdatePeerURL` or `UpdateFails`, then `DeleteChallenge`; `ConfirmExpired`, then
`EvictExpired`. The sweeper is `SweepRead` and `SweepDelete`; the operator adds
and deletes the peer; either process restarts (`Restart`, `Crash`). Signatures
are not computed: only the holder of a key produces its confirmations, and
requests that are refused change nothing.

* `SpentNotPending`: a nonce whose confirmation has completed is never pending
  again, whatever other handlers, the sweeper and restarts do.
* `UrlIsNewest`: delayed or repeated messages do not bring an older URL back,
  unless two different challenges of the key were being confirmed at once.
* `PromiseKept`: the handshake implements `PeerUrls`, which knows no nonces:
  beside the operator only the holder of a registered key changes its URL, to
  one it announced. The refinement maps `source` to the node if `applied` holds
  a confirmation, and `announced` to the URLs that were signed.
* `FreshIsUsed` (action): a challenge that has not expired is deleted by its own
  confirmation, by a restart, or by somebody who has looked at an older challenge
  of the same key: `SweepDelete`, `EvictExpired` and `DeleteChallenge` delete
  what is under the key by then (announce.go:54, :148, :183). The exception is
  real; the handshake then fails and is tried again when the node starts next.
* `ChallengeGoes` (liveness): a pending challenge is used, replaced, swept or
  lost. Fairness: time passes (`Expire`), and the sweeper's ticker visits every
  key; strong fairness for `SweepRead`, because requests may replace and expire
  the entry between two visits.

Not a property, because nothing depends on it: that a nonce is used once.
announce.go:177 says it is consumed so that "the same payload can never be
replayed"; two deliveries of one confirmation may both pass the check before
either deletes it. The URL written is the same, which is why the properties hold.

Bounds: one key (keys share nothing), two URLs, two requests at a time, two
nonces: the smallest instance with an old and a new challenge, two racing
confirmations and a sweeper between them. `Announce_proofs` proves the safety
properties and the refinement for all numbers of these. The inductive invariant
`IndInv` adds `WireInv` (a nonce is answered to one process, which signs one URL
with it), `StoreInv` (what is pending is newer than what was consumed or
applied) and `JobInv` (a confirmation under way was sent, and is not newer than
what is pending; without a race it is not older than what was applied) and
`AgeInv` (what is deleted for its age was read when it was old).

## 8. The peer registry: `PeerRegistry`

| Model | Code |
|---|---|
| `peers`, `seq`, `exported` | table `peers` (id, url, key, type), its AUTOINCREMENT, `peer_exported_paths` |
| `adding` | what an admin request has fetched and is about to store |
| `from`, `todo`, `self`, `pick` | a gossip goroutine: whose list it reads, the items left, the own URL it has read, the item it found unknown |
| `granted`, `since`, `unread` | history |

`AddPeer(p, id)` is the transaction of `registry.AddPeer`: find the row by key,
otherwise by URL, then update or insert, then replace the exported paths if the
caller gave any. When several rows have one URL, SQLite may return any: `id`
ranges over them. Requests and refreshes fetch the peer's nodeinfo first
(`FetchNodeInfo`) and store it later (`SavePeer`, `SaveFails`); a gossip
goroutine fetches the list and reads this node's `public_url` once, which may be
unset or unreadable (`GetSetting` drops its error): then the test against the own
URL matches nothing and the node may list itself. For each item it decides
(`SkipItem`, `PickItem`; `fails` says that the look-up does, whose error is
dropped too, so that the item counts as unknown), and adds it (`AddItem`,
`AddItemFails`); `UpdatePeerURL` and `DeletePeer` come at
any time, and `Crash` ends all of it.

* `OneRowPerNode`: no key in two rows. The fallback to the URL and the moves of
  `UpdatePeerURL` never run into the UNIQUE constraint.
* `NoOrphanPaths`: foreign keys are not enforced by the connection; the two
  tables stay in step because every writer keeps them so.
* `OperatorPromotes`: whatever peers answer, a row is downstream or mirror only
  if a request asked for that.
* `CheckedUnknown`: an item gossip is about to add would not have been
  recognised, but for rows it could not see: written since it looked, or there
  all along when the look-up failed.
* `RowsFollowTheirNode` (action): what may happen to a row from one step to the
  next. It moves to another URL only with its key, which announced that URL, or
  answered there when a request asked, or was listed there by a peer while
  gossip could not see the row. It passes to another key only if that key is in
  no other row, and answered or was listed at the row's own URL. It changes its
  type only by a request for that type; a list sets it back to upstream only
  along with a takeover, or when the row could not be seen. A refresh that asked
  before an announcement and stores its answer afterwards does take the row back,
  but never to a URL that is another node's.

The takeover is what the code does and not what its comments say. An item with an
unregistered key at a registered URL counts as unknown (the look-up by URL is
only made for items without a key), and `AddPeer` then finds the row by URL
(registry.go:404) and gives it the key, name and type of the item, where
admin_peers.go:290 says gossip registers unknown nodes only. A node the operator
made downstream is upstream afterwards. A refresh does the same and keeps the
type: a grant stays with the row when the key at its URL changes.

Bounds: two URLs, two keys, one path, one request, one gossip goroutine with
lists of one item, two rows ever. Two rows are what the uniqueness properties
need; with a third (`MaxId = 3`) the run takes more than five minutes. One of the
URLs and one of the keys are this node's, so no symmetry is used.
`PeerRegistry_proofs` proves
all five for any numbers; `IndInv` adds that ids have been given out
(`IdsGivenOut`). The lemma `Writes` says once what the statements that write
rows may do to the tables, and each property is shown to survive it.

Left out: names and other descriptive columns, `peer_health_history`
(`SetPeerHealth` has no caller).

## 9. Starts: `RegistryMigration` and `Startup`

### The migration

State: `version` (the recorded schema version), `peers` and `syncs` (which form
each table has, and its rows), `paths` (the legacy column `exported_paths`),
`junction` (`peer_exported_paths`), and the local state of `migrate`: `pc`,
`ver` (the version as read at the start), `captured` (`capturedPaths`). `Init` is
any legacy database, or a new one. Each statement outside a transaction is an
action, each transaction is one; `Stop` ends the process between any two, and
`Restart` is what follows `log.Fatalf`.

* `NothingLost`: a registry that says version 2 has every row, filename and
  exported path of the legacy one, although the paths are only in memory
  between the transaction that drops their column and their insertion. It holds
  because a migration that stops in between never reaches version 2, which is
  the other finding.
* `LostForGood` (action): a registry that no start can open (`Lost`: the table of
  peers is recreated, the version says that it has to be) comes about only by a
  stop in the middle of `migrate`, and never ceases to be one; a start fails for
  no other reason but keys that two legacy peers share.
* `OpensAgain` is violated (`half_migrated`): registry.go:60 says InitRegistry
  is "Safe to call repeatedly". After a stop between the creation of the
  version 2 peers table and the writing of the version, each later start runs
  `migratePeersToV2` on a table without the legacy columns and fails, on a new
  database as well. It is checked under `FairSpec`: the process is started
  again each time, so the failure is not a matter of stopping.

### The whole start

`Startup` extends it by what `main` does once the registry is open, and by the
operator's changes while the node runs: `InitNodeIdentity` (`LoadKey`,
`GenerateKey`, `EmptyKey`, `FillKey`, `SavePub`; `os.WriteFile` empties a file
before it fills it), the import of `config.json` (`ListSyncs`, `ImportEntry`,
`EndImport`) and of the settings (`SeedSetting`, `KeepSetting`), and `Serve`.
`StopMain` comes between any two steps. Errors that `main` does not look at are
steps: a list of syncs or a setting that cannot be read counts as empty, a key
file that cannot be read as missing.

* `IdentityKept` (action): the node serves with the identity it served with
  before, however often starts are stopped, unless `node.key` could not be read
  at a start in between. The window in which the file is empty is only open
  while there is no identity yet.
* `PubFileMatches`: `node.pub` is the identity of the running node, unless a
  start stopped between the two files; nothing mends that later.
* `SeedsArrive`: a running node has every entry that `config.json` offers, but
  for those the operator removed, unless an import was stopped half-way ("once"
  is decided by an empty table) or an older release had left entries.
* `RemovedStaysOut`: a removed entry does not come back with a start, unless the
  operator removed the last one, or the list could not be read. CHANGELOG.md:18
  says the configuration is "then ignored"; with an empty list it is imported
  again.
* `SettingsKept`: what the operator last gave a setting survives every start at
  which it could be read, unless it was the empty string. `main` tests
  `GetSetting(...) == ""` (lines 89, 96 and 111), which does not tell a setting
  that was blanked from one that was never written: the next start gives a blanked
  one the value of `config.json` again, where CHANGELOG.md:18 says that the
  configuration is "then ignored".
* `ComesUp` (liveness): if the keys of the legacy peers are unique, the node is in
  the end up for good, unless a stop hit the one wrong moment of `migrate`
  (`Lost`). Fairness: `main` goes on (weak fairness of its steps); stops are
  bounded and not assumed.

Bounds: two peers, one key (so that legacy rows may clash), one path, two
filenames that are also the configured entries, one setting, three identities,
two stops, two changes by the operator. A stop loses memory, so two stops reach
each pair of places. `Startup_proofs` first proves `NothingLost` for the
migration alone, by the invariant that each legacy path is in the column, in
`captured` or in the junction table (`RowsKept`, `PathsUnderway`); then that a
start implements the migration (`StartsMigrate`: each step is one of its steps or
leaves the registry alone), which lifts `NothingLost` and `LostForGood` to the start without
another induction; then the five properties of the start, by `KeyInv` (the key
file is the identity that was served, while nothing was misread), `SeedInv` (an
import that began holds or has brought every entry) and `RemovedInv`.

## 10. What is proved and what is checked

| | Proved for all constants | Checked by TLC only |
|---|---|---|
| `ContentSync` | `TypeOK`, `StaleIsOwedOrDropped`, `PulledIsIndexed`, `SuppressionHasOwner`, `SettledServes`, `IndexIsMap` | `DeltasAreServed` |
| `SyncFolders` | `TypeOK`, `OkIsThere`, `GoneStaysGone`, `KeptOnceCloned` | |
| `NavTree`, `Pages` | `TypeOK`, `TreeIsMap`, `IndexIsMap`, `SearchIsFull`, `EmptySectionsAreLeftovers`, `SearchOpens`, `RecentOpens` | |
| `Verification` | `TypeOK`, `VerdictsCurrent`, `JudgedInTheCall`, `IndexIsMap` | |
| `NavIndex` | `TypeOK`, `RowsConnected`, `CountsAreRows`, `OverrideShown`, `CompleteScanAgrees` | |
| `Announce` | `TypeOK`, `SpentNotPending`, `UrlIsNewest`, `PromiseKept`, `FreshIsUsed` | `ChallengeGoes` |
| `PeerRegistry` | `TypeOK`, `OneRowPerNode`, `NoOrphanPaths`, `OperatorPromotes`, `CheckedUnknown`, `RowsFollowTheirNode` | |
| `RegistryMigration`, `Startup` | `TypeOK`, `MainTypeOK`, `NothingLost`, `LostForGood`, `PubFileMatches`, `SeedsArrive`, `RemovedStaysOut`, `SettingsKept`, `IdentityKept` | `ComesUp` |

The assumptions are those named in the modules (`EntryAssumption`,
`ValueAssumption`, `ActorAssumption`, `FolderAssumption`, `SourceAssumption`,
`SentinelAssumption`, `TreeAssumption`, `PagesAssumption`,
`VerificationAssumption`, `NoneAssumption`, `NavAssumption`,
`AnnounceAssumption`, `RegistryAssumption`, `MigrationAssumption`,
`StartupAssumption`): sentinels are none of the values they stand beside, roles
are disjoint, directories form a forest, paths are unique. Only `NavIndex` needs
finite sets, of folders and guides, because it counts them; no other set has to
be finite. Liveness is out of the prover's reach, and so are the two
refutations, which are TLC's counterexamples.

Operators whose name ends in `Fault` are plausible mistakes in the definition
after them; `PROJECT.json` pairs each with the property it must break.

## 11. Not modelled

| Part | Why |
|---|---|
| Readers of a section outside the lock | `recentFiles`, `findSiblings` and the templates range over slices and maps that `UpdateFiles` changes in place. Go gives such a race no meaning; a model would be of one compiler and runtime. `Pages` takes each lookup to be whole |
| The deadline of a pull | git.go:13 has none: one that hangs stops the watcher and `periodicSync` for good. It needs no model to see, and `ContentSync` assumes for liveness that pulls return |
| Time | the cooldown against the ticker (main.go:193), challenge lifetimes beyond "expired or not", modification times |
| Renames seen by the watcher, and the reload that follows an error of `UpdateFiles` | which of its two names a renamed file's event carries is decided in the watcher's library (radovskyb/watcher v1.0.7, whose source is not in the repository), and `UpdateFiles` indexes that one path anew; `UpdateFiles` returns no error |
| Order of articles in a section, covers and icons | decided by the order of a walk; read by templates only |
| Readers of the navigation tables, and a commit that fails | single queries; SQLite rolls a failed commit back, like a stop |
| Names and descriptions of peers, `peer_health_history` | no decision depends on the first; the second has no writer |
| Frontend | the state of one page in one browser. Answers to two loads may arrive in the opposite order (`useArticle.ts:6`), and the page then shows the article the reader has left |
| Markdown rendering, templates, configuration parsing, assets, set-up scripts | functions of one input without state between calls, or run by hand |

`PROJECT.json` lists every hazard with the property that covers it or the reason
why none does.
