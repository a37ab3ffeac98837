---------------------------- MODULE Verification ----------------------------
(***************************************************************************)
(* How an article comes by its badge.  A verdict is not made when an       *)
(* article is requested: it is stored with the article when Reload or      *)
(* UpdateFiles indexes it, from three things read one after the other:     *)
(* the trusted authors (registry.db), the signatures (signer.db in each    *)
(* vault) and the file itself.  Store.mu keeps the two from overlapping;   *)
(* nothing keeps what they read from changing meanwhile, or later.         *)
(*                                                                         *)
(* A public key is registered as a string of hex digits.  Upper and lower  *)
(* case are different rows of trusted_authors and the same key.            *)
(***************************************************************************)
EXTENDS Naturals

CONSTANTS
  File,
  Body,       \* contents; two with the same hash are the same
  Key,
  Spelling,   \* strings for public keys
  Lower,      \* Spelling -> Key
  Name,       \* of contributors
  Entry,      \* entries of the signers' tables
  Malformed,  \* a signature that cannot be decoded
  Unknown,    \* "Unverified / Unknown Origin"
  Worker,     \* goroutines that call Reload and UpdateFiles
  None,
  MaxChanges  \* bound on what operators, signers and pulls change

(* hash: the body an entry was made for; sig: the key that signed it.      *)
EntryType == [hash : Body, key : Spelling, sig : Key \cup {Malformed}]

ASSUME VerificationAssumption ==
  /\ Lower \in [Spelling -> Key]
  /\ Entry \subseteq EntryType
  /\ None \notin Body \cup Entry \cup Name \cup Worker \cup File
  /\ Malformed \notin Key
  /\ Unknown \notin Name
  /\ MaxChanges \in Nat

State == {"unsigned", "tampered", "untrusted", "malformed", "invalid_sig", "verified"}
Article == [body : Body, state : State, author : Name \cup {Unknown}]

ASSUME NoneAssumption == None \notin Article

VARIABLES
  files, manifest,          \* the disk: articles, and the signers' entries
  authors,                  \* trusted_authors: the name of a spelling, and revoked or not
  index,                    \* Store.nav
  mu,
  pc, kind, todo, at,       \* of each worker: its step, the call, the paths left, the path it is at
  keys, sigs, newNav,       \* trustedKeys, allSignatures and newNav
  stale,                    \* history: files whose inputs changed since the last verdict's were read
  moved,                    \* history: files whose inputs changed since a worker began to read
  since,                    \* history: who was listed at some moment of a worker's call
  changes

sources == <<files, manifest, authors>>
locals == <<pc, kind, todo, at, keys, sigs, newNav>>
history == <<stale, moved, since>>
vars == <<sources, index, mu, locals, history, changes>>

Step == {"idle", "path", "trust", "signatures", "article"}
Row == [name : Name, revoked : BOOLEAN]
NobodyTrusted == [k \in Key |-> None]
NothingSigned == [f \in File |-> None]
NoArticles == [f \in File |-> None]

(* The rows the query of loadSecurityData selects.  (A definition whose    *)
(* name ends in Fault is a plausible mistake in the one that follows it;   *)
(* nothing uses it.)                                                       *)
TrustedFault == {<<Lower[s], authors[s].name>> : s \in {t \in Spelling : authors[t] # None}}

Trusted ==
  {<<Lower[s], authors[s].name>> : s \in {t \in Spelling : authors[t] # None /\ ~authors[t].revoked}}

ListContributors ==
  {<<s, authors[s].name>> : s \in {t \in Spelling : authors[t] # None /\ ~authors[t].revoked}}

(* Two spellings of a key may have two names; the row read last wins.      *)
TrustedKeys(rows) ==
  {t \in [Key -> Name \cup {None}] :
     \A k \in Key : IF \E n \in Name : <<k, n>> \in rows THEN <<k, t[k]>> \in rows
                    ELSE t[k] = None}

Init ==
  /\ files \in [File -> Body \cup {None}]
  /\ manifest \in [File -> Entry \cup {None}]
  /\ authors \in [Spelling -> [name : Name, revoked : {FALSE}] \cup {None}]
  /\ index = NoArticles
  /\ mu = None
  /\ pc = [w \in Worker |-> "idle"] /\ kind = [w \in Worker |-> "reload"]
  /\ todo = [w \in Worker |-> {}] /\ at = [w \in Worker |-> None]
  /\ keys = [w \in Worker |-> NobodyTrusted] /\ sigs = [w \in Worker |-> NothingSigned]
  /\ newNav = [w \in Worker |-> NoArticles]
  /\ stale = File /\ moved = [w \in Worker |-> {}] /\ since = [w \in Worker |-> {}]
  /\ changes = 0

----------------------------------------------------------------------------
(* Contributors, signers, editors and pulls.                               *)

Busy(w) == pc[w] # "idle"

Touch(F) ==
  /\ changes < MaxChanges
  /\ changes' = changes + 1
  /\ stale' = stale \cup F
  /\ moved' = [w \in Worker |-> IF Busy(w) THEN moved[w] \cup F ELSE {}]
  /\ UNCHANGED <<index, mu, locals>>

WriteFile(f, b) ==
  /\ files[f] # b
  /\ files' = [files EXCEPT ![f] = b]
  /\ Touch({f})
  /\ UNCHANGED <<manifest, authors, since>>

(* A signer.db is not a .md file: its change is no event for the watcher.  *)
Sign(f, e) ==
  /\ manifest[f] # e
  /\ manifest' = [manifest EXCEPT ![f] = e]
  /\ Touch({f})
  /\ UNCHANGED <<files, authors, since>>

SetAuthor(s, row) ==
  /\ authors[s] # row
  /\ authors' = [authors EXCEPT ![s] = row]
  /\ since' = [w \in Worker |-> IF Busy(w) THEN since[w] \cup ListContributors' ELSE {}]
  /\ Touch(File)
  /\ UNCHANGED <<files, manifest>>

AddContributor(s, n) == SetAuthor(s, [name |-> n, revoked |-> FALSE])

(* Only the row of exactly this spelling.                                  *)
RevokeContributor(s) ==
  /\ authors[s] # None /\ ~authors[s].revoked
  /\ SetAuthor(s, [name |-> authors[s].name, revoked |-> TRUE])

----------------------------------------------------------------------------
(* loadSecurityData and processArticle.                                    *)

ReadState(b, e, t) ==
  CASE e = None                  -> "unsigned"
    [] e # None /\ e.hash # b    -> "tampered"
    [] OTHER ->
         IF t[Lower[e.key]] = None THEN "untrusted"
         ELSE IF e.sig = Malformed THEN "malformed"
         ELSE IF e.sig = Lower[e.key] THEN "verified"
         ELSE "invalid_sig"

(* None for a file that cannot be read.                                    *)
ProcessArticle(b, e, t) ==
  IF b = None THEN None
  ELSE [body   |-> b,
        state  |-> ReadState(b, e, t),
        author |-> IF ReadState(b, e, t) = "verified" THEN t[Lower[e.key]] ELSE Unknown]

(* What cannot be read counts among what changed.                          *)
Missed(w, F) ==
  /\ moved' = [moved EXCEPT ![w] = @ \cup F]
  /\ stale' = stale \cup F

(* A database that cannot be read, or not to its end, counts as the rows   *)
(* that were read, possibly none; nobody is told.                          *)
LoadTrusted(w) ==
  /\ pc[w] = "trust"
  /\ \E rows \in SUBSET Trusted :
       /\ \E t \in TrustedKeys(rows) : keys' = [keys EXCEPT ![w] = t]
       /\ Missed(w, IF rows = Trusted THEN {} ELSE File)
  /\ pc' = [pc EXCEPT ![w] = "signatures"]
  /\ UNCHANGED <<sources, index, mu, kind, todo, at, sigs, newNav, since, changes>>

LoadSignatures(w) ==
  /\ pc[w] = "signatures"
  /\ \E F \in SUBSET File :
       /\ sigs' = [sigs EXCEPT ![w] = [f \in File |-> IF f \in F THEN manifest[f] ELSE None]]
       /\ Missed(w, File \ F)
  /\ pc' = [pc EXCEPT ![w] = "article"]
  /\ UNCHANGED <<sources, index, mu, kind, todo, at, keys, newNav, since, changes>>

----------------------------------------------------------------------------
(* Reload.                                                                 *)

Reload(w) ==
  /\ pc[w] = "idle"
  /\ mu = None
  /\ mu' = w
  /\ kind' = [kind EXCEPT ![w] = "reload"]
  /\ pc' = [pc EXCEPT ![w] = "trust"]
  /\ todo' = [todo EXCEPT ![w] = File]
  /\ moved' = [moved EXCEPT ![w] = {}]
  /\ since' = [since EXCEPT ![w] = ListContributors]
  /\ UNCHANGED <<sources, index, at, keys, sigs, newNav, stale, changes>>

PutFault(w, f, a) == index' = [index EXCEPT ![f] = a] /\ UNCHANGED newNav

(* The article goes into the new map, the present one stays as it is.      *)
Put(w, f, a) == newNav' = [newNav EXCEPT ![w][f] = a] /\ UNCHANGED index

(* WalkDir visits every file, and finds it, can read it and render it, or  *)
(* the article is left out.                                                *)
WalkArticle(w) ==
  /\ pc[w] = "article" /\ kind[w] = "reload"
  /\ \E f \in todo[w] :
       /\ todo' = [todo EXCEPT ![w] = @ \ {f}]
       /\ \/ /\ Put(w, f, ProcessArticle(files[f], sigs[w][f], keys[w]))
             /\ Missed(w, {})
          \/ /\ Missed(w, {f})
             /\ UNCHANGED <<index, newNav>>
  /\ UNCHANGED <<sources, mu, pc, kind, at, keys, sigs, since, changes>>

Return(w) ==
  /\ mu' = None
  /\ pc' = [pc EXCEPT ![w] = "idle"]
  /\ kind' = [kind EXCEPT ![w] = "reload"]
  /\ at' = [at EXCEPT ![w] = None]
  /\ keys' = [keys EXCEPT ![w] = NobodyTrusted]
  /\ sigs' = [sigs EXCEPT ![w] = NothingSigned]
  /\ newNav' = [newNav EXCEPT ![w] = NoArticles]
  /\ moved' = [moved EXCEPT ![w] = {}]
  /\ since' = [since EXCEPT ![w] = {}]

Install(w) ==
  /\ pc[w] = "article" /\ kind[w] = "reload" /\ todo[w] = {}
  /\ index' = newNav[w]
  /\ stale' = stale \cap moved[w]
  /\ Return(w)
  /\ UNCHANGED <<sources, todo, changes>>

----------------------------------------------------------------------------
(* UpdateFiles: for each path, the old article is removed, all security    *)
(* data is read again, and the file is indexed if it can be.               *)

UpdateFiles(w, F) ==
  /\ pc[w] = "idle"
  /\ mu = None
  /\ mu' = w
  /\ kind' = [kind EXCEPT ![w] = "update"]
  /\ pc' = [pc EXCEPT ![w] = "path"]
  /\ todo' = [todo EXCEPT ![w] = F]
  /\ UNCHANGED <<sources, index, at, keys, sigs, newNav, history, changes>>

NextStepFault(w) == IF keys[w] = NobodyTrusted THEN "trust" ELSE "article"

NextStep(w) == "trust"

RemoveArticle(w) ==
  /\ pc[w] = "path"
  /\ \E f \in todo[w] :
       /\ todo' = [todo EXCEPT ![w] = @ \ {f}]
       /\ at' = [at EXCEPT ![w] = f]
       /\ index' = [index EXCEPT ![f] = None]
       /\ stale' = stale \cup {f}
  /\ moved' = [moved EXCEPT ![w] = {}]
  /\ since' = [since EXCEPT ![w] = ListContributors]
  /\ pc' = [pc EXCEPT ![w] = NextStep(w)]
  /\ UNCHANGED <<sources, mu, kind, keys, sigs, newNav, changes>>

IndexArticle(w) ==
  /\ pc[w] = "article" /\ kind[w] = "update"
  /\ LET f == at[w] IN
       \/ /\ index' = [index EXCEPT ![f] = ProcessArticle(files[f], sigs[w][f], keys[w])]
          /\ stale' = IF f \in moved[w] THEN stale ELSE stale \ {f}
       \/ UNCHANGED <<index, stale>>
  /\ pc' = [pc EXCEPT ![w] = "path"]
  /\ UNCHANGED <<sources, mu, kind, todo, at, keys, sigs, newNav, moved, since, changes>>

EndUpdate(w) ==
  /\ pc[w] = "path" /\ todo[w] = {}
  /\ Return(w)
  /\ UNCHANGED <<sources, index, todo, stale, changes>>

(* A restart: nothing is indexed until somebody reloads.                   *)
Crash ==
  /\ index' = NoArticles
  /\ mu' = None
  /\ pc' = [w \in Worker |-> "idle"]
  /\ kind' = [w \in Worker |-> "reload"]
  /\ todo' = [w \in Worker |-> {}]
  /\ at' = [w \in Worker |-> None]
  /\ keys' = [w \in Worker |-> NobodyTrusted]
  /\ sigs' = [w \in Worker |-> NothingSigned]
  /\ newNav' = [w \in Worker |-> NoArticles]
  /\ stale' = File
  /\ moved' = [w \in Worker |-> {}]
  /\ since' = [w \in Worker |-> {}]
  /\ UNCHANGED <<sources, changes>>

Next ==
  \/ \E f \in File, b \in Body \cup {None} : WriteFile(f, b)
  \/ \E f \in File, e \in Entry \cup {None} : Sign(f, e)
  \/ \E s \in Spelling, n \in Name : AddContributor(s, n)
  \/ \E s \in Spelling : RevokeContributor(s)
  \/ \E w \in Worker :
       \/ Reload(w) \/ WalkArticle(w) \/ Install(w)
       \/ RemoveArticle(w) \/ IndexArticle(w) \/ EndUpdate(w)
       \/ LoadTrusted(w) \/ LoadSignatures(w)
  \/ \E w \in Worker, F \in SUBSET File : UpdateFiles(w, F)
  \/ Crash

Spec == Init /\ [][Next]_vars

----------------------------------------------------------------------------
TypeOK ==
  /\ files \in [File -> Body \cup {None}]
  /\ manifest \in [File -> Entry \cup {None}]
  /\ authors \in [Spelling -> Row \cup {None}]
  /\ index \in [File -> Article \cup {None}]
  /\ mu \in Worker \cup {None}
  /\ pc \in [Worker -> Step]
  /\ kind \in [Worker -> {"reload", "update"}]
  /\ todo \in [Worker -> SUBSET File]
  /\ at \in [Worker -> File \cup {None}]
  /\ keys \in [Worker -> [Key -> Name \cup {None}]]
  /\ sigs \in [Worker -> [File -> Entry \cup {None}]]
  /\ newNav \in [Worker -> [File -> Article \cup {None}]]
  /\ stale \subseteq File
  /\ moved \in [Worker -> SUBSET File]
  /\ since \in [Worker -> SUBSET (Spelling \X Name)]
  /\ changes \in 0 .. MaxChanges

(* A verdict is wrong for what is on disk and in the registry now only if  *)
(* the file, its signature or a contributor changed, or could not be read, *)
(* since the article was last indexed: no reload puts back an older verdict*)
(* than an update's.  Reload, UpdateFiles.                                 *)
VerdictsCurrent ==
  \A f \in File \ stale :
    \E t \in TrustedKeys(Trusted) : index[f] = ProcessArticle(files[f], manifest[f], t)

(* An article gets a contributor's badge only if the signature is by a key *)
(* that listContributors showed as that contributor's, in some spelling,   *)
(* at some moment since the reload began, or since the update came to this *)
(* path: what an earlier path of the same update was judged by does not    *)
(* count.  loadSecurityData in Reload and in the loop of UpdateFiles.      *)
JudgedInTheCall ==
  [][\A f \in File :
       LET a == index'[f] IN
       a # index[f] /\ a # None /\ a.state = "verified" =>
         /\ mu # None
         /\ \E s \in Spelling : /\ Lower[s] = Lower[sigs[mu][f].key]
                               /\ <<s, a.author>> \in since[mu]]_vars

(* Badges come and go with their articles, in a dictionary: no update puts *)
(* one under a path that a reload has judged already and installs later.   *)
(* Reload, UpdateFiles.                                                    *)
Judged == IF mu = None THEN {} ELSE IF kind[mu] = "reload" THEN File \ todo[mu] ELSE {}
Dictionary == INSTANCE IndexMap WITH
  Value  <- Article,
  Absent <- None,
  newNav <- [f \in Judged |-> newNav[mu][f]]
IndexIsMap == Dictionary!Spec
=============================================================================
