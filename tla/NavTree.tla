------------------------------ MODULE NavTree ------------------------------
(***************************************************************************)
(* Store.nav, the tree of sections that is served, and the two ways it is  *)
(* changed: Reload builds a new one article by article while it walks the  *)
(* data directory, UpdateFiles takes single articles out of the present    *)
(* one and puts them back.  Both hold Store.mu, so a reload and an update  *)
(* never overlap; readers navigate the tree.                               *)
(*                                                                         *)
(* Articles directly in the data directory go to a section of the name     *)
(* "root", and so do those of a directory that happens to be called root.  *)
(* The order of a section's articles is left out.                          *)
(***************************************************************************)
EXTENDS Naturals

CONSTANTS
  File,   \* the articles
  Dir,    \* the directories they can lie in, each with its section
  Root,   \* the section "root"
  NamedRoot, \* the sections of that name, at whatever depth
  In,     \* File -> Dir: the section of an article
  Above,  \* Dir -> SUBSET Dir: the sections passed on the way to a section
  Body,   \* what an article can be rendered to
  None

Path(d) == Above[d] \cup {d}

ASSUME TreeAssumption ==
  /\ Root \in NamedRoot /\ NamedRoot \subseteq Dir
  /\ In \in [File -> Dir]
  /\ Above \in [Dir -> SUBSET Dir]
  /\ \A d \in Dir : \A e \in Above[d] : Above[e] \subseteq Above[d]
  /\ \A d \in Dir : \A s, t \in Path(d) : Above[s] = {} /\ Above[t] = {} => s = t
  /\ None \notin Body
  /\ \A S \in SUBSET File : S # None

Article == [file : File, body : Body]

(* A map of sections: which ones it has, and how often it lists an article *)
(* (a slice of articles may hold one twice).                               *)
Nav == [sections : SUBSET Dir, listed : [Article -> Nat]]
EmptyNav == [sections |-> {}, listed |-> [a \in Article |-> 0]]

VARIABLES
  nav,
  newNav,    \* the map under construction
  todo,      \* files the walk has not reached yet, None while no reload runs
  rendered,  \* history: for each file, the outcome of the last attempt to index it
  walked,    \* history: the same for the walk under way
  since      \* history: files that have been in the index since it was last replaced

history == <<rendered, walked, since>>
vars == <<nav, newNav, todo, history>>

Init ==
  /\ nav = EmptyNav
  /\ newNav = EmptyNav
  /\ todo = None
  /\ rendered = [f \in File |-> None]
  /\ walked = [f \in File |-> None]
  /\ since = {}

----------------------------------------------------------------------------
(* Navigation.                                                             *)

HasSection(n, d) == Path(d) \subseteq n.sections

Listed(n, f) == {a \in Article : a.file = f /\ n.listed[a] > 0}

Get(n, f) == IF HasSection(n, In[f]) THEN {a.body : a \in Listed(n, f)} ELSE {}

(* BuildSearchIndex: how often it names an article.  It does not go down   *)
(* from a section of the name root.                                        *)
Searchable(d) == Above[d] \cap NamedRoot = {}
Hits(n, a) ==
  IF HasSection(n, In[a.file]) /\ Searchable(In[a.file]) THEN n.listed[a] ELSE 0

----------------------------------------------------------------------------
(* insertIntoMap: make the missing sections, append the article.           *)
InsertIntoMap(n, f, b) ==
  [sections |-> n.sections \cup Path(In[f]),
   listed   |-> [n.listed EXCEPT ![[file |-> f, body |-> b]] = @ + 1]]

(* A top-level section goes when it is left without articles and without   *)
(* sections of its own.  (A definition whose name ends in Fault is a       *)
(* plausible mistake in the one that follows it; nothing uses it.)         *)
DisposableFault(n, d) ==
  /\ Above[d] = {}
  /\ \A a \in Article : In[a.file] = d => n.listed[a] = 0

Disposable(n, d) ==
  /\ Above[d] = {}
  /\ \A a \in Article : In[a.file] = d => n.listed[a] = 0
  /\ \A e \in n.sections : d \notin Above[e]

DropFault(n, d) == n

Drop(n, d) ==
  IF Disposable(n, d)
  THEN [sections |-> {e \in n.sections : d \notin Path(e)},
        listed   |-> [a \in Article |-> IF d \in Path(In[a.file]) THEN 0 ELSE n.listed[a]]]
  ELSE n

WithoutArticleFault(n, f) == {n}

(* One article with the file's path is cut out of its section's slice.     *)
WithoutArticle(n, f) ==
  IF Listed(n, f) = {} THEN {n}
  ELSE {[n EXCEPT !.listed[a] = @ - 1] : a \in Listed(n, f)}

RemoveFromMap(n, f) ==
  IF HasSection(n, In[f]) THEN {Drop(m, In[f]) : m \in WithoutArticle(n, f)} ELSE {n}

----------------------------------------------------------------------------
(* What processArticle makes of a file: a body, or None for a file that    *)
(* cannot be read or rendered.                                             *)
Outcome == Body \cup {None}

Index(n, f, b) == IF b = None THEN n ELSE InsertIntoMap(n, f, b)

UpdateFile(f, b) ==
  /\ todo = None
  /\ \E n \in RemoveFromMap(nav, f) : nav' = Index(n, f, b)
  /\ rendered' = [rendered EXCEPT ![f] = b]
  /\ since' = IF b = None THEN since ELSE since \cup {f}
  /\ UNCHANGED <<newNav, todo, walked>>

Reload ==
  /\ todo = None
  /\ todo' = File
  /\ newNav' = EmptyNav
  /\ walked' = [f \in File |-> None]
  /\ UNCHANGED <<nav, rendered, since>>

WalkFile(f, b) ==
  /\ todo # None
  /\ f \in todo
  /\ newNav' = Index(newNav, f, b)
  /\ walked' = [walked EXCEPT ![f] = b]
  /\ todo' = todo \ {f}
  /\ UNCHANGED <<nav, rendered, since>>

Install ==
  /\ todo = {}
  /\ nav' = newNav
  /\ newNav' = EmptyNav
  /\ todo' = None
  /\ rendered' = walked
  /\ walked' = [f \in File |-> None]
  /\ since' = {f \in File : walked[f] # None}

Next ==
  \/ \E f \in File, b \in Outcome : UpdateFile(f, b) \/ WalkFile(f, b)
  \/ Reload
  \/ Install

Spec == Init /\ [][Next]_vars

----------------------------------------------------------------------------
TypeOK ==
  /\ nav \in Nav
  /\ newNav \in Nav
  /\ todo \in (SUBSET File) \cup {None}
  /\ rendered \in [File -> Outcome]
  /\ walked \in [File -> Outcome]
  /\ since \subseteq File

(* The tree is a map from paths to articles: whatever was inserted and     *)
(* removed in whatever order, Get finds for a path what the file was last  *)
(* rendered to, and nothing when it is gone.  Get, UpdateFiles, Reload.    *)
TreeIsMap ==
  \A f \in File : Get(nav, f) = {rendered[f]} \ {None}

(* The search index names every article that Get finds, exactly once, but  *)
(* for those under a directory called root.  BuildSearchIndex.             *)
SearchIsFull ==
  \A a \in Article : Searchable(In[a.file]) =>
    Hits(nav, a) = IF a.body \in Get(nav, a.file) THEN 1 ELSE 0

NoEmptyTop(n) ==
  \A d \in n.sections : Above[d] = {} =>
    \/ \E a \in Article : In[a.file] = d /\ n.listed[a] > 0
    \/ \E e \in n.sections : d \in Above[e]

(* A section without any article below it is a leftover of one that was    *)
(* removed since the last reload, and only below the top level is it left: *)
(* a top-level section has articles or sections.  removeFromMap, which     *)
(* never takes a lower section away.                                       *)
EmptySectionsAreLeftovers ==
  /\ \A d \in nav.sections : \E f \in since : d \in Path(In[f])
  /\ NoEmptyTop(nav)

(* What Get finds in the tree is a dictionary: whatever sections come and  *)
(* go, replacing an article changes what is found under no other path, and *)
(* the map a reload installs shows what it has read.  insertIntoMap,       *)
(* removeFromMap, Reload, UpdateFiles.                                     *)
Dictionary == INSTANCE IndexMap WITH
  Value  <- {{b} : b \in Body},
  Absent <- {},
  index  <- [f \in File |-> Get(nav, f)],
  newNav <- [f \in (IF todo = None THEN {} ELSE File \ todo) |-> Get(newNav, f)]
IndexIsMap == Dictionary!Spec
=============================================================================
