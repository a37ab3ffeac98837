------------------------------- MODULE Pages -------------------------------
(***************************************************************************)
(* What readers get from the tree of NavTree: which article the path of a  *)
(* request opens, and which paths the search index and the list of recent  *)
(* files hand out.  The handlers read the tree and change nothing.         *)
(*                                                                         *)
(* A folder is opened by its article RED_KNOWLEDGE, and the list of recent *)
(* files names that article by the folder.  A folder may have the name of  *)
(* an article beside it: a/ and a.md.                                      *)
(*                                                                         *)
(* Which of the candidates are the most recent is left out.  So are the    *)
(* page of "/", which is always there, and the neighbours of an article,   *)
(* as NavTree leaves out the order of a section.                           *)
(***************************************************************************)
EXTENDS NavTree

CONSTANTS
  Url,
  NoPath,    \* the empty path
  UrlOf,     \* File -> Url: path of the article
  FolderUrl, \* Dir -> Url
  WithoutMd, \* Url -> Url: less a final .md
  Default,   \* Url -> Url: with /RED_KNOWLEDGE, None if no article can have that path
  Hidden     \* paths with a segment that begins with a dot

ASSUME PagesAssumption ==
  /\ UrlOf \in [File -> Url \ {NoPath}]
  /\ \A f, g \in File : UrlOf[f] = UrlOf[g] => f = g
  /\ FolderUrl \in [Dir -> Url \ {NoPath}]
  /\ \A d, e \in Dir : FolderUrl[d] = FolderUrl[e] => d = e
  /\ WithoutMd \in [Url -> Url]
  /\ Default \in [Url -> Url \cup {None}]
  /\ \A u, v \in Url : Default[u] = Default[v] /\ Default[u] # None => u = v
  /\ None \notin Url
  /\ Hidden \subseteq Url
  /\ \A u \in Url : Default[u] # None => (Default[u] \in Hidden <=> u \in Hidden)

----------------------------------------------------------------------------
(* Requests.  The answer is the set of articles, or of sections, shown: at *)
(* most one, and none for "not found".                                     *)

Found(n, u) == {f \in File : UrlOf[f] = u /\ Get(n, f) # {}}

Direct(n, u) == IF Found(n, u) # {} THEN Found(n, u) ELSE Found(n, WithoutMd[u])

Blocked(u) == u = NoPath \/ u \in Hidden

(* (A definition whose name ends in Fault is a plausible mistake in the    *)
(* one that follows it; nothing uses it.)                                  *)
OpenedFault(n, u) ==
  IF Found(n, Default[u]) # {} THEN Found(n, Default[u]) ELSE Direct(n, u)

Opened(n, u) ==
  IF Direct(n, u) # {} THEN Direct(n, u) ELSE Found(n, Default[u])

ContentAPIFault(n, u) == IF Blocked(u) THEN {} ELSE Direct(n, u)

ContentAPI(n, u) == IF Blocked(u) THEN {} ELSE Opened(n, u)

Hub(n, u) == {d \in Dir : FolderUrl[d] = u /\ HasSection(n, d)}

(* The pages for browsers without the built front end.                     *)
Serve(n, u) ==
  IF Blocked(u) THEN {} ELSE IF Direct(n, u) # {} THEN Direct(n, u) ELSE Hub(n, u)

----------------------------------------------------------------------------
(* Lists.                                                                  *)

FolderHits(n) == {d \in Dir \ NamedRoot : HasSection(n, d) /\ Searchable(d)}

(* How often an article is a candidate for the list of recent files, which *)
(* goes down from every section.                                           *)
Recent(n, a) ==
  IF HasSection(n, In[a.file]) /\ UrlOf[a.file] \notin Hidden THEN n.listed[a] ELSE 0

ShownAt(f) ==
  IF \E u \in Url : Default[u] = UrlOf[f]
  THEN CHOOSE u \in Url : Default[u] = UrlOf[f]
  ELSE UrlOf[f]

----------------------------------------------------------------------------
(* The paths that should open an article: its own, and that with .md, as   *)
(* links between files have it, unless that is another article's.          *)
Links(n, f) ==
  {u \in Url \ {NoPath} : \/ u = UrlOf[f]
                          \/ WithoutMd[u] = UrlOf[f] /\ Found(n, u) = {}}

(* What the search index names can be opened: an article as itself, by all *)
(* its links, and a folder as its page, or as the article beside it that   *)
(* has its path.  But not if a segment of the path begins with a dot: the  *)
(* tree has these paths, and requests for them are refused.                *)
(* BuildSearchIndex against contentAPI and serve.                          *)
SearchOpens ==
  /\ \A a \in Article : Hits(nav, a) > 0 =>
       \A u \in Links(nav, a.file) \ Hidden :
         ContentAPI(nav, u) = {a.file} /\ Serve(nav, u) = {a.file}
  /\ \A d \in FolderHits(nav) : FolderUrl[d] \notin Hidden =>
       Serve(nav, FolderUrl[d]) \in {{d}} \cup {{f} : f \in File}

(* The list of recent files names an article once, by a path that opens    *)
(* it, unless another article has the path of its folder, or it is the     *)
(* RED_KNOWLEDGE of the data directory, whose folder has no path.          *)
(* recentFiles against contentAPI.                                         *)
RecentOpens ==
  \A a \in Article : Recent(nav, a) > 0 =>
    /\ Recent(nav, a) = 1
    /\ LET u == ShownAt(a.file) IN
         \/ u = NoPath
         \/ Direct(nav, u) \ {a.file} # {}
         \/ ContentAPI(nav, u) = {a.file}
=============================================================================
