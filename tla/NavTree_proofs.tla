--------------------------- MODULE NavTree_proofs ---------------------------
(***************************************************************************)
(* The tree of sections is a map from paths to articles, for directories   *)
(* of any depth and any number of files, and what the lists of paths name  *)
(* can be opened.                                                          *)
(***************************************************************************)
EXTENDS Pages, TLAPS

USE TreeAssumption

(* A section can be reached from the top.                                  *)
Reachable(n) == \A d \in n.sections : Above[d] \subseteq n.sections

(* The map n shows the outcomes r, and nothing else.                       *)
Shows(n, r) ==
  /\ Reachable(n)
  /\ \A f \in File : r[f] # None => In[f] \in n.sections
  /\ \A a \in Article : n.listed[a] = IF r[a.file] = a.body THEN 1 ELSE 0

Below(n, S) == \A d \in n.sections : \E f \in S : d \in Path(In[f])

Indexed(r) == {f \in File : r[f] # None}

IndInv ==
  /\ TypeOK
  /\ Shows(nav, rendered)
  /\ NoEmptyTop(nav)
  /\ Below(nav, since)
  /\ Indexed(rendered) \subseteq since
  /\ Shows(newNav, walked)
  /\ NoEmptyTop(newNav)
  /\ Below(newNav, Indexed(walked))
  /\ todo # None => \A f \in todo : walked[f] = None

----------------------------------------------------------------------------
(* The operations on a map.                                                *)

Outcomes == [File -> Outcome]

LEMMA NoneIsNoArticle ==
  ASSUME NEW n \in Nav, NEW r \in Outcomes, Shows(n, r), NEW f \in File,
         ~HasSection(n, In[f]) \/ Listed(n, f) = {}
  PROVE  r[f] = None
<1> SUFFICES ASSUME r[f] # None PROVE FALSE
  OBVIOUS
<1>1. HasSection(n, In[f])
  BY DEF Shows, Reachable, HasSection, Path
<1>2. r[f] \in Body
  BY DEF Outcomes, Outcome
<1> DEFINE a == [file |-> f, body |-> r[f]]
<1>3. a \in Article /\ a.file = f /\ a.body = r[f]
  BY <1>2 DEF Article
<1>4. n.listed[a] = 1
  BY <1>3 DEF Shows
<1>5. a \in Listed(n, f)
  BY <1>3, <1>4 DEF Listed
<1> QED
  BY <1>1, <1>5

(* Cutting an article out of its slice.                                    *)
LEMMA WithoutShows ==
  ASSUME NEW n \in Nav, NEW r \in Outcomes, Shows(n, r), NEW f \in File,
         NEW m \in WithoutArticle(n, f)
  PROVE  /\ m \in Nav
         /\ m.sections = n.sections
         /\ \A a \in Article : a.file # f => m.listed[a] = n.listed[a]
         /\ Shows(m, [r EXCEPT ![f] = None])
<1> DEFINE q == [r EXCEPT ![f] = None]
<1>1. CASE Listed(n, f) = {}
  <2>1. m = n
    BY <1>1 DEF WithoutArticle
  <2>2. q = r
    BY <1>1, NoneIsNoArticle DEF Outcomes
  <2> QED
    BY <2>1, <2>2
<1>2. CASE Listed(n, f) # {}
  <2>1. PICK a \in Listed(n, f) : m = [n EXCEPT !.listed[a] = @ - 1]
    BY <1>2 DEF WithoutArticle
  <2>2. a \in Article /\ a.file = f /\ n.listed[a] > 0
    BY <2>1 DEF Listed
  <2>3. r[f] = a.body /\ n.listed[a] = 1
    BY <2>2 DEF Shows
  <2>4. /\ m.sections = n.sections
        /\ m.listed = [n.listed EXCEPT ![a] = 0]
    BY <2>1, <2>2, <2>3 DEF Nav
  <2>5. m \in Nav
    BY <2>1, <2>2, <2>3 DEF Nav
  <2>6. \A b \in Article : b # a => m.listed[b] = n.listed[b]
    BY <2>4 DEF Nav
  <2>7. m.listed[a] = 0
    BY <2>2, <2>4 DEF Nav
  <2>8. ASSUME NEW b \in Article PROVE m.listed[b] = IF q[b.file] = b.body THEN 1 ELSE 0
    <3>1. b.file \in File /\ b.body \in Body /\ b.body # None
      BY DEF Article
    <3>2. CASE b.file # f
      BY <2>2, <2>6, <3>1, <3>2 DEF Shows, Outcomes
    <3>3. CASE b.file = f /\ b # a
      <4>1. b.body # a.body
        BY <2>2, <3>3 DEF Article
      <4>2. n.listed[b] = 0
        BY <2>3, <3>3, <4>1 DEF Shows
      <4> QED
        BY <2>6, <3>1, <3>3, <4>2 DEF Outcomes
    <3>4. CASE b = a
      BY <2>2, <2>7, <3>1, <3>4 DEF Outcomes
    <3> QED
      BY <3>2, <3>3, <3>4
  <2>9. \A g \in File : q[g] # None => r[g] # None
    BY DEF Outcomes
  <2> QED
    BY <2>2, <2>4, <2>5, <2>6, <2>8, <2>9 DEF Shows, Reachable
<1> QED
  BY <1>1, <1>2

(* Taking away a top-level section that nothing is left in.                *)
LEMMA DropShows ==
  ASSUME NEW n \in Nav, NEW r \in Outcomes, Shows(n, r), NEW d \in Dir
  PROVE  Drop(n, d) \in Nav /\ Shows(Drop(n, d), r)
<1>1. CASE ~Disposable(n, d)
  BY <1>1 DEF Drop
<1>2. CASE Disposable(n, d)
  <2> DEFINE m == Drop(n, d)
  <2>1. /\ m.sections = {e \in n.sections : d \notin Path(e)}
        /\ m.listed = [a \in Article |-> IF d \in Path(In[a.file]) THEN 0 ELSE n.listed[a]]
    BY <1>2 DEF Drop
  <2>2. m \in Nav
    BY <1>2 DEF Drop, Nav
  <2>3. ASSUME NEW f \in File, d \in Path(In[f]) PROVE r[f] = None
    <3> SUFFICES ASSUME r[f] # None PROVE FALSE
      OBVIOUS
    <3>1. In[f] \in n.sections
      BY DEF Shows
    <3>2. d = In[f]
      BY <1>2, <2>3, <3>1 DEF Disposable, Path
    <3>3. r[f] \in Body
      BY DEF Outcomes, Outcome
    <3> DEFINE a == [file |-> f, body |-> r[f]]
    <3>4. a \in Article /\ a.file = f /\ a.body = r[f]
      BY <3>3 DEF Article
    <3>5. n.listed[a] = 1
      BY <3>4 DEF Shows
    <3> QED
      BY <1>2, <3>2, <3>4, <3>5 DEF Disposable
  <2>4. Reachable(m)
    <3> SUFFICES ASSUME NEW e \in m.sections, NEW s \in Above[e] PROVE s \in m.sections
      BY DEF Reachable
    <3>1. e \in n.sections /\ d \notin Path(e) /\ e \in Dir
      BY <2>1 DEF Nav
    <3>2. s \in n.sections
      BY <3>1 DEF Shows, Reachable
    <3>3. d \notin Path(s)
      BY <3>1 DEF Path
    <3> QED
      BY <2>1, <3>2, <3>3
  <2>5. \A f \in File : r[f] # None => In[f] \in m.sections
    BY <2>1, <2>3 DEF Shows
  <2>6. ASSUME NEW a \in Article PROVE m.listed[a] = IF r[a.file] = a.body THEN 1 ELSE 0
    <3>1. a.file \in File /\ a.body \in Body /\ a.body # None
      BY DEF Article
    <3> QED
      BY <2>1, <2>3, <3>1 DEF Shows
  <2> QED
    BY <2>2, <2>4, <2>5, <2>6 DEF Shows
<1> QED
  BY <1>1, <1>2

LEMMA RemoveShows ==
  ASSUME NEW n \in Nav, NEW r \in Outcomes, Shows(n, r), NEW f \in File,
         NEW m \in RemoveFromMap(n, f)
  PROVE  /\ m \in Nav
         /\ Shows(m, [r EXCEPT ![f] = None])
         /\ m.sections \subseteq n.sections
<1> DEFINE q == [r EXCEPT ![f] = None]
<1>0. q \in Outcomes
  BY DEF Outcomes, Outcome
<1>1. CASE ~HasSection(n, In[f])
  <2>1. m = n
    BY <1>1 DEF RemoveFromMap
  <2>2. q = r
    BY <1>1, NoneIsNoArticle DEF Outcomes
  <2> QED
    BY <2>1, <2>2
<1>2. CASE HasSection(n, In[f])
  <2>1. PICK p \in WithoutArticle(n, f) : m = Drop(p, In[f])
    BY <1>2 DEF RemoveFromMap
  <2>2. p \in Nav /\ Shows(p, q) /\ p.sections = n.sections
    BY WithoutShows
  <2>3. m \in Nav /\ Shows(m, q)
    BY <1>0, <2>1, <2>2, DropShows
  <2>4. m.sections \subseteq p.sections
    BY <2>1 DEF Drop
  <2> QED
    BY <2>2, <2>3, <2>4
<1> QED
  BY <1>1, <1>2

LEMMA InsertShows ==
  ASSUME NEW n \in Nav, NEW r \in Outcomes, Shows(n, r), NEW f \in File, r[f] = None,
         NEW b \in Body
  PROVE  /\ InsertIntoMap(n, f, b) \in Nav
         /\ Shows(InsertIntoMap(n, f, b), [r EXCEPT ![f] = b])
<1> DEFINE m == InsertIntoMap(n, f, b)
           q == [r EXCEPT ![f] = b]
           a == [file |-> f, body |-> b]
<1>1. a \in Article /\ a.file = f /\ a.body = b
  BY DEF Article
<1>2. n.listed[a] = 0
  BY <1>1 DEF Shows
<1>3. /\ m.sections = n.sections \cup Path(In[f])
      /\ m.listed = [n.listed EXCEPT ![a] = 1]
  BY <1>1, <1>2 DEF InsertIntoMap, Nav
<1>4. Path(In[f]) \subseteq Dir
  BY DEF Path
<1>5. m \in Nav
  BY <1>1, <1>2, <1>4 DEF InsertIntoMap, Nav
<1>6. Reachable(m)
  BY <1>3 DEF Shows, Reachable, Path
<1>7. \A g \in File : q[g] # None => In[g] \in m.sections
  BY <1>3 DEF Shows, Path, Outcomes
<1>8. ASSUME NEW c \in Article PROVE m.listed[c] = IF q[c.file] = c.body THEN 1 ELSE 0
  <2>1. c.file \in File /\ c.body \in Body /\ c.body # None
    BY DEF Article
  <2>2. CASE c = a
    BY <1>1, <1>3, <2>1, <2>2 DEF Nav, Outcomes
  <2>3. CASE c # a
    <3>1. m.listed[c] = n.listed[c]
      BY <1>3, <2>3 DEF Nav
    <3>2. CASE c.file = f
      <4>1. c.body # b
        BY <2>3, <3>2 DEF Article
      <4> QED
        BY <2>1, <3>1, <3>2, <4>1 DEF Shows, Outcomes
    <3>3. CASE c.file # f
      BY <2>1, <3>1, <3>3 DEF Shows, Outcomes
    <3> QED
      BY <3>2, <3>3
  <2> QED
    BY <2>2, <2>3
<1> QED
  BY <1>5, <1>6, <1>7, <1>8 DEF Shows

LEMMA IndexShows ==
  ASSUME NEW n \in Nav, NEW r \in Outcomes, Shows(n, r), NEW f \in File, r[f] = None,
         NEW b \in Outcome
  PROVE  /\ Index(n, f, b) \in Nav
         /\ Shows(Index(n, f, b), [r EXCEPT ![f] = b])
<1>1. CASE b = None
  BY <1>1 DEF Index, Outcomes
<1>2. CASE b # None
  BY <1>2, InsertShows DEF Index, Outcome
<1> QED
  BY <1>1, <1>2

----------------------------------------------------------------------------
(* Which sections a map has.                                               *)

LEMMA RemoveTop ==
  ASSUME NEW n \in Nav, NEW r \in Outcomes, Shows(n, r), NoEmptyTop(n), NEW f \in File,
         NEW m \in RemoveFromMap(n, f)
  PROVE  NoEmptyTop(m)
<1>1. CASE ~HasSection(n, In[f])
  BY <1>1 DEF RemoveFromMap
<1>2. CASE HasSection(n, In[f])
  <2>1. PICK p \in WithoutArticle(n, f) : m = Drop(p, In[f])
    BY <1>2 DEF RemoveFromMap
  <2>2. /\ p \in Nav
        /\ p.sections = n.sections
        /\ \A a \in Article : a.file # f => p.listed[a] = n.listed[a]
    <3>1. /\ p \in Nav
          /\ p.sections = n.sections
          /\ \A a \in Article : a.file # f => p.listed[a] = n.listed[a]
          /\ Shows(p, [r EXCEPT ![f] = None])
      BY WithoutShows
    <3> QED
      BY <3>1
  <2> SUFFICES ASSUME NEW d \in m.sections, Above[d] = {}
               PROVE  \/ \E a \in Article : In[a.file] = d /\ m.listed[a] > 0
                      \/ \E e \in m.sections : d \in Above[e]
    BY DEF NoEmptyTop
  <2>3. d \in p.sections /\ d \in Dir
    BY <2>1, <2>2 DEF Drop, Nav
  <2>4. CASE ~Disposable(p, In[f])
    <3>1. m = p
      BY <2>1, <2>4 DEF Drop
    <3>2. CASE d = In[f]
      <4>1. \A a \in Article : p.listed[a] # 0 => p.listed[a] > 0
        BY <2>2 DEF Nav
      <4> QED
        BY <2>4, <3>1, <3>2, <4>1 DEF Disposable
    <3>3. CASE d # In[f]
      <4>1. \A a \in Article : In[a.file] = d => m.listed[a] = n.listed[a]
        BY <2>2, <3>1, <3>3
      <4> QED
        BY <2>2, <2>3, <3>1, <4>1 DEF NoEmptyTop
    <3> QED
      BY <3>2, <3>3
  <2>5. CASE Disposable(p, In[f])
    <3>1. /\ m.sections = {e \in p.sections : In[f] \notin Path(e)}
          /\ m.listed = [a \in Article |-> IF In[f] \in Path(In[a.file]) THEN 0 ELSE p.listed[a]]
      BY <2>1, <2>5 DEF Drop
    <3>2. d # In[f] /\ In[f] \notin Path(d)
      BY <3>1 DEF Path
    <3>3. CASE \E a \in Article : In[a.file] = d /\ n.listed[a] > 0
      <4>1. PICK a \in Article : In[a.file] = d /\ n.listed[a] > 0
        BY <3>3
      <4>2. m.listed[a] = n.listed[a]
        BY <2>2, <3>1, <3>2, <4>1
      <4> QED
        BY <4>1, <4>2
    <3>4. CASE \E e \in n.sections : d \in Above[e]
      <4>1. PICK e \in n.sections : d \in Above[e]
        BY <3>4
      <4>2. e \in Dir /\ Above[In[f]] = {}
        BY <2>5, <4>1 DEF Nav, Disposable
      <4>3. In[f] \notin Path(e)
        BY <3>2, <4>1, <4>2 DEF Path
      <4> QED
        BY <2>2, <3>1, <4>1, <4>3
    <3> QED
      BY <2>2, <2>3, <3>3, <3>4 DEF NoEmptyTop
  <2> QED
    BY <2>4, <2>5
<1> QED
  BY <1>1, <1>2

LEMMA IndexTop ==
  ASSUME NEW n \in Nav, NoEmptyTop(n), NEW f \in File, NEW b \in Outcome
  PROVE  NoEmptyTop(Index(n, f, b))
<1>1. CASE b = None
  BY <1>1 DEF Index
<1>2. CASE b # None
  <2> DEFINE a == [file |-> f, body |-> b]
             m == Index(n, f, b)
  <2>1. a \in Article /\ a.file = f
    BY <1>2 DEF Article, Outcome
  <2>2. /\ m.sections = n.sections \cup Path(In[f])
        /\ m.listed = [n.listed EXCEPT ![a] = @ + 1]
    BY <1>2 DEF Index, InsertIntoMap
  <2>3. /\ m.listed[a] > 0
        /\ \A c \in Article : n.listed[c] > 0 => m.listed[c] > 0
    BY <2>1, <2>2 DEF Nav
  <2> SUFFICES ASSUME NEW d \in m.sections, Above[d] = {}
               PROVE  \/ \E c \in Article : In[c.file] = d /\ m.listed[c] > 0
                      \/ \E e \in m.sections : d \in Above[e]
    BY DEF NoEmptyTop
  <2>4. CASE d \in n.sections
    BY <2>2, <2>3, <2>4 DEF NoEmptyTop
  <2>5. CASE d = In[f]
    BY <2>1, <2>3, <2>5
  <2>6. CASE d \in Above[In[f]]
    BY <2>2, <2>6 DEF Path
  <2> QED
    BY <2>2, <2>4, <2>5, <2>6 DEF Path
<1> QED
  BY <1>1, <1>2

LEMMA IndexBelow ==
  ASSUME NEW n \in Nav, NEW S, Below(n, S), NEW f \in File, NEW b \in Outcome,
         NEW T, S \subseteq T, b # None => f \in T
  PROVE  Below(Index(n, f, b), T)
BY DEF Below, Index, InsertIntoMap

----------------------------------------------------------------------------
LEMMA EmptyShows ==
  ASSUME NEW r \in Outcomes, \A f \in File : r[f] = None
  PROVE  /\ EmptyNav \in Nav
         /\ Shows(EmptyNav, r)
         /\ NoEmptyTop(EmptyNav)
         /\ \A S : Below(EmptyNav, S)
BY DEF EmptyNav, Nav, Shows, Reachable, NoEmptyTop, Below, Article

LEMMA InitInv == Init => IndInv
<1> SUFFICES ASSUME Init PROVE IndInv
  OBVIOUS
<1>1. rendered \in Outcomes /\ walked \in Outcomes
  BY DEF Init, Outcomes, Outcome
<1>2. \A f \in File : rendered[f] = None /\ walked[f] = None
  BY DEF Init
<1>3. nav = EmptyNav /\ newNav = EmptyNav /\ todo = None /\ since = {}
  BY DEF Init
<1> QED
  BY <1>1, <1>2, <1>3, EmptyShows DEF IndInv, TypeOK, Outcomes, Indexed

LEMMA UpdateStep ==
  ASSUME IndInv, NEW f \in File, NEW b \in Outcome, UpdateFile(f, b)
  PROVE  IndInv'
<1>1. PICK m \in RemoveFromMap(nav, f) : nav' = Index(m, f, b)
  BY DEF UpdateFile
<1> DEFINE q == [rendered EXCEPT ![f] = None]
<1>2. rendered \in Outcomes /\ q \in Outcomes /\ q[f] = None
  BY DEF IndInv, TypeOK, Outcomes, Outcome
<1>3. m \in Nav /\ Shows(m, q) /\ NoEmptyTop(m) /\ m.sections \subseteq nav.sections
  BY <1>2, RemoveShows, RemoveTop DEF IndInv, TypeOK
<1>4. nav' \in Nav /\ Shows(nav', [q EXCEPT ![f] = b]) /\ NoEmptyTop(nav')
  BY <1>1, <1>2, <1>3, IndexShows, IndexTop
<1>5. rendered' = [q EXCEPT ![f] = b] /\ rendered' \in Outcomes
  BY DEF UpdateFile, IndInv, TypeOK, Outcomes, Outcome
<1>6. /\ since \subseteq since' /\ since' \subseteq File
      /\ b # None => f \in since'
  BY DEF UpdateFile, IndInv, TypeOK
<1>7. Below(m, since)
  BY <1>3 DEF IndInv, Below
<1>8. Below(nav', since')
  BY <1>1, <1>3, <1>6, <1>7, IndexBelow
<1>9. Indexed(rendered)' \subseteq since'
  BY <1>6 DEF UpdateFile, IndInv, TypeOK, Indexed
<1>10. UNCHANGED <<newNav, todo, walked>>
  BY DEF UpdateFile
<1> QED
  BY <1>4, <1>5, <1>6, <1>8, <1>9, <1>10
  DEF IndInv, TypeOK, Outcomes, Shows, Reachable, NoEmptyTop, Below, Indexed

LEMMA WalkStep ==
  ASSUME IndInv, NEW f \in File, NEW b \in Outcome, WalkFile(f, b)
  PROVE  IndInv'
<1>1. newNav' = Index(newNav, f, b)
  BY DEF WalkFile
<1>2. walked \in Outcomes /\ walked[f] = None /\ newNav \in Nav
  BY DEF WalkFile, IndInv, TypeOK, Outcomes
<1>3. walked' = [walked EXCEPT ![f] = b] /\ walked' \in Outcomes
  BY DEF WalkFile, IndInv, TypeOK, Outcomes
<1>4. newNav' \in Nav /\ Shows(newNav', walked')
  BY <1>1, <1>2, <1>3, IndexShows DEF IndInv
<1>5. NoEmptyTop(newNav')
  BY <1>1, <1>2, IndexTop DEF IndInv
<1>6. Indexed(walked) \subseteq Indexed(walked') /\ (b # None => f \in Indexed(walked'))
  BY <1>2, <1>3 DEF Indexed, Outcomes
<1>7. Below(newNav', Indexed(walked'))
  BY <1>1, <1>2, <1>6, IndexBelow DEF IndInv
<1>8. todo' # None /\ todo' \subseteq File /\ \A g \in todo' : walked'[g] = None
  BY <1>3 DEF WalkFile, IndInv, TypeOK
<1>9. UNCHANGED <<nav, rendered, since>>
  BY DEF WalkFile
<1> QED
  BY <1>3, <1>4, <1>5, <1>7, <1>8, <1>9
  DEF IndInv, TypeOK, Outcomes, Shows, Reachable, NoEmptyTop, Below, Indexed

LEMMA ReloadStep == IndInv /\ Reload => IndInv'
<1> SUFFICES ASSUME IndInv, Reload PROVE IndInv'
  OBVIOUS
<1>1. /\ newNav' = EmptyNav
      /\ walked' \in Outcomes
      /\ \A f \in File : walked'[f] = None
      /\ todo' = File
      /\ UNCHANGED <<nav, rendered, since>>
  BY DEF Reload, Outcomes, Outcome
<1>2. /\ newNav' \in Nav
      /\ Shows(newNav', walked')
      /\ NoEmptyTop(newNav')
      /\ Below(newNav', Indexed(walked'))
  BY <1>1, EmptyShows
<1> QED
  BY <1>1, <1>2
  DEF IndInv, TypeOK, Outcomes, Shows, Reachable, NoEmptyTop, Below, Indexed

LEMMA InstallStep == IndInv /\ Install => IndInv'
<1> SUFFICES ASSUME IndInv, Install PROVE IndInv'
  OBVIOUS
<1>1. /\ newNav' = EmptyNav
      /\ walked' \in Outcomes
      /\ \A f \in File : walked'[f] = None
      /\ todo' = None
      /\ nav' = newNav
      /\ rendered' = walked
      /\ since' = Indexed(walked)
  BY DEF Install, Outcomes, Outcome, Indexed
<1>2. /\ newNav' \in Nav
      /\ Shows(newNav', walked')
      /\ NoEmptyTop(newNav')
      /\ Below(newNav', Indexed(walked'))
  BY <1>1, EmptyShows
<1> QED
  BY <1>1, <1>2
  DEF IndInv, TypeOK, Outcomes, Shows, Reachable, NoEmptyTop, Below, Indexed

LEMMA NextInv == IndInv /\ [Next]_vars => IndInv'
<1> SUFFICES ASSUME IndInv, [Next]_vars PROVE IndInv'
  OBVIOUS
<1>1. CASE \E f \in File, b \in Outcome : UpdateFile(f, b) \/ WalkFile(f, b)
  BY <1>1, UpdateStep, WalkStep
<1>2. CASE Reload
  BY <1>2, ReloadStep
<1>3. CASE Install
  BY <1>3, InstallStep
<1>4. CASE UNCHANGED vars
  BY <1>4
  DEF vars, history, IndInv, TypeOK, Shows, Reachable, NoEmptyTop, Below, Indexed
<1> QED
  BY <1>1, <1>2, <1>3, <1>4 DEF Next

LEMMA Invariant == Spec => []IndInv
BY InitInv, NextInv, PTL DEF Spec

----------------------------------------------------------------------------
(* Every variable keeps its type.                                          *)
THEOREM TypeCorrect == Spec => []TypeOK
<1>1. IndInv => TypeOK
  BY DEF IndInv
<1> QED
  BY <1>1, Invariant, PTL

(* A map that shows the outcomes r has for each path what r says.          *)
LEMMA GetShows ==
  ASSUME NEW n \in Nav, NEW r \in Outcomes, Shows(n, r), NEW f \in File
  PROVE  Get(n, f) = {r[f]} \ {None}
<1>1. CASE r[f] = None
  <2>1. Listed(n, f) = {}
    BY <1>1 DEF Listed, Shows, Article
  <2> QED
    BY <1>1, <2>1 DEF Get
<1>2. CASE r[f] # None
  <2>1. HasSection(n, In[f])
    BY <1>2 DEF Shows, Reachable, HasSection, Path
  <2> DEFINE a == [file |-> f, body |-> r[f]]
  <2>2. a \in Article /\ a.body = r[f]
    BY <1>2 DEF Article, Outcomes, Outcome
  <2>3. Listed(n, f) = {a}
    BY <1>2, <2>2 DEF Listed, Shows, Article
  <2> QED
    BY <1>2, <2>1, <2>2, <2>3 DEF Get
<1> QED
  BY <1>1, <1>2

(* Get is the map from paths to what was rendered last, after any sequence *)
(* of reloads and updates.                                                 *)
THEOREM TreeIsMapHolds == Spec => []TreeIsMap
<1>1. IndInv => TreeIsMap
  BY GetShows DEF IndInv, TypeOK, Outcomes, TreeIsMap
<1> QED
  BY <1>1, Invariant, PTL

(* The two maps, seen as dictionaries.                                     *)
Present == [f \in File |-> Get(nav, f)]
New == [f \in (IF todo = None THEN {} ELSE File \ todo) |-> Get(newNav, f)]

Shown(r) == [f \in File |-> {r[f]} \ {None}]
Read(t, w) == [f \in (IF t = None THEN {} ELSE File \ t) |-> {w[f]} \ {None}]

LEMMA DictionariesAre == IndInv => Present = Shown(rendered) /\ New = Read(todo, walked)
<1> SUFFICES ASSUME IndInv PROVE Present = Shown(rendered) /\ New = Read(todo, walked)
  OBVIOUS
<1>1. /\ nav \in Nav /\ rendered \in Outcomes /\ Shows(nav, rendered)
      /\ newNav \in Nav /\ walked \in Outcomes /\ Shows(newNav, walked)
  BY DEF IndInv, TypeOK, Outcomes
<1> QED
  BY <1>1, GetShows DEF Present, New, Shown, Read

(* The tree, with its sections that come and go, implements the dictionary *)
(* of articles by path.                                                    *)
THEOREM IndexIsMapHolds == Spec => IndexIsMap
<1>1. Init => Dictionary!Init
  <2> SUFFICES ASSUME Init PROVE Dictionary!Init
    OBVIOUS
  <2>1. Present = Shown(rendered) /\ New = Read(todo, walked)
    BY InitInv, DictionariesAre
  <2>2. Shown(rendered) = [f \in File |-> {}] /\ Read(todo, walked) = [f \in {} |-> {}]
    BY DEF Init, Shown, Read
  <2> QED
    BY <2>1, <2>2 DEF Present, New, Dictionary!Init, Dictionary!Empty, Dictionary!Nothing
<1>2. (IndInv => Present = Shown(rendered) /\ New = Read(todo, walked))'
  BY DictionariesAre, PTL
<1>3. IndInv /\ IndInv' /\ [Next]_vars => [Dictionary!Next]_<<Present, New>>
  <2> SUFFICES ASSUME IndInv, IndInv', [Next]_vars PROVE [Dictionary!Next]_<<Present, New>>
    OBVIOUS
  <2>1. Present = Shown(rendered) /\ New = Read(todo, walked)
    BY DictionariesAre
  <2>2. Present' = Shown(rendered') /\ New' = Read(todo', walked')
    BY <1>2 DEF Shown, Read
  <2>3. rendered \in Outcomes /\ walked \in Outcomes /\ (todo # None => todo \subseteq File)
    BY DEF IndInv, TypeOK, Outcomes
  <2>4. ASSUME NEW b \in Outcome PROVE {b} \ {None} \in {{c} : c \in Body} \cup {{}}
    BY DEF Outcome
  <2>5. ASSUME NEW f \in File, NEW b \in Outcome, UpdateFile(f, b) PROVE Dictionary!Next
    <3>1. New = Dictionary!Nothing /\ New' = New
      BY <2>1, <2>2, <2>5 DEF UpdateFile, Read, Dictionary!Nothing
    <3>2. Present' = [Present EXCEPT ![f] = {b} \ {None}]
      BY <2>1, <2>2, <2>3, <2>5 DEF UpdateFile, Shown, Outcomes
    <3> QED
      BY <2>4, <3>1, <3>2 DEF Present, New, Dictionary!Next, Dictionary!Update
  <2>6. ASSUME NEW f \in File, NEW b \in Outcome, WalkFile(f, b) PROVE Dictionary!Next
    <3>1. Present' = Present
      BY <2>1, <2>2, <2>6 DEF WalkFile
    <3>2. /\ todo # None /\ f \in todo /\ todo' = todo \ {f} /\ todo' # None
          /\ walked' = [walked EXCEPT ![f] = b]
      BY <2>3, <2>6 DEF WalkFile
    <3>3. DOMAIN New = File \ todo /\ f \notin DOMAIN New
      BY <2>1, <3>2 DEF Read
    <3>4. New' = [g \in DOMAIN New \cup {f} |-> IF g = f THEN {b} \ {None} ELSE New[g]]
      BY <2>1, <2>2, <2>3, <3>2, <3>3 DEF Read, Outcomes
    <3>5. PICK v \in {{c} : c \in Body} \cup {{}} : v = {b} \ {None}
      BY <2>4
    <3>6. New' = [g \in DOMAIN New \cup {f} |-> IF g = f THEN v ELSE New[g]]
      BY <3>4, <3>5
    <3>7. Dictionary!Read(f, v) <=>
            /\ f \notin DOMAIN New
            /\ New' = [g \in DOMAIN New \cup {f} |-> IF g = f THEN v ELSE New[g]]
            /\ UNCHANGED Present
      BY Zenon DEF Present, New, Dictionary!Read
    <3>8. Dictionary!Read(f, v)
      BY <3>1, <3>3, <3>6, <3>7
    <3> QED
      BY <3>8 DEF Dictionary!Next
  <2>7. CASE Reload
    <3>1. Present' = Present /\ New' = New
      BY <2>1, <2>2, <2>7 DEF Reload, Read
    <3> QED
      BY <3>1 DEF Present, New
  <2>8. CASE Install
    <3>1. todo = {} /\ todo' = None /\ rendered' = walked
      BY <2>8 DEF Install
    <3>2. New = Shown(walked) /\ Present' = Shown(walked) /\ New' = Dictionary!Nothing
      BY <2>1, <2>2, <3>1 DEF Read, Shown, Dictionary!Nothing
    <3>3. DOMAIN New = File
      BY <3>2 DEF Shown
    <3> QED
      BY <3>2, <3>3 DEF Present, New, Dictionary!Next, Dictionary!Install
  <2>9. CASE UNCHANGED vars
    BY <2>9 DEF vars, Present, New
  <2> QED
    BY <2>5, <2>6, <2>7, <2>8, <2>9 DEF Next, Present, New
<1> QED
  BY <1>1, <1>3, Invariant, PTL DEF Spec, IndexIsMap, Dictionary!Spec, Present, New

(* The search index names what Get finds, once.                            *)
THEOREM SearchIsFullHolds == Spec => []SearchIsFull
<1>1. IndInv => SearchIsFull
  <2> SUFFICES ASSUME IndInv, NEW a \in Article, Searchable(In[a.file])
               PROVE  Hits(nav, a) = IF a.body \in Get(nav, a.file) THEN 1 ELSE 0
    BY DEF SearchIsFull
  <2>1. nav.listed[a] = IF rendered[a.file] = a.body THEN 1 ELSE 0
    BY DEF IndInv, Shows
  <2>2. a \in Listed(nav, a.file) <=> nav.listed[a] > 0
    BY DEF Listed
  <2>3. \A c \in Listed(nav, a.file) : c.body = a.body => c = a
    BY DEF Listed, Article
  <2> QED
    BY <2>1, <2>2, <2>3 DEF Hits, Get
<1> QED
  BY <1>1, Invariant, PTL

(* Sections without articles are those that removals left behind.          *)
THEOREM EmptySectionsAreLeftoversHolds == Spec => []EmptySectionsAreLeftovers
<1>1. IndInv => EmptySectionsAreLeftovers
  BY DEF IndInv, EmptySectionsAreLeftovers, Below
<1> QED
  BY <1>1, Invariant, PTL

----------------------------------------------------------------------------
(* What readers open.                                                      *)

(* A path finds the article of that path, if there is one in the tree.     *)
LEMMA FoundByPath ==
  ASSUME TreeIsMap, TypeOK, NEW f \in File
  PROVE  /\ rendered[f] # None => Found(nav, UrlOf[f]) = {f}
         /\ rendered[f] = None => Found(nav, UrlOf[f]) = {}
<1>1. \A g \in File : UrlOf[g] = UrlOf[f] => g = f
  BY PagesAssumption
<1>2. Get(nav, f) = {rendered[f]} \ {None}
  BY DEF TreeIsMap
<1> QED
  BY <1>1, <1>2 DEF Found

(* An article that is listed at all was rendered last to what is listed.   *)
LEMMA ListedIsRendered ==
  ASSUME IndInv, NEW a \in Article, nav.listed[a] > 0
  PROVE  rendered[a.file] # None /\ nav.listed[a] = 1
<1>1. a.body # None
  BY DEF Article
<1>2. nav.listed[a] = IF rendered[a.file] = a.body THEN 1 ELSE 0
  BY DEF IndInv, Shows
<1> QED
  BY <1>1, <1>2

(* The search index names nothing that requests do not open, but for paths *)
(* with a dot.                                                             *)
THEOREM SearchOpensHolds == Spec => []SearchOpens
<1>1. IndInv /\ TreeIsMap => SearchOpens
  <2> SUFFICES ASSUME IndInv, TreeIsMap PROVE SearchOpens
    OBVIOUS
  <2>1. TypeOK
    BY DEF IndInv
  <2>2. ASSUME NEW a \in Article, Hits(nav, a) > 0, NEW u \in Links(nav, a.file), u \notin Hidden
        PROVE  ContentAPI(nav, u) = {a.file} /\ Serve(nav, u) = {a.file}
    <3>1. a.file \in File
      BY DEF Article
    <3>2. nav.listed[a] > 0
      BY <2>2 DEF Hits
    <3>3. Found(nav, UrlOf[a.file]) = {a.file}
      BY <2>1, <3>1, <3>2, ListedIsRendered, FoundByPath
    <3>4. Direct(nav, u) = {a.file}
      BY <2>2, <3>3 DEF Links, Direct
    <3>5. ~Blocked(u)
      BY <2>2 DEF Links, Blocked
    <3> QED
      BY <3>4, <3>5 DEF ContentAPI, Opened, Serve
  <2>3. ASSUME NEW d \in FolderHits(nav), FolderUrl[d] \notin Hidden
        PROVE  Serve(nav, FolderUrl[d]) \in {{d}} \cup {{f} : f \in File}
    <3> DEFINE u == FolderUrl[d]
    <3>1. d \in Dir /\ HasSection(nav, d)
      BY DEF FolderHits
    <3>2. ~Blocked(u)
      BY <2>3, <3>1, PagesAssumption DEF Blocked
    <3>3. Hub(nav, u) = {d}
      BY <3>1, PagesAssumption DEF Hub
    <3>4. \A v \in Url : Found(nav, v) # {} => Found(nav, v) \in {{f} : f \in File}
      <4> SUFFICES ASSUME NEW v \in Url, NEW f \in Found(nav, v) PROVE Found(nav, v) = {f}
        BY DEF Found
      <4>1. f \in File /\ UrlOf[f] = v /\ Found(nav, v) # {}
        BY DEF Found
      <4> QED
        BY <2>1, <4>1, FoundByPath
    <3>5. u \in Url /\ WithoutMd[u] \in Url
      BY <3>1, PagesAssumption
    <3>6. Direct(nav, u) # {} => Direct(nav, u) \in {{f} : f \in File}
      BY <3>4, <3>5 DEF Direct
    <3> QED
      BY <3>2, <3>3, <3>6 DEF Serve
  <2> QED
    BY <2>2, <2>3 DEF SearchOpens
<1> QED
  BY <1>1, Invariant, TreeIsMapHolds, PTL

(* What the list of recent files shows opens, but for the two named cases. *)
THEOREM RecentOpensHolds == Spec => []RecentOpens
<1>1. IndInv /\ TreeIsMap => RecentOpens
  <2> SUFFICES ASSUME IndInv, TreeIsMap, NEW a \in Article, Recent(nav, a) > 0,
                      ShownAt(a.file) # NoPath, Direct(nav, ShownAt(a.file)) \ {a.file} = {}
               PROVE  Recent(nav, a) = 1 /\ ContentAPI(nav, ShownAt(a.file)) = {a.file}
    <3>1. ASSUME IndInv, NEW a \in Article, Recent(nav, a) > 0 PROVE Recent(nav, a) = 1
      BY <3>1, ListedIsRendered DEF Recent
    <3> QED
      BY <3>1 DEF RecentOpens
  <2> DEFINE f == a.file
             u == ShownAt(f)
  <2>1. TypeOK /\ f \in File
    BY DEF IndInv, Article
  <2>2. nav.listed[a] > 0 /\ UrlOf[f] \notin Hidden /\ Recent(nav, a) = nav.listed[a]
    BY DEF Recent
  <2>3. nav.listed[a] = 1 /\ Found(nav, UrlOf[f]) = {f}
    BY <2>1, <2>2, ListedIsRendered, FoundByPath
  <2>4. CASE \E v \in Url : Default[v] = UrlOf[f]
    <3>1. u \in Url /\ Default[u] = UrlOf[f]
      BY <2>4 DEF ShownAt
    <3>2. UrlOf[f] # None
      BY <2>1, PagesAssumption
    <3>3. ~Blocked(u)
      BY <2>2, <3>1, <3>2, PagesAssumption DEF Blocked
    <3>4. Direct(nav, u) # {} => Direct(nav, u) = {f}
      OBVIOUS
    <3>5. Opened(nav, u) = {f}
      BY <2>3, <3>1, <3>4 DEF Opened
    <3> QED
      BY <2>2, <2>3, <3>3, <3>5 DEF ContentAPI
  <2>5. CASE ~\E v \in Url : Default[v] = UrlOf[f]
    <3>1. u = UrlOf[f]
      BY <2>5 DEF ShownAt
    <3>2. ~Blocked(u)
      BY <2>2, <3>1 DEF Blocked
    <3> QED
      BY <2>2, <2>3, <3>1, <3>2 DEF ContentAPI, Opened, Direct
  <2> QED
    BY <2>4, <2>5
<1> QED
  BY <1>1, Invariant, TreeIsMapHolds, PTL
=============================================================================
