------------------------- MODULE SyncFolders_proofs -------------------------
(***************************************************************************)
(* Proofs for SyncFolders.  Placed(p, s) says that source s, once it has   *)
(* been pulled to p, is there or was overwritten or emptied in one of the  *)
(* named ways; every step keeps it (PlacedKept), and a successful pull     *)
(* establishes it, even one that found the repository of another source,   *)
(* or that did not look into a repository already up to date (PullPlaces). *)
(*  The rest of the invariant says who may still write       *)
(* where: a folder that is gone is nobody's destination.                   *)
(***************************************************************************)
EXTENDS SyncFolders, TLAPS

Placed(p, s) == s \in files[p] \/ p \in spoiled \/ Clash(p, s)

(* Only documents are overwritten: no repository has the name of one.      *)
RightPlaces ==
  /\ \A e \in Expected : Kind[e[2]] # "raw" => e[1] \in Dir
  /\ cloned \subseteq Dir

ClonedAreRepositories == \A p \in cloned : origin[p] # None

OriginsPulled == \A p \in Place : origin[p] # None => <<p, origin[p]>> \in aimed

OriginsPlaced == \A p \in Place : origin[p] # None => Placed(p, origin[p])

ResultsPlaced ==
  \A w \in Worker : pulled[w] # None /\ pulled[w][2] =>
    Placed(Landing(Dest(pulled[w][1][1]), pulled[w][1][2]), pulled[w][1][2])

NobodyDestined == \A p \in gone : ~Destined(p)

IndInv ==
  /\ TypeOK
  /\ RightPlaces /\ ClonedAreRepositories /\ OriginsPulled /\ OriginsPlaced
  /\ ResultsPlaced /\ OkIsThere
  /\ NobodyDestined /\ GoneStaysGone

----------------------------------------------------------------------------
(* Places.                                                                 *)

LEMMA LandingPlace ==
  ASSUME NEW p \in Place, NEW s \in Source
  PROVE  /\ Landing(p, s) \in Place
         /\ Kind[s] # "raw" => Landing(p, s) = p
         /\ Kind[s] = "raw" => Landing(p, s) \in Document
BY FolderAssumption DEF Landing, Place

LEMMA DestPlace ==
  ASSUME NEW n \in Place
  PROVE  Dest(n) \in Place /\ (n \in Dir => Dest(n) \in Dir)
BY FolderAssumption DEF Dest, Place

LEMMA Nesting ==
  ASSUME NEW p \in Place
  PROVE  /\ p \in Below(p)
         /\ \A q \in Place : q \in Below(p) <=> p \in Above(q)
         /\ \A q \in Below(p) : Below(q) \subseteq Below(p)
         /\ Below(p) \subseteq Place
BY FolderAssumption DEF Below, Above

(* What a pull of s to p does to the disk, in the terms the rest of the    *)
(* proof needs.                                                            *)
PullEffect(q, s, ok) ==
  /\ files' \in [Place -> SUBSET Article]
  /\ origin' \in [Place -> Source \cup {None}]
  /\ cloned' \subseteq Dir
  /\ aimed' = aimed \cup {<<q, s>>}
  /\ spoiled \ {q} \subseteq spoiled' /\ spoiled' \subseteq spoiled \cup {q}

(* What is written over a place has the source, and all that nobody else   *)
(* has a path of.                                                          *)
LEMMA OverwriteEffect ==
  ASSUME TypeOK, NEW p \in Place, NEW s \in Source, Overwrite(p, s)
  PROVE  /\ files' \in [Place -> SUBSET Article]
         /\ s \in files'[p]
         /\ Own \in files[p] => Own \in files'[p]
         /\ \A q \in Place \ {p} : files'[q] = files[q]
<1>1. PICK lost \in SUBSET (files[p] \ {Own, s}) : files' = [files EXCEPT ![p] = (@ \ lost) \cup {s}]
  BY DEF Overwrite
<1>2. files[p] \in SUBSET Article BY DEF TypeOK
<1> QED BY <1>1, <1>2 DEF TypeOK, Article

LEMMA PullTyped ==
  ASSUME TypeOK, cloned \subseteq Dir, NEW p \in Place, NEW s \in Source, NEW ok \in BOOLEAN,
         Kind[s] # "raw" => p \in Dir,
         Pull(p, s, ok)
  PROVE  PullEffect(Landing(p, s), s, ok)
<1>1. Landing(p, s) \in Place BY LandingPlace
<1>2. aimed' = aimed \cup {<<Landing(p, s), s>>} BY DEF Pull, Aims
<1>3. CASE Kind[s] = "git" /\ PullRepo(p, s, ok)
  <2>1. origin[p] \in Source BY <1>3 DEF PullRepo, IsRepository, TypeOK
  <2>2. files' \in [Place -> SUBSET Article] BY <1>3, <2>1, OverwriteEffect DEF PullRepo, TypeOK
  <2>3. p = Landing(p, s) BY <1>3, LandingPlace
  <2> QED BY <1>2, <1>3, <2>2, <2>3 DEF PullEffect, PullRepo, Fills, TypeOK
<1>4. CASE Kind[s] = "git" /\ Clone(p, s, ok)
  <2>1. files' \in [Place -> SUBSET Article]
    BY <1>4 DEF Clone, Without, TypeOK, Article
  <2>2. origin' \in [Place -> Source \cup {None}]
    BY <1>4 DEF Clone, Without, TypeOK
  <2>3. cloned' \subseteq Dir
    BY <1>4 DEF Clone
  <2>4. p = Landing(p, s) BY <1>4, LandingPlace
  <2> QED BY <1>2, <1>4, <2>1, <2>2, <2>3, <2>4 DEF PullEffect, Clone, Fills
<1>5. CASE Kind[s] = "archive" /\ Extract(p, s, ok)
  <2>1. files' \in [Place -> SUBSET Article] BY <1>5, OverwriteEffect DEF Extract, TypeOK
  <2>2. p = Landing(p, s) BY <1>5, LandingPlace
  <2> QED BY <1>2, <1>5, <2>1, <2>2 DEF PullEffect, Extract, Fills, TypeOK
<1>6. CASE Kind[s] = "raw" /\ FetchDocument(Landing(p, s), s, ok)
  <2>1. files' \in [Place -> SUBSET Article] BY <1>1, <1>6 DEF FetchDocument, TypeOK, Article
  <2> QED BY <1>2, <1>6, <2>1 DEF PullEffect, FetchDocument, Fills, TypeOK
<1> QED BY <1>3, <1>4, <1>5, <1>6 DEF Pull

(* A pull changes other places only by emptying them, below a clone.       *)
LEMMA PullEmpties ==
  ASSUME TypeOK, NEW p \in Place, NEW s \in Source, NEW ok \in BOOLEAN, Pull(p, s, ok),
         NEW q \in Place, q # Landing(p, s)
  PROVE  files'[q] = files[q] \/ (files'[q] = {} /\ q \in Below(Landing(p, s)))
<1>1. CASE Kind[s] = "git" /\ PullRepo(p, s, ok)
  <2>1. p = Landing(p, s) /\ origin[p] \in Source
    BY <1>1, LandingPlace DEF PullRepo, IsRepository, TypeOK
  <2> QED BY <1>1, <2>1, OverwriteEffect DEF PullRepo
<1>2. CASE Kind[s] = "git" /\ Clone(p, s, ok)
  <2>1. p = Landing(p, s) BY <1>2, LandingPlace
  <2>2. files'[q] = IF q \in Below(p) THEN {} ELSE files[q]
    BY <1>2, <2>1 DEF Clone, Without, TypeOK
  <2> QED BY <2>1, <2>2
<1>3. CASE Kind[s] = "archive" /\ Extract(p, s, ok)
  <2>1. p = Landing(p, s) BY <1>3, LandingPlace
  <2> QED BY <1>3, <2>1, OverwriteEffect DEF Extract
<1>4. CASE Kind[s] = "raw" /\ FetchDocument(Landing(p, s), s, ok)
  BY <1>4, LandingPlace DEF FetchDocument, TypeOK
<1> QED BY <1>1, <1>2, <1>3, <1>4 DEF Pull

LEMMA ClashKept ==
  ASSUME aimed \subseteq aimed', NEW p, NEW s, Clash(p, s)
  PROVE  Clash(p, s)'
BY DEF Clash

LEMMA PullPlaces ==
  ASSUME TypeOK, OriginsPulled, OriginsPlaced, NEW p \in Place, NEW s \in Source, NEW ok \in BOOLEAN,
         Pull(p, s, ok)
  PROVE  Placed(Landing(p, s), s)'
<1> DEFINE l == Landing(p, s)
<1>1. l \in Place BY LandingPlace
<1>2. CASE Kind[s] = "git" /\ PullRepo(p, s, ok)
  <2>1. l = p BY <1>2, LandingPlace
  <2>2. origin[p] \in Source /\ <<p, origin[p]>> \in aimed /\ Placed(p, origin[p])
    BY <1>2 DEF PullRepo, IsRepository, OriginsPulled, OriginsPlaced, TypeOK
  <2>3. aimed \subseteq aimed' BY DEF Pull, Aims
  <2>4. CASE origin[p] # s
    <3>1. p \in Below(p) BY Nesting
    <3>2. Clash(p, s)' BY <2>2, <2>3, <2>4, <3>1 DEF Clash
    <3> QED BY <2>1, <3>2 DEF Placed
  <2>5. CASE origin[p] = s /\ Overwrite(p, origin[p])
    <3>1. s \in files'[p] BY <2>2, <2>5, OverwriteEffect
    <3> QED BY <2>1, <3>1 DEF Placed
  <2>6. CASE origin[p] = s /\ UNCHANGED <<files, spoiled>>
    <3>1. Clash(p, s) => Clash(p, s)' BY <2>3, ClashKept
    <3> QED BY <2>1, <2>2, <2>6, <3>1 DEF Placed
  <2> QED BY <1>2, <2>4, <2>5, <2>6 DEF PullRepo
<1>3. CASE ~ok /\ ~(Kind[s] = "git" /\ PullRepo(p, s, ok))
  <2>1. Kind[s] # "raw" => l = p BY LandingPlace
  <2>2. l \in spoiled' BY <1>3, <2>1 DEF Pull, Clone, Extract, FetchDocument, Fills
  <2> QED BY <2>2 DEF Placed
<1>4. CASE ok /\ Kind[s] = "git" /\ Clone(p, s, ok)
  <2>1. l = p BY <1>4, LandingPlace
  <2>2. files'[p] = {s} BY <1>4 DEF Clone, Without, TypeOK
  <2> QED BY <2>1, <2>2 DEF Placed
<1>5. CASE ok /\ Kind[s] = "archive" /\ Extract(p, s, ok)
  <2>1. l = p BY <1>5, LandingPlace
  <2>2. s \in files'[p] BY <1>5, OverwriteEffect DEF Extract
  <2> QED BY <2>1, <2>2 DEF Placed
<1>6. CASE ok /\ Kind[s] = "raw" /\ FetchDocument(l, s, ok)
  <2>1. files'[l] = {s} BY <1>1, <1>6 DEF FetchDocument, TypeOK
  <2> QED BY <2>1 DEF Placed
<1> QED BY <1>2, <1>3, <1>4, <1>5, <1>6 DEF Pull

LEMMA PullRepositories ==
  ASSUME TypeOK, OriginsPulled, ClonedAreRepositories,
         NEW p \in Place, NEW s \in Source, NEW ok \in BOOLEAN, Pull(p, s, ok)
  PROVE  /\ OriginsPulled' /\ ClonedAreRepositories'
         /\ \A q \in Place :
              origin'[q] \in {None, origin[q]} \/ (q = Landing(p, s) /\ origin'[q] = s)
<1>1. aimed \subseteq aimed' /\ <<Landing(p, s), s>> \in aimed' BY DEF Pull, Aims
<1>2. CASE Kind[s] = "git" /\ Clone(p, s, ok)
  <2>1. p = Landing(p, s) BY <1>2, LandingPlace
  <2>2. \A q \in Place : origin'[q] = IF q = p THEN (IF ok THEN s ELSE None)
                                     ELSE IF q \in Below(p) THEN None ELSE origin[q]
    BY <1>2 DEF Clone, Without, TypeOK
  <2>3. OriginsPulled' BY <1>1, <2>1, <2>2 DEF OriginsPulled
  <2>4. ASSUME NEW q \in cloned' PROVE origin'[q] # None
    <3>1. CASE q = p
      <4>1. p \notin cloned BY <1>2 DEF Clone, IsRepository, ClonedAreRepositories
      <4>2. ok BY <1>2, <3>1, <4>1, <2>4 DEF Clone
      <4> QED BY <2>2, <3>1, <4>2, SourceAssumption
    <3>2. CASE q # p
      <4>1. q \in cloned /\ q \notin Below(p) BY <1>2, <2>4, <3>2 DEF Clone
      <4> QED BY <2>2, <3>2, <4>1 DEF ClonedAreRepositories, TypeOK
    <3> QED BY <3>1, <3>2
  <2> QED BY <2>1, <2>2, <2>3, <2>4 DEF ClonedAreRepositories
<1>3. CASE origin' = origin /\ cloned' = cloned
  BY <1>1, <1>3 DEF OriginsPulled, ClonedAreRepositories
<1> QED BY <1>2, <1>3 DEF Pull, PullRepo, Extract, FetchDocument

(* A pull takes hand-written articles out of a folder that was cloned to   *)
(* only if they are in its way.                                            *)
Spared(q, l) ==
  /\ Own \in files[q] => Own \in files'[q]
  /\ Edit \in files[q] => Edit \in files'[q] \/ q = l

LEMMA PullSpares ==
  ASSUME TypeOK, ClonedAreRepositories, cloned \subseteq Dir,
         NEW p \in Place, NEW s \in Source, NEW ok \in BOOLEAN, Pull(p, s, ok),
         NEW q \in cloned, q \in cloned'
  PROVE  Spared(q, Landing(p, s))
<1>1. q \in Place /\ q \in Dir BY DEF TypeOK
<1>2. CASE Kind[s] = "git" /\ PullRepo(p, s, ok)
  <2>1. p = Landing(p, s) /\ origin[p] \in Source
    BY <1>2, LandingPlace DEF PullRepo, IsRepository, TypeOK
  <2> QED BY <1>1, <1>2, <2>1, OverwriteEffect DEF PullRepo, Spared
<1>3. CASE Kind[s] = "git" /\ Clone(p, s, ok)
  <2>1. q # p BY <1>3 DEF Clone, IsRepository, ClonedAreRepositories
  <2>2. q \notin Below(p) BY <1>3, <2>1 DEF Clone
  <2>3. files'[q] = files[q] BY <1>1, <1>3, <2>1, <2>2 DEF Clone, Without, TypeOK
  <2> QED BY <2>3 DEF Spared
<1>4. CASE Kind[s] = "archive" /\ Extract(p, s, ok)
  <2>1. p = Landing(p, s) BY <1>4, LandingPlace
  <2> QED BY <1>1, <1>4, <2>1, OverwriteEffect DEF Extract, Spared
<1>5. CASE Kind[s] = "raw" /\ FetchDocument(Landing(p, s), s, ok)
  <2>1. q # Landing(p, s) BY <1>1, <1>5, LandingPlace, FolderAssumption
  <2>2. files'[q] = files[q] BY <1>1, <1>5, <2>1 DEF FetchDocument, TypeOK
  <2> QED BY <2>2 DEF Spared
<1> QED BY <1>2, <1>3, <1>4, <1>5 DEF Pull

(* The same of the files of a peer, which go to the folder although the    *)
(* source is a document to syncs.                                          *)
Fetched(l, s, ok) ==
  /\ PullEffect(l, s, ok)
  /\ \A q \in Place \ {l} :
       files'[q] = files[q] \/ (files'[q] = {} /\ q \in Below(l))
  /\ Placed(l, s)'
  /\ OriginsPulled' /\ ClonedAreRepositories'
  /\ \A q \in Place : origin'[q] \in {None, origin[q]} \/ (q = l /\ origin'[q] = s)
  /\ \A q \in cloned \cap cloned' : Spared(q, l)

LEMMA PullFetches ==
  ASSUME TypeOK, RightPlaces, OriginsPulled, OriginsPlaced, ClonedAreRepositories,
         NEW p \in Place, NEW s \in Source, NEW ok \in BOOLEAN,
         Kind[s] # "raw" => p \in Dir, Pull(p, s, ok)
  PROVE  Fetched(Landing(p, s), s, ok)
<1>1. cloned \subseteq Dir BY DEF RightPlaces
<1>2. PullEffect(Landing(p, s), s, ok) BY <1>1, PullTyped
<1>3. \A q \in Place \ {Landing(p, s)} :
        files'[q] = files[q] \/ (files'[q] = {} /\ q \in Below(Landing(p, s)))
  BY PullEmpties
<1>4. \A q \in cloned \cap cloned' : Spared(q, Landing(p, s))
  BY <1>1, PullSpares
<1> QED BY <1>2, <1>3, <1>4, PullPlaces, PullRepositories DEF Fetched

LEMMA PeerFetches ==
  ASSUME TypeOK, RightPlaces, OriginsPulled, ClonedAreRepositories,
         NEW n \in Place, NEW s \in Source, NEW ok \in BOOLEAN,
         Extract(n, s, ok), Aims(n, s)
  PROVE  Fetched(n, s, ok)
<1>1. /\ files' \in [Place -> SUBSET Article]
      /\ s \in files'[n] \/ (~ok /\ UNCHANGED files)
      /\ Own \in files[n] => Own \in files'[n]
      /\ \A q \in Place \ {n} : files'[q] = files[q]
  BY OverwriteEffect DEF Extract, TypeOK
<1>2. PullEffect(n, s, ok)
  BY <1>1 DEF PullEffect, Extract, Aims, Fills, RightPlaces, TypeOK
<1>3. Placed(n, s)'
  <2>1. CASE s \in files'[n] BY <2>1 DEF Placed
  <2>2. CASE ~ok
    <3>1. n \in spoiled' BY <2>2 DEF Extract, Fills
    <3> QED BY <3>1 DEF Placed
  <2> QED BY <1>1, <2>1, <2>2
<1>4. UNCHANGED origin /\ OriginsPulled' /\ ClonedAreRepositories'
  BY DEF OriginsPulled, ClonedAreRepositories, Extract, Aims
<1>5. \A q \in cloned \cap cloned' : Spared(q, n)
  BY <1>1 DEF Spared, TypeOK
<1> QED BY <1>1, <1>2, <1>3, <1>4, <1>5 DEF Fetched

LEMMA FetchKeepsPlaced ==
  ASSUME NEW l \in Place, NEW s \in Source, NEW ok \in BOOLEAN, Fetched(l, s, ok),
         NEW q \in Place, NEW t \in Source, Placed(q, t)
  PROVE  Placed(q, t)'
<1>1. aimed' = aimed \cup {<<l, s>>} BY DEF Fetched, PullEffect
<1>2. l \in Below(l) BY Nesting
<1>3. ASSUME q \in Below(l), q # l \/ t # s PROVE Placed(q, t)'
  <2>1. <<l, s>> # <<q, t>> BY <1>3
  <2>2. <<l, s>> \in aimed' BY <1>1
  <2>3. Clash(q, t)' BY <1>3, <2>1, <2>2 DEF Clash
  <2> QED BY <2>3 DEF Placed
<1>4. CASE q = l /\ t = s BY <1>4 DEF Fetched
<1>5. CASE q = l /\ t # s BY <1>2, <1>3, <1>5
<1>6. CASE q # l
  <2>1. CASE q \in spoiled
    <3>1. q \in spoiled' BY <1>6, <2>1 DEF Fetched, PullEffect
    <3> QED BY <3>1 DEF Placed
  <2>2. CASE Clash(q, t)
    <3>1. Clash(q, t)' BY <1>1, <2>2, ClashKept
    <3> QED BY <3>1 DEF Placed
  <2>3. CASE t \in files[q]
    <3>1. CASE files'[q] = files[q] BY <2>3, <3>1 DEF Placed
    <3>2. CASE q \in Below(l) BY <1>3, <1>6, <3>2
    <3> QED BY <1>6, <3>1, <3>2 DEF Fetched
  <2> QED BY <2>1, <2>2, <2>3 DEF Placed
<1> QED BY <1>4, <1>5, <1>6

----------------------------------------------------------------------------
(* Which entries a step may pull, and the disk and the entries under each  *)
(* kind of step.                                                           *)

(* What PullDelta and the two imports have in common.                      *)
LEMMA DeltaFetches ==
  ASSUME IndInv, NEW w \in Worker, PullDelta(w)
  PROVE  \E e \in todo[w], ok \in BOOLEAN :
           /\ e \in Listed /\ e \in Expected
           /\ Fetched(Landing(Dest(e[1]), e[2]), e[2], ok)
           /\ todo' = [todo EXCEPT ![w] = @ \ {e}]
           /\ pulled' = [pulled EXCEPT ![w] = <<e, ok>>] \/ pulled' = pulled
<1>1. PICK e \in todo[w] : \E ok \in BOOLEAN :
        /\ Pull(Dest(e[1]), e[2], ok)
        /\ todo' = [todo EXCEPT ![w] = @ \ {e}]
        /\ pulled' = [pulled EXCEPT ![w] = <<e, ok>>] \/ pulled' = pulled
  BY DEF PullDelta
<1>2. PICK ok \in BOOLEAN :
        /\ Pull(Dest(e[1]), e[2], ok)
        /\ todo' = [todo EXCEPT ![w] = @ \ {e}]
        /\ pulled' = [pulled EXCEPT ![w] = <<e, ok>>] \/ pulled' = pulled
  BY <1>1
<1>3. e \in Listed /\ e[1] \in Place /\ e[2] \in Source
  BY DEF IndInv, TypeOK, Listed
<1>4. e \in Expected BY DEF Expected
<1>5. Dest(e[1]) \in Place /\ (Kind[e[2]] # "raw" => Dest(e[1]) \in Dir)
  BY <1>3, <1>4, DestPlace DEF IndInv, RightPlaces
<1>6. Fetched(Landing(Dest(e[1]), e[2]), e[2], ok)
  BY <1>2, <1>3, <1>5, PullFetches DEF IndInv
<1> QED BY <1>2, <1>3, <1>4, <1>6

(* A removal takes some or all of what lies in the folder of the name.     *)
LEMMA DeleteEffect ==
  ASSUME IndInv, NEW r \in Request, DeleteLocalFiles(r), NEW n, n = task[r].name
  PROVE  /\ n \in Place
         /\ files' \in [Place -> SUBSET Article]
         /\ origin' \in [Place -> Source \cup {None}]
         /\ \A q \in Place : q \notin Removed(n) => files'[q] = files[q] /\ origin'[q] = origin[q]
         /\ \A q \in Place : files'[q] \subseteq files[q] /\ origin'[q] \in {None, origin[q]}
         /\ \/ gone' = gone
            \/ /\ gone' = gone \cup {n} /\ ~Destined(n)
               /\ \A q \in Removed(n) : files'[q] = {}
<1>1. n \in Place BY DEF DeleteLocalFiles, IndInv, TypeOK, Task, SaveTask
<1>2. PICK left \in Remnants(Removed(n)), repos \in SUBSET Removed(n) :
        /\ files' = [q \in Place |-> IF q \in Removed(n) THEN {x \in files[q] : <<q, x>> \in left}
                                     ELSE files[q]]
        /\ origin' = Without(origin, Removed(n) \ repos, None)
        /\ gone' = IF Destined(n) \/ left # {} THEN gone ELSE gone \cup {n}
  BY DEF DeleteLocalFiles
<1>3. Removed(n) \subseteq Place BY <1>1, Nesting DEF Removed
<1>4. /\ files' \in [Place -> SUBSET Article]
      /\ \A q \in Place : q \notin Removed(n) => files'[q] = files[q]
      /\ \A q \in Place : files'[q] \subseteq files[q]
  BY <1>2 DEF IndInv, TypeOK
<1>5. /\ origin' \in [Place -> Source \cup {None}]
      /\ \A q \in Place : q \notin Removed(n) => origin'[q] = origin[q]
      /\ \A q \in Place : origin'[q] \in {None, origin[q]}
  BY <1>2 DEF Without, IndInv, TypeOK
<1>6. left = {} => \A q \in Removed(n) : files'[q] = {} BY <1>2, <1>3
<1> QED BY <1>1, <1>2, <1>4, <1>5, <1>6

LEMMA ImportFetches ==
  ASSUME IndInv, NEW r \in Request, NEW n \in Name, NEW s \in Source, NEW ok \in BOOLEAN,
         NEW save \in BOOLEAN, ImportRemote(r, n, s, ok, save) \/ ImportFromPeer(r, n, s, ok, save)
  PROVE  \E l \in Place :
           /\ Kind[s] # "raw" => l \in Dir
           /\ Fetched(l, s, ok)
           /\ Then(r, ok, save, l, s)
           /\ requests' \in 0 .. MaxRequests
           /\ UNCHANGED <<rows, todo, pulled, rekeyed>>
<1>1. n \in Place /\ n \in Dir BY FolderAssumption DEF Place
<1>2. requests' \in 0 .. MaxRequests
  BY SourceAssumption DEF IndInv, TypeOK, ImportRemote, ImportFromPeer, Asks
<1>3. CASE ImportRemote(r, n, s, ok, save)
  <2>1. Landing(n, s) \in Place /\ (Kind[s] # "raw" => Landing(n, s) \in Dir)
    BY <1>1, LandingPlace
  <2>2. Fetched(Landing(n, s), s, ok)
    BY <1>1, <1>3, PullFetches DEF ImportRemote, IndInv
  <2> QED BY <1>2, <1>3, <2>1, <2>2 DEF ImportRemote
<1>4. CASE ImportFromPeer(r, n, s, ok, save)
  <2>1. Fetched(n, s, ok)
    BY <1>1, <1>4, PeerFetches DEF ImportFromPeer, IndInv
  <2> QED BY <1>1, <1>2, <1>4, <2>1 DEF ImportFromPeer
<1> QED BY <1>3, <1>4

----------------------------------------------------------------------------
(* The steps.                                                              *)

LEMMA InitHolds == Init => IndInv
<1> SUFFICES ASSUME Init PROVE IndInv OBVIOUS
<1>1. \A n \in Place : rows[n] = None \/ rows[n] \in Row
  BY DEF Init, Row
<1>2. TypeOK
  <2>1. rows \in [Place -> Row \cup {None}] BY DEF Init, Row
  <2>2. files \in [Place -> SUBSET Article] BY DEF Init, Article
  <2> QED BY <2>1, <2>2, SourceAssumption DEF Init, TypeOK
<1>3. RightPlaces
  <2>1. ASSUME NEW e \in Expected PROVE e[1] \in Dir
    <3>1. \A w \in Worker : todo[w] = {} BY DEF Init
    <3>2. \A r \in Request : task[r] \notin SaveTask BY SentinelAssumption DEF Init, Task
    <3>3. e \in Tracked BY <2>1, <3>1, <3>2 DEF Expected, Saving
    <3>4. e[1] \in Place /\ rows[e[1]] # None BY <3>3 DEF Tracked, Listed
    <3>5. <<e[1], rows[e[1]].url>> \in Config BY <3>4 DEF Init
    <3>6. e[1] \in Name BY <3>5, FolderAssumption
    <3> QED BY <3>6, FolderAssumption
  <2> QED BY <2>1 DEF RightPlaces, Init
<1>4. OkIsThere
  <2>1. ASSUME NEW n \in Place, rows[n] # None PROVE rows[n].status = "pending"
    BY <2>1 DEF Init
  <2> QED BY <2>1 DEF OkIsThere
<1> QED BY <1>2, <1>3, <1>4 DEF IndInv, Init, ClonedAreRepositories, OriginsPulled,
                             OriginsPlaced, ResultsPlaced, NobodyDestined, GoneStaysGone

LEMMA TypeStep == IndInv /\ [Next]_vars => TypeOK'
<1> SUFFICES ASSUME IndInv, [Next]_vars PROVE TypeOK' OBVIOUS
<1> USE DEF IndInv
<1>1. ASSUME NEW w \in Worker, NEW L \in SUBSET Tracked, List(w, L) PROVE TypeOK'
  BY <1>1 DEF List, TypeOK, Tracked, disk, history
<1>2. ASSUME NEW w \in Worker, PullDelta(w) PROVE TypeOK'
  <2>1. PICK e \in todo[w] : \E ok \in BOOLEAN :
          /\ e \in Listed
          /\ Fetched(Landing(Dest(e[1]), e[2]), e[2], ok)
          /\ todo' = [todo EXCEPT ![w] = @ \ {e}]
          /\ pulled' = [pulled EXCEPT ![w] = <<e, ok>>] \/ pulled' = pulled
    BY <1>2, DeltaFetches
  <2>2. PICK ok \in BOOLEAN :
          /\ Fetched(Landing(Dest(e[1]), e[2]), e[2], ok)
          /\ todo' = [todo EXCEPT ![w] = @ \ {e}]
          /\ pulled' = [pulled EXCEPT ![w] = <<e, ok>>] \/ pulled' = pulled
    BY <2>1
  <2>3. Landing(Dest(e[1]), e[2]) \in Place /\ e[2] \in Source
    BY <2>1, LandingPlace, DestPlace DEF Listed
  <2>4. pulled' \in [Worker -> (Listed \X BOOLEAN) \cup {None}] BY <2>1, <2>2 DEF TypeOK
  <2>5. todo' \in [Worker -> SUBSET Listed] BY <2>2 DEF TypeOK
  <2>6. UNCHANGED <<rows, task, requests, rekeyed, gone>> BY <1>2 DEF PullDelta
  <2> QED BY <2>2, <2>3, <2>4, <2>5, <2>6, FolderAssumption DEF TypeOK, Fetched, PullEffect, Listed, Place
<1>3. ASSUME NEW w \in Worker, MarkSyncResult(w) PROVE TypeOK'
  <2>1. pulled[w] \in Listed \X BOOLEAN BY <1>3 DEF MarkSyncResult, TypeOK
  <2> DEFINE n == pulled[w][1][1]
  <2>2. n \in Place BY <2>1 DEF Listed
  <2>3. rows' \in [Place -> Row \cup {None}]
    <3>1. CASE rows' = rows BY <3>1 DEF TypeOK
    <3>2. CASE rows[n] # None
                 /\ rows' = [rows EXCEPT ![n].status = IF pulled[w][2] THEN "ok" ELSE "error"]
      <4>1. rows[n] \in Row BY <2>2, <3>2 DEF TypeOK
      <4>2. [rows[n] EXCEPT !.status = IF pulled[w][2] THEN "ok" ELSE "error"] \in Row
        BY <4>1 DEF Row
      <4> QED BY <2>2, <3>2, <4>2 DEF TypeOK
    <3> QED BY <1>3, <3>1, <3>2 DEF MarkSyncResult
  <2>4. rekeyed' \subseteq Place BY <1>3, <2>2 DEF MarkSyncResult, TypeOK
  <2> QED BY <1>3, <2>3, <2>4 DEF MarkSyncResult, TypeOK, disk
<1>4. ASSUME NEW r \in Request, NEW n \in Name, NEW s \in Source, NEW ok \in BOOLEAN,
             NEW save \in BOOLEAN,
             ImportRemote(r, n, s, ok, save) \/ ImportFromPeer(r, n, s, ok, save)
      PROVE TypeOK'
  <2>1. PICK l \in Place :
          /\ Fetched(l, s, ok)
          /\ Then(r, ok, save, l, s)
          /\ requests' \in 0 .. MaxRequests
          /\ UNCHANGED <<rows, todo, pulled, rekeyed>>
    BY <1>4, ImportFetches
  <2>2. task' \in [Request -> Task \cup {None}]
    BY <2>1 DEF Then, TypeOK, Task, SaveTask
  <2>3. gone' \subseteq Place BY <2>1 DEF Then, TypeOK
  <2> QED BY <2>1, <2>2, <2>3, FolderAssumption DEF TypeOK, Fetched, PullEffect, Listed, Place
<1>5. ASSUME NEW r \in Request, SaveEntry(r) PROVE TypeOK'
  <2>1. task[r] \in SaveTask BY <1>5 DEF SaveEntry, TypeOK, Task, SaveTask
  <2> DEFINE n == task[r].name
             s == task[r].url
  <2>2. n \in Place /\ s \in Source BY <2>1 DEF SaveTask
  <2>3. [url |-> s, status |-> IF rows[n] = None THEN "pending" ELSE rows[n].status] \in Row
    BY <2>2 DEF Row, TypeOK
  <2>4. rows' \in [Place -> Row \cup {None}]
    BY <1>5, <2>2, <2>3 DEF SaveEntry, AddStartupSync, TypeOK
  <2>5. rekeyed' \subseteq Place BY <1>5, <2>2 DEF SaveEntry, AddStartupSync, TypeOK
  <2> QED BY <1>5, <2>4, <2>5 DEF SaveEntry, TypeOK, disk
<1>6. ASSUME NEW r \in Request, SaveFails(r) PROVE TypeOK'
  BY <1>6 DEF SaveFails, TypeOK, disk, history
<1>7. ASSUME NEW r \in Request, NEW n \in Place, NEW d \in BOOLEAN, AdminRemove(r, n, d)
      PROVE TypeOK'
  BY <1>7, SourceAssumption DEF AdminRemove, Asks, TypeOK, Task, disk
<1>8. ASSUME NEW r \in Request, DeleteLocalFiles(r) PROVE TypeOK'
  <2>1. /\ task[r].name \in Place
        /\ files' \in [Place -> SUBSET Article]
        /\ origin' \in [Place -> Source \cup {None}]
        /\ gone' \subseteq gone \cup {task[r].name}
    BY <1>8, DeleteEffect
  <2>2. Removed(task[r].name) \subseteq Place BY <2>1, Nesting DEF Removed
  <2> QED BY <1>8, <2>1, <2>2 DEF DeleteLocalFiles, TypeOK
<1>9. ASSUME NEW p \in Written, NEW x \in {Own, Edit}, WriteByHand(p, x) PROVE TypeOK'
  <2>1. p \in Place BY FolderAssumption
  <2>2. files' \in [Place -> SUBSET Article] BY <1>9, <2>1 DEF WriteByHand, TypeOK, Article
  <2> QED BY <1>9, <2>1, <2>2, SourceAssumption DEF WriteByHand, TypeOK
<1>10. CASE Crash BY <1>10 DEF Crash, TypeOK, disk, history
<1>11. CASE UNCHANGED vars BY <1>11 DEF vars, disk, history, TypeOK
<1> QED BY <1>1, <1>2, <1>3, <1>4, <1>5, <1>6, <1>7, <1>8, <1>9, <1>10, <1>11
        DEF Next, PeriodicSync, WebhookSync

(* Nothing becomes expected but what an import is about to save, and what  *)
(* lies above that is not gone.                                            *)
LEMMA ExpectedStep ==
  ASSUME IndInv, [Next]_vars, NEW e \in Expected'
  PROVE  \/ e \in Expected
         \/ \E n \in Place, s \in Source :
              /\ e = <<n, s>>
              /\ Kind[s] # "raw" => n \in Dir
              /\ gone' \cap (Above(n) \cup Above(Landing(Dest(n), s))) = {}
<1> DEFINE Saved(r) == e = <<task[r].name, task[r].url>> /\ task[r] \in SaveTask
<1>1. \/ e \in Tracked'
      \/ \E w \in Worker : e \in todo'[w]
      \/ \E r \in Request : Saved(r)'
  <2>1. CASE e \in Saving'
    <3>1. PICK t \in {task'[r] : r \in Request} \cap SaveTask : e = <<t.name, t.url>>
      BY <2>1 DEF Saving
    <3>2. PICK r \in Request : t = task'[r] BY <3>1
    <3>3. task'[r] \in SaveTask /\ e = <<task'[r].name, task'[r].url>> BY <3>1, <3>2
    <3> QED BY <3>3
  <2>2. CASE e \in UNION {todo'[w] : w \in Worker} BY <2>2
  <2>3. e \in Expected' OBVIOUS
  <2>4. e \in Tracked' \/ e \in UNION {todo'[w] : w \in Worker} \/ e \in Saving'
    BY <2>3 DEF Expected
  <2> QED BY <2>1, <2>2, <2>4
<1>2. ASSUME e \in Tracked \/ (\E w \in Worker : e \in todo[w]) \/ (\E r \in Request : Saved(r))
      PROVE  e \in Expected
  <2>1. ASSUME NEW r \in Request, Saved(r) PROVE e \in Expected
    <3>1. task[r] \in {task[q] : q \in Request} \cap SaveTask BY <2>1
    <3>2. e \in Saving BY <2>1, <3>1 DEF Saving
    <3>3. Saving \subseteq Expected BY DEF Expected
    <3> QED BY <3>2, <3>3
  <2>2. ASSUME NEW w \in Worker, e \in todo[w] PROVE e \in Expected BY <2>2 DEF Expected
  <2>3. e \in Tracked => e \in Expected BY DEF Expected
  <2> QED BY <1>2, <2>1, <2>2, <2>3
<1>3. ASSUME NEW w \in Worker, NEW L \in SUBSET Tracked, List(w, L) PROVE e \in Expected
  <2>1. \A v \in Worker : todo'[v] \subseteq todo[v] \cup Tracked
    BY <1>3 DEF List, IndInv, TypeOK
  <2>2. Tracked' = Tracked BY <1>3 DEF List, Tracked
  <2>3. task' = task BY <1>3 DEF List
  <2> QED BY <1>1, <1>2, <2>1, <2>2, <2>3
<1>4. ASSUME NEW w \in Worker, PullDelta(w) PROVE e \in Expected
  <2>1. \A v \in Worker : todo'[v] \subseteq todo[v] BY <1>4 DEF PullDelta, IndInv, TypeOK
  <2>2. Tracked' = Tracked BY <1>4 DEF PullDelta, Tracked
  <2>3. task' = task BY <1>4 DEF PullDelta
  <2> QED BY <1>1, <1>2, <2>1, <2>2, <2>3
<1>5. ASSUME NEW w \in Worker, MarkSyncResult(w) PROVE e \in Expected
  <2>1. \A m \in Place : (rows'[m] # None => rows[m] # None /\ rows'[m].url = rows[m].url)
    <3>1. CASE rows' = rows BY <3>1
    <3>2. CASE \E x \in {"ok", "error"} :
                 /\ rows[pulled[w][1][1]] # None
                 /\ rows' = [rows EXCEPT ![pulled[w][1][1]].status = x]
      BY <3>2 DEF IndInv, TypeOK, Row
    <3> QED BY <1>5, <3>1, <3>2 DEF MarkSyncResult
  <2>2. Tracked' \subseteq Tracked BY <2>1 DEF Tracked, Listed
  <2>3. task' = task /\ todo' = todo BY <1>5 DEF MarkSyncResult
  <2> QED BY <1>1, <1>2, <2>2, <2>3
<1>6. ASSUME NEW r \in Request, NEW n \in Name, NEW s \in Source, NEW ok \in BOOLEAN,
             NEW save \in BOOLEAN,
             ImportRemote(r, n, s, ok, save) \/ ImportFromPeer(r, n, s, ok, save)
      PROVE  \/ e \in Expected
             \/ \E m \in Place, t \in Source :
                  /\ e = <<m, t>>
                  /\ Kind[t] # "raw" => m \in Dir
                  /\ gone' \cap (Above(m) \cup Above(Landing(Dest(m), t))) = {}
  <2>1. PICK l \in Place :
          /\ Kind[s] # "raw" => l \in Dir
          /\ Then(r, ok, save, l, s)
          /\ UNCHANGED <<rows, todo, pulled, rekeyed>>
    BY <1>6, ImportFetches
  <2>2. Tracked' = Tracked BY <2>1 DEF Tracked
  <2>3. gone' \cap (Above(l) \cup Above(Landing(Dest(l), s))) = {} BY <2>1 DEF Then
  <2>4. ASSUME NEW q \in Request, Saved(q)' PROVE Saved(q) \/ e = <<l, s>>
    <3>1. CASE q = r
      <4>1. task'[r] = IF ok /\ save THEN [step |-> "save", name |-> l, url |-> s] ELSE None
        BY <2>1 DEF Then, IndInv, TypeOK
      <4>2. task'[r] # None BY <2>4, <3>1, SentinelAssumption DEF Task
      <4> QED BY <2>4, <3>1, <4>1, <4>2
    <3>2. CASE q # r
      <4>1. task'[q] = task[q] BY <2>1, <3>2 DEF Then, IndInv, TypeOK
      <4> QED BY <2>4, <4>1
    <3> QED BY <3>1, <3>2
  <2>5. todo' = todo BY <2>1
  <2> QED BY <1>1, <1>2, <2>1, <2>2, <2>3, <2>4, <2>5
<1>7. ASSUME NEW r \in Request, SaveEntry(r) PROVE e \in Expected
  <2>1. task[r] \in SaveTask BY <1>7 DEF SaveEntry, IndInv, TypeOK, Task, SaveTask
  <2>2. e \in Tracked' => e \in Tracked \/ e = <<task[r].name, task[r].url>>
    BY <1>7, <2>1 DEF SaveEntry, AddStartupSync, Tracked, Listed, IndInv, TypeOK, SaveTask
  <2>3. ASSUME NEW q \in Request, Saved(q)' PROVE Saved(q)
    <3>1. q # r
      <4>1. q = r => task'[q] = None BY <1>7 DEF SaveEntry, IndInv, TypeOK
      <4> QED BY <2>3, <4>1, SentinelAssumption DEF Task
    <3>2. task'[q] = task[q] BY <1>7, <3>1 DEF SaveEntry, IndInv, TypeOK
    <3> QED BY <2>3, <3>2
  <2>4. todo' = todo BY <1>7 DEF SaveEntry
  <2> QED BY <1>1, <1>2, <2>1, <2>2, <2>3, <2>4
<1>8. ASSUME NEW r \in Request, NEW t \in [step : {"delete"}, name : Place] \cup {None},
             task' = [task EXCEPT ![r] = t], todo' = todo, Tracked' \subseteq Tracked
      PROVE  e \in Expected
  <2>1. t \notin SaveTask BY SentinelAssumption DEF Task, SaveTask
  <2>2. ASSUME NEW q \in Request, Saved(q)' PROVE Saved(q)
    <3>1. q # r BY <1>8, <2>1, <2>2 DEF IndInv, TypeOK
    <3>2. task'[q] = task[q] BY <1>8, <3>1 DEF IndInv, TypeOK
    <3> QED BY <2>2, <3>2
  <2> QED BY <1>1, <1>2, <1>8, <2>2
<1>9. ASSUME NEW r \in Request, SaveFails(r) PROVE e \in Expected
  <2>1. Tracked' = Tracked BY <1>9 DEF SaveFails, Tracked
  <2> QED BY <1>8, <1>9, <2>1 DEF SaveFails
<1>10. ASSUME NEW r \in Request, NEW n \in Place, NEW d \in BOOLEAN, AdminRemove(r, n, d)
       PROVE  e \in Expected
  <2>1. Tracked' \subseteq Tracked BY <1>10 DEF AdminRemove, Tracked, Listed, IndInv, TypeOK
  <2>2. (IF d THEN [step |-> "delete", name |-> n] ELSE None)
          \in [step : {"delete"}, name : Place] \cup {None}
    OBVIOUS
  <2> QED BY <1>8, <1>10, <2>1, <2>2 DEF AdminRemove
<1>11. ASSUME NEW r \in Request, DeleteLocalFiles(r) PROVE e \in Expected
  <2>1. Tracked' = Tracked BY <1>11 DEF DeleteLocalFiles, Tracked
  <2> QED BY <1>8, <1>11, <2>1 DEF DeleteLocalFiles
<1>12. CASE UNCHANGED <<rows, todo, task>>
  <2>1. Tracked' = Tracked BY <1>12 DEF Tracked
  <2> QED BY <1>1, <1>2, <1>12, <2>1
<1>13. CASE Crash
  <2>1. Tracked' = Tracked BY <1>13 DEF Crash, Tracked
  <2>2. \A w \in Worker : todo'[w] = {} BY <1>13 DEF Crash
  <2>3. \A r \in Request : task'[r] \notin SaveTask BY <1>13, SentinelAssumption DEF Crash, Task
  <2> QED BY <1>1, <1>2, <2>1, <2>2, <2>3
<1> QED BY <1>3, <1>4, <1>5, <1>6, <1>7, <1>9, <1>10, <1>11, <1>12, <1>13
        DEF Next, PeriodicSync, WebhookSync, WriteByHand, vars

LEMMA RightPlacesStep == IndInv /\ [Next]_vars => RightPlaces'
<1> SUFFICES ASSUME IndInv, [Next]_vars PROVE RightPlaces' OBVIOUS
<1>1. ASSUME NEW e \in Expected', Kind[e[2]] # "raw" PROVE e[1] \in Dir
  BY <1>1, ExpectedStep DEF IndInv, RightPlaces
<1>2. cloned' \subseteq Dir
  <2>1. ASSUME NEW w \in Worker, PullDelta(w) PROVE cloned' \subseteq Dir
    BY <2>1, DeltaFetches DEF Fetched, PullEffect
  <2>2. ASSUME NEW r \in Request, NEW n \in Name, NEW s \in Source, NEW ok \in BOOLEAN,
               NEW save \in BOOLEAN,
               ImportRemote(r, n, s, ok, save) \/ ImportFromPeer(r, n, s, ok, save)
        PROVE cloned' \subseteq Dir
    BY <2>2, ImportFetches DEF Fetched, PullEffect
  <2>3. CASE cloned' \subseteq cloned BY <2>3 DEF IndInv, RightPlaces
  <2> QED BY <2>1, <2>2, <2>3 DEF Next, PeriodicSync, WebhookSync, List, MarkSyncResult, SaveEntry,
            SaveFails, AdminRemove, DeleteLocalFiles, WriteByHand, Crash, vars, history
<1> QED BY <1>1, <1>2 DEF RightPlaces

LEMMA RepositoriesStep ==
  IndInv /\ [Next]_vars => ClonedAreRepositories' /\ OriginsPulled'
<1> SUFFICES ASSUME IndInv, [Next]_vars PROVE ClonedAreRepositories' /\ OriginsPulled' OBVIOUS
<1>1. ASSUME NEW w \in Worker, PullDelta(w) PROVE ClonedAreRepositories' /\ OriginsPulled'
  BY <1>1, DeltaFetches DEF Fetched
<1>2. ASSUME NEW r \in Request, NEW n \in Name, NEW s \in Source, NEW ok \in BOOLEAN,
             NEW save \in BOOLEAN,
             ImportRemote(r, n, s, ok, save) \/ ImportFromPeer(r, n, s, ok, save)
      PROVE ClonedAreRepositories' /\ OriginsPulled'
  BY <1>2, ImportFetches DEF Fetched
<1>3. ASSUME NEW r \in Request, DeleteLocalFiles(r)
      PROVE  ClonedAreRepositories' /\ OriginsPulled'
  <2> DEFINE n == task[r].name
  <2>1. \A q \in Place : /\ origin'[q] \in {None, origin[q]}
                         /\ q \notin Removed(n) => origin'[q] = origin[q]
    BY <1>3, DeleteEffect
  <2>2. cloned' = cloned \ Removed(n) /\ aimed' = aimed BY <1>3 DEF DeleteLocalFiles
  <2>3. ClonedAreRepositories' BY <2>1, <2>2 DEF ClonedAreRepositories, IndInv, TypeOK
  <2>4. OriginsPulled' BY <2>1, <2>2 DEF OriginsPulled, IndInv
  <2> QED BY <2>3, <2>4
<1>4. CASE UNCHANGED <<origin, cloned, aimed>>
  BY <1>4 DEF IndInv, ClonedAreRepositories, OriginsPulled
<1> QED BY <1>1, <1>2, <1>3, <1>4 DEF Next, PeriodicSync, WebhookSync, List, MarkSyncResult,
          SaveEntry, SaveFails, AdminRemove, WriteByHand, Crash, vars, disk, history

(* What has been pulled to a place stays there, or the invariant says why. *)
LEMMA PlacedStep ==
  ASSUME IndInv, [Next]_vars, NEW q \in Place, NEW t \in Source, Placed(q, t)
  PROVE  Placed(q, t)'
<1>1. ASSUME NEW w \in Worker, PullDelta(w) PROVE Placed(q, t)'
  <2>1. PICK e \in todo[w] : \E ok \in BOOLEAN :
          e \in Listed /\ Fetched(Landing(Dest(e[1]), e[2]), e[2], ok)
    BY <1>1, DeltaFetches
  <2>2. Landing(Dest(e[1]), e[2]) \in Place /\ e[2] \in Source
    BY <2>1, LandingPlace, DestPlace DEF Listed
  <2> QED BY <2>1, <2>2, FetchKeepsPlaced
<1>2. ASSUME NEW r \in Request, NEW n \in Name, NEW s \in Source, NEW ok \in BOOLEAN,
             NEW save \in BOOLEAN,
             ImportRemote(r, n, s, ok, save) \/ ImportFromPeer(r, n, s, ok, save)
      PROVE Placed(q, t)'
  BY <1>2, ImportFetches, FetchKeepsPlaced
<1>3. ASSUME t \in files[q] => t \in files'[q] \/ q \in spoiled', aimed' = aimed,
             spoiled \subseteq spoiled'
      PROVE  Placed(q, t)'
  <2>1. Clash(q, t) => Clash(q, t)' BY <1>3, ClashKept
  <2> QED BY <1>3, <2>1 DEF Placed
<1>4. ASSUME NEW r \in Request, DeleteLocalFiles(r) PROVE Placed(q, t)'
  <2>1. q \notin Removed(task[r].name) => files'[q] = files[q]
    BY <1>4, DeleteEffect
  <2> QED BY <1>3, <1>4, <2>1 DEF DeleteLocalFiles
<1>5. ASSUME NEW p \in Written, NEW x, WriteByHand(p, x) PROVE Placed(q, t)'
  <2>1. files[q] \subseteq files'[q] BY <1>5 DEF WriteByHand, IndInv, TypeOK
  <2> QED BY <1>3, <1>5, <2>1 DEF WriteByHand
<1>6. CASE UNCHANGED <<files, aimed, spoiled>> BY <1>3, <1>6
<1> QED BY <1>1, <1>2, <1>4, <1>5, <1>6 DEF Next, PeriodicSync, WebhookSync, List, MarkSyncResult,
          SaveEntry, SaveFails, AdminRemove, Crash, vars, disk, history

(* What a repository was cloned from stays placed as long as it is there.  *)
LEMMA OriginsStep == IndInv /\ [Next]_vars => OriginsPlaced'
<1> SUFFICES ASSUME IndInv, [Next]_vars, NEW q \in Place, origin'[q] # None
             PROVE  Placed(q, origin[q])'
  BY DEF OriginsPlaced
<1>1. ASSUME origin'[q] \in {None, origin[q]} PROVE Placed(q, origin[q])'
  <2>1. origin'[q] = origin[q] BY <1>1
  <2>2. origin[q] \in Source /\ Placed(q, origin[q]) BY <2>1 DEF IndInv, OriginsPlaced, TypeOK
  <2>3. PICK t : t = origin[q] OBVIOUS
  <2>4. Placed(q, t)' BY <2>2, <2>3, PlacedStep
  <2> QED BY <2>1, <2>3, <2>4 DEF Placed, Clash
<1>2. ASSUME NEW l, NEW s, NEW ok, Fetched(l, s, ok) PROVE Placed(q, origin[q])'
  <2>1. CASE q = l /\ origin'[q] = s BY <1>2, <2>1 DEF Fetched, Placed, Clash
  <2> QED BY <1>1, <1>2, <2>1 DEF Fetched
<1>3. ASSUME NEW w \in Worker, PullDelta(w) PROVE Placed(q, origin[q])'
  BY <1>2, <1>3, DeltaFetches
<1>4. ASSUME NEW r \in Request, NEW n \in Name, NEW s \in Source, NEW ok \in BOOLEAN,
             NEW save \in BOOLEAN,
             ImportRemote(r, n, s, ok, save) \/ ImportFromPeer(r, n, s, ok, save)
      PROVE Placed(q, origin[q])'
  BY <1>2, <1>4, ImportFetches
<1>5. ASSUME NEW r \in Request, DeleteLocalFiles(r) PROVE Placed(q, origin[q])'
  BY <1>1, <1>5, DeleteEffect
<1>6. CASE UNCHANGED origin BY <1>1, <1>6
<1> QED BY <1>3, <1>4, <1>5, <1>6 DEF Next, PeriodicSync, WebhookSync, List, MarkSyncResult,
          SaveEntry, SaveFails, AdminRemove, WriteByHand, Crash, vars, disk

LEMMA ResultsStep == IndInv /\ [Next]_vars => ResultsPlaced'
<1> SUFFICES ASSUME IndInv, [Next]_vars, NEW v \in Worker, pulled'[v] # None, pulled'[v][2],
                    NEW n, n = pulled'[v][1][1], NEW s, s = pulled'[v][1][2]
             PROVE  Placed(Landing(Dest(n), s), s)'
  BY DEF ResultsPlaced, Placed, Clash
<1> DEFINE Good == Placed(Landing(Dest(n), s), s)'
<1>1. CASE pulled'[v] = pulled[v]
  <2>1. pulled[v] \in Listed \X BOOLEAN BY <1>1 DEF IndInv, TypeOK
  <2>2. n \in Place /\ s \in Source BY <1>1, <2>1 DEF Listed
  <2>3. Landing(Dest(n), s) \in Place BY <2>2, LandingPlace, DestPlace
  <2>4. Placed(Landing(Dest(n), s), s) BY <1>1 DEF IndInv, ResultsPlaced
  <2> QED BY <2>2, <2>3, <2>4, PlacedStep
<1>2. ASSUME NEW w \in Worker, PullDelta(w) PROVE Good
  <2>1. PICK e \in todo[w] : \E ok \in BOOLEAN :
          /\ Fetched(Landing(Dest(e[1]), e[2]), e[2], ok)
          /\ pulled' = [pulled EXCEPT ![w] = <<e, ok>>] \/ pulled' = pulled
    BY <1>2, DeltaFetches
  <2>2. PICK ok \in BOOLEAN :
          /\ Fetched(Landing(Dest(e[1]), e[2]), e[2], ok)
          /\ pulled' = [pulled EXCEPT ![w] = <<e, ok>>] \/ pulled' = pulled
    BY <2>1
  <2>3. pulled'[v] = pulled[v] \/ pulled'[v] = <<e, ok>> BY <2>2 DEF IndInv, TypeOK
  <2>4. CASE pulled'[v] = <<e, ok>>
    <3>1. n = e[1] /\ s = e[2] BY <2>4
    <3> QED BY <2>2, <3>1 DEF Fetched
  <2> QED BY <1>1, <2>3, <2>4
<1>3. ASSUME NEW w \in Worker, MarkSyncResult(w) PROVE Good
  <2>1. pulled'[v] = pulled[v] \/ pulled'[v] = None
    BY <1>3 DEF MarkSyncResult, IndInv, TypeOK
  <2> QED BY <1>1, <2>1
<1>4. CASE Crash BY <1>4 DEF Crash
<1>5. CASE pulled' = pulled BY <1>1, <1>5
<1> QED BY <1>2, <1>3, <1>4, <1>5 DEF Next, PeriodicSync, WebhookSync, List, ImportRemote,
          ImportFromPeer, SaveEntry, SaveFails, AdminRemove, DeleteLocalFiles, WriteByHand, vars

LEMMA OkStep == IndInv /\ [Next]_vars => OkIsThere'
<1> SUFFICES ASSUME IndInv, [Next]_vars, NEW n \in Place,
                    rows'[n] # None, rows'[n].status = "ok", n \notin rekeyed',
                    NEW u, u = rows'[n].url
             PROVE  Placed(Landing(Dest(n), u), u)'
  BY DEF OkIsThere, Placed, Clash
<1> DEFINE Good == Placed(Landing(Dest(n), u), u)'
<1>1. ASSUME u \in Source, Placed(Landing(Dest(n), u), u) PROVE Good
  <2>1. Landing(Dest(n), u) \in Place BY <1>1, LandingPlace, DestPlace
  <2> QED BY <1>1, <2>1, PlacedStep
<1>2. ASSUME rows[n] # None, rows[n].status = "ok", n \notin rekeyed, u = rows[n].url
      PROVE  Good
  <2>1. u \in Source BY <1>2 DEF IndInv, TypeOK, Row
  <2>2. Placed(Landing(Dest(n), u), u) BY <1>2 DEF IndInv, OkIsThere, Placed
  <2> QED BY <1>1, <2>1, <2>2
<1>3. ASSUME NEW w \in Worker, MarkSyncResult(w) PROVE Good
  <2> DEFINE m == pulled[w][1][1]
             s == pulled[w][1][2]
  <2>1. pulled[w] \in Listed \X BOOLEAN /\ m \in Place /\ s \in Source
    BY <1>3 DEF MarkSyncResult, IndInv, TypeOK, Listed
  <2>2. CASE UNCHANGED <<rows, rekeyed>> BY <1>2, <2>2
  <2>3. CASE /\ rows[m] # None
             /\ rows' = [rows EXCEPT ![m].status = IF pulled[w][2] THEN "ok" ELSE "error"]
             /\ rekeyed' = IF rows[m].url = s THEN rekeyed \ {m} ELSE rekeyed \cup {m}
    <3>1. CASE n = m
      <4>1. rows[n].url = s BY <2>3, <3>1
      <4>2. rows'[n] = [rows[n] EXCEPT !.status = IF pulled[w][2] THEN "ok" ELSE "error"]
        BY <2>3, <3>1 DEF IndInv, TypeOK
      <4>3. rows[n] \in Row BY <2>3, <3>1 DEF IndInv, TypeOK
      <4>4. u = s /\ pulled[w][2] BY <4>1, <4>2, <4>3 DEF Row
      <4>5. Placed(Landing(Dest(n), s), s)
        BY <1>3, <3>1, <4>4 DEF MarkSyncResult, IndInv, ResultsPlaced
      <4> QED BY <1>1, <2>1, <4>4, <4>5
    <3>2. CASE n # m
      <4>1. rows'[n] = rows[n] BY <2>3, <3>2 DEF IndInv, TypeOK
      <4>2. n \notin rekeyed BY <2>3, <3>2
      <4> QED BY <1>2, <4>1, <4>2
    <3> QED BY <3>1, <3>2
  <2> QED BY <1>3, <2>2, <2>3 DEF MarkSyncResult
<1>4. ASSUME NEW r \in Request, SaveEntry(r) PROVE Good
  <2> DEFINE m == task[r].name
             s == task[r].url
  <2>1. m \in Place /\ s \in Source BY <1>4 DEF SaveEntry, IndInv, TypeOK, Task, SaveTask
  <2>2. CASE n = m
    <3>1. rows'[n] = [url |-> s, status |-> IF rows[n] = None THEN "pending" ELSE rows[n].status]
      BY <1>4, <2>2 DEF SaveEntry, AddStartupSync, IndInv, TypeOK
    <3>2. rows[n] # None /\ rows[n].status = "ok" BY <3>1
    <3>3. u = s /\ rows[n].url = s /\ n \notin rekeyed
      BY <1>4, <2>2, <3>1, <3>2 DEF SaveEntry, AddStartupSync
    <3> QED BY <1>2, <3>2, <3>3
  <2>3. CASE n # m
    <3>1. rows'[n] = rows[n] /\ n \notin rekeyed
      BY <1>4, <2>3 DEF SaveEntry, AddStartupSync, IndInv, TypeOK
    <3> QED BY <1>2, <3>1
  <2> QED BY <2>2, <2>3
<1>5. ASSUME NEW r \in Request, NEW m \in Place, NEW d \in BOOLEAN, AdminRemove(r, m, d)
      PROVE  Good
  <2>1. n # m BY <1>5 DEF AdminRemove, IndInv, TypeOK
  <2>2. rows'[n] = rows[n] /\ n \notin rekeyed BY <1>5, <2>1 DEF AdminRemove, IndInv, TypeOK
  <2> QED BY <1>2, <2>2
<1>6. CASE UNCHANGED <<rows, rekeyed>> BY <1>2, <1>6
<1> QED BY <1>3, <1>4, <1>5, <1>6 DEF Next, PeriodicSync, WebhookSync, List, PullDelta,
          ImportRemote, ImportFromPeer, SaveFails, DeleteLocalFiles, WriteByHand, Crash, vars, history

(* Who becomes gone had nobody about to write there, and an import that    *)
(* makes somebody so takes those above from the history.                   *)
LEMMA GoneOrigin ==
  ASSUME IndInv, [Next]_vars, NEW p \in gone'
  PROVE  p \in Place /\ ~Destined(p)
<1>1. \A q \in gone : q \in Place /\ ~Destined(q) BY DEF IndInv, TypeOK, NobodyDestined
<1>2. ASSUME NEW r \in Request, DeleteLocalFiles(r) PROVE p \in Place /\ ~Destined(p)
  <2>1. task[r].name \in Place BY <1>2, DeleteEffect
  <2>2. p \in gone \/ (p = task[r].name /\ ~Destined(task[r].name)) BY <1>2, DeleteEffect
  <2>3. CASE p \in gone BY <1>1, <2>3
  <2>4. CASE p = task[r].name /\ ~Destined(task[r].name) BY <2>1, <2>4
  <2> QED BY <2>2, <2>3, <2>4
<1>3. CASE gone' \subseteq gone BY <1>1, <1>3
<1>4. ASSUME NEW r \in Request, NEW n, NEW s, NEW ok, NEW save, Then(r, ok, save, n, s)
      PROVE  gone' \subseteq gone
  BY <1>4 DEF Then
<1>5. ASSUME NEW q, NEW x, WriteByHand(q, x) PROVE gone' \subseteq gone BY <1>5 DEF WriteByHand
<1> QED BY <1>2, <1>3, <1>4, <1>5 DEF Next, PeriodicSync, WebhookSync, List, PullDelta, MarkSyncResult,
          ImportRemote, ImportFromPeer, SaveEntry, SaveFails, AdminRemove, Crash, vars, history

LEMMA DestinedStep == IndInv /\ [Next]_vars => NobodyDestined'
<1> SUFFICES ASSUME IndInv, [Next]_vars, NEW p \in gone', Destined(p)' PROVE FALSE
  BY DEF NobodyDestined
<1>1. p \in Place /\ ~Destined(p) BY GoneOrigin
<1>2. PICK e \in Expected' : Landing(Dest(e[1]), e[2]) \in Below(p) BY DEF Destined
<1>3. e \notin Expected BY <1>1, <1>2 DEF Destined
<1>4. PICK n \in Place, s \in Source :
        /\ e = <<n, s>>
        /\ gone' \cap (Above(n) \cup Above(Landing(Dest(n), s))) = {}
  BY <1>3, ExpectedStep
<1>5. Landing(Dest(n), s) \in Place BY LandingPlace, DestPlace
<1>6. p \in Above(Landing(Dest(n), s)) BY <1>1, <1>2, <1>4, <1>5, Nesting
<1> QED BY <1>4, <1>6

LEMMA GoneStep == IndInv /\ [Next]_vars => GoneStaysGone'
<1> SUFFICES ASSUME IndInv, [Next]_vars, NEW p \in gone', NEW q \in Below(p)
             PROVE  files'[q] = {}
  BY DEF GoneStaysGone
<1>1. p \in Place /\ ~Destined(p) BY GoneOrigin
<1>2. q \in Place BY <1>1, Nesting
<1>3. p \in gone => files[q] = {} BY DEF IndInv, GoneStaysGone
<1>4. ASSUME NEW w \in Worker, PullDelta(w) PROVE files'[q] = {}
  <2>1. PICK e \in todo[w] : \E ok \in BOOLEAN :
          e \in Expected /\ Fetched(Landing(Dest(e[1]), e[2]), e[2], ok)
    BY <1>4, DeltaFetches
  <2>2. q # Landing(Dest(e[1]), e[2]) BY <1>1, <2>1 DEF Destined
  <2>3. p \in gone BY <1>4 DEF PullDelta
  <2> QED BY <1>2, <1>3, <2>1, <2>2, <2>3 DEF Fetched
<1>5. ASSUME NEW r \in Request, NEW n \in Name, NEW s \in Source, NEW ok \in BOOLEAN,
             NEW save \in BOOLEAN,
             ImportRemote(r, n, s, ok, save) \/ ImportFromPeer(r, n, s, ok, save)
      PROVE files'[q] = {}
  <2>1. PICK l \in Place : Fetched(l, s, ok) /\ Then(r, ok, save, l, s)
    BY <1>5, ImportFetches
  <2>2. p \in gone /\ p \notin Above(l) BY <2>1 DEF Then
  <2>3. q # l BY <1>1, <2>2, Nesting
  <2> QED BY <1>2, <1>3, <2>1, <2>2, <2>3 DEF Fetched
<1>6. ASSUME NEW r \in Request, DeleteLocalFiles(r) PROVE files'[q] = {}
  <2> DEFINE n == task[r].name
  <2>1. CASE p \in gone
    <3>1. files'[q] \subseteq files[q] BY <1>2, <1>6, DeleteEffect
    <3> QED BY <1>3, <2>1, <3>1
  <2>2. CASE p \notin gone
    <3>1. p = n /\ \A x \in Removed(n) : files'[x] = {} BY <1>6, <2>2, DeleteEffect
    <3> QED BY <3>1 DEF Removed
  <2> QED BY <2>1, <2>2
<1>7. ASSUME NEW m \in Written, NEW x, WriteByHand(m, x) PROVE files'[q] = {}
  <2>1. m \in Place BY FolderAssumption
  <2>2. p \in gone /\ p \notin Above(m) BY <1>7 DEF WriteByHand
  <2>3. q # m BY <1>1, <2>1, <2>2, Nesting
  <2> QED BY <1>2, <1>3, <1>7, <2>2, <2>3 DEF WriteByHand, IndInv, TypeOK
<1>8. CASE UNCHANGED <<files, gone>> BY <1>3, <1>8
<1> QED BY <1>4, <1>5, <1>6, <1>7, <1>8 DEF Next, PeriodicSync, WebhookSync, List, MarkSyncResult,
          SaveEntry, SaveFails, AdminRemove, Crash, vars, disk, history

LEMMA KeptStep ==
  IndInv /\ [Next]_vars =>
    [\A p \in cloned \cap cloned' :
       /\ Own \in files[p] => Own \in files'[p]
       /\ Edit \in files[p] => Edit \in files'[p] \/ PulledTo(p)]_vars
<1> SUFFICES ASSUME IndInv, [Next]_vars, NEW p \in cloned, p \in cloned'
             PROVE  /\ Own \in files[p] => Own \in files'[p]
                    /\ Edit \in files[p] => Edit \in files'[p] \/ PulledTo(p)
  OBVIOUS
<1> DEFINE Kept == /\ Own \in files[p] => Own \in files'[p]
                   /\ Edit \in files[p] => Edit \in files'[p] \/ PulledTo(p)
<1>1. p \in Place /\ p \in Dir BY DEF IndInv, TypeOK, RightPlaces
<1>2. ASSUME NEW w \in Worker, PullDelta(w) PROVE Kept
  <2>1. PICK e \in todo[w] : \E ok \in BOOLEAN :
          /\ e \in Listed
          /\ Fetched(Landing(Dest(e[1]), e[2]), e[2], ok)
          /\ todo' = [todo EXCEPT ![w] = @ \ {e}]
    BY <1>2, DeltaFetches
  <2>2. Spared(p, Landing(Dest(e[1]), e[2])) BY <2>1 DEF Fetched
  <2>3. e \in todo[w] \ todo'[w] BY <2>1 DEF IndInv, TypeOK
  <2>4. p = Landing(Dest(e[1]), e[2]) => PulledTo(p) BY <1>2, <2>1, <2>3 DEF PulledTo
  <2> QED BY <2>2, <2>4 DEF Spared
<1>3. ASSUME NEW r \in Request, NEW n \in Name, NEW s \in Source, NEW ok \in BOOLEAN,
             NEW save \in BOOLEAN,
             ImportRemote(r, n, s, ok, save) \/ ImportFromPeer(r, n, s, ok, save)
      PROVE Kept
  <2>1. n \in Place BY FolderAssumption DEF Place
  <2>2. p = n => PulledTo(p) BY <1>3 DEF PulledTo
  <2>3. CASE ImportRemote(r, n, s, ok, save)
    <3>1. Fetched(Landing(n, s), s, ok)
      BY <2>1, <2>3, PullFetches, FolderAssumption DEF ImportRemote, IndInv
    <3>2. p = Landing(n, s) => p = n BY <1>1, <2>1, LandingPlace, FolderAssumption
    <3> QED BY <2>2, <3>1, <3>2 DEF Fetched, Spared
  <2>4. CASE ImportFromPeer(r, n, s, ok, save)
    <3>1. Fetched(n, s, ok) BY <2>1, <2>4, PeerFetches DEF ImportFromPeer, IndInv
    <3> QED BY <2>2, <3>1 DEF Fetched, Spared
  <2> QED BY <1>3, <2>3, <2>4
<1>4. ASSUME NEW r \in Request, DeleteLocalFiles(r) PROVE Kept
  <2>1. p \notin Removed(task[r].name) BY <1>4 DEF DeleteLocalFiles
  <2> QED BY <1>1, <1>4, <2>1, DeleteEffect
<1>5. ASSUME NEW m \in Written, NEW x, WriteByHand(m, x) PROVE Kept
  BY <1>1, <1>5 DEF WriteByHand, IndInv, TypeOK
<1>6. ASSUME UNCHANGED files PROVE Kept BY <1>6
<1> HIDE DEF Kept
<1>7. Kept
  BY <1>2, <1>3, <1>4, <1>5, <1>6 DEF Next, PeriodicSync, WebhookSync, List, MarkSyncResult,
     SaveEntry, SaveFails, AdminRemove, Crash, vars, disk
<1> QED BY <1>7 DEF Kept

----------------------------------------------------------------------------
(* The theorems.                                                           *)

LEMMA Inductive == Spec => []IndInv
<1>1. IndInv /\ [Next]_vars => IndInv'
  BY TypeStep, RightPlacesStep, RepositoriesStep, OriginsStep, ResultsStep, OkStep, DestinedStep, GoneStep
     DEF IndInv
<1> QED BY InitHolds, <1>1, PTL DEF Spec

(* The types of the folders, the list and what is under way.               *)
THEOREM TypeCorrect == Spec => []TypeOK
<1>1. IndInv => TypeOK BY DEF IndInv
<1> QED BY Inductive, <1>1, PTL

(* What the list shows as "ok" is on disk where syncs put it, whatever     *)
(* imports, removals and overlapping syncs did, but for the three named    *)
(* ways to lose it.                                                        *)
THEOREM OkIsThereHolds == Spec => []OkIsThere
<1>1. IndInv => OkIsThere BY DEF IndInv
<1> QED BY Inductive, <1>1, PTL

(* What was removed with its files, while nobody was about to write there, *)
(* does not come back.                                                     *)
THEOREM GoneStaysGoneHolds == Spec => []GoneStaysGone
<1>1. IndInv => GoneStaysGone BY DEF IndInv
<1> QED BY Inductive, <1>1, PTL

(* A folder that was cloned to keeps what the operator writes there until  *)
(* he removes it or a clone above it, but for what a pull to that folder   *)
(* overwrites.                                                             *)
THEOREM KeptOnceClonedHolds == Spec => KeptOnceCloned
<1> QED BY Inductive, KeptStep, PTL DEF Spec, KeptOnceCloned

=============================================================================
