------------------------ MODULE Verification_proofs ------------------------
(***************************************************************************)
(* Badges for any number of articles, keys, contributors and callers of    *)
(* Reload and UpdateFiles.                                                 *)
(***************************************************************************)
EXTENDS Verification, TLAPS

USE VerificationAssumption, NoneAssumption
USE DEF sources, locals, history, Put

(* Only the holder of Store.mu is in a call.                               *)
LockInv == \A w \in Worker : Busy(w) => mu = w

(* What changed during a call is stale.                                    *)
MovedInv ==
  \A w \in Worker : moved[w] \subseteq stale /\ (~Busy(w) => moved[w] = {})

HasKeys(w) == pc[w] \in {"signatures", "article"}

(* What has been read in a call and has not changed since is what is there *)
(* now.                                                                    *)
ReadInv ==
  \A w \in Worker : \A f \in File \ moved[w] :
    /\ HasKeys(w) => keys[w] \in TrustedKeys(Trusted)
    /\ pc[w] = "article" => sigs[w][f] = manifest[f]
    /\ pc[w] = "article" /\ kind[w] = "reload" /\ f \notin todo[w] =>
         newNav[w][f] = ProcessArticle(files[f], sigs[w][f], keys[w])

(* A badge on a is owed to the entry e and a contributor of the call.      *)
Owed(w, e, a) ==
  a # None /\ a.state = "verified" =>
    \E s \in Spelling : Lower[s] = Lower[e.key] /\ <<s, a.author>> \in since[w]

JudgedInv ==
  \A w \in Worker :
    /\ pc[w] = "trust" => ListContributors \subseteq since[w]
    /\ HasKeys(w) =>
         \A k \in Key : keys[w][k] # None =>
           \E s \in Spelling : Lower[s] = k /\ <<s, keys[w][k]>> \in since[w]
    /\ pc[w] = "article" => \A f \in File : Owed(w, sigs[w][f], newNav[w][f])

(* An update has keys for a path; only a reload that has keys has walked.  *)
WalkInv ==
  \A w \in Worker :
    /\ kind[w] = "update" /\ (HasKeys(w) \/ pc[w] = "trust") => at[w] \in File
    /\ ~Busy(w) \/ kind[w] = "update" \/ pc[w] # "article" => newNav[w] = NoArticles
    /\ pc[w] = "path" => kind[w] = "update"
    /\ kind[w] = "reload" /\ pc[w] \in {"trust", "signatures"} => todo[w] = File

IndInv == LockInv /\ MovedInv /\ ReadInv /\ JudgedInv /\ WalkInv /\ VerdictsCurrent

----------------------------------------------------------------------------
(* The verdict of one article.                                             *)

LEMMA ProcessArticleType ==
  ASSUME NEW b \in Body \cup {None}, NEW e \in Entry \cup {None},
         NEW t \in [Key -> Name \cup {None}]
  PROVE  ProcessArticle(b, e, t) \in Article \cup {None}
<1>1. ReadState(b, e, t) \in State
  BY DEF ReadState, State
<1>2. ReadState(b, e, t) = "verified" => e # None /\ t[Lower[e.key]] # None
  BY DEF ReadState
<1>3. e # None => Lower[e.key] \in Key
  BY DEF EntryType
<1> QED BY <1>1, <1>2, <1>3 DEF ProcessArticle, Article

LEMMA BadgeNeedsKey ==
  ASSUME NEW b \in Body \cup {None}, NEW e \in Entry \cup {None},
         NEW t \in [Key -> Name \cup {None}],
         ProcessArticle(b, e, t) # None, ProcessArticle(b, e, t).state = "verified"
  PROVE  /\ e # None /\ Lower[e.key] \in Key
         /\ t[Lower[e.key]] # None
         /\ ProcessArticle(b, e, t).author = t[Lower[e.key]]
<1>1. ReadState(b, e, t) = "verified"
  BY DEF ProcessArticle
<1>2. e # None /\ t[Lower[e.key]] # None
  BY <1>1 DEF ReadState
<1>3. Lower[e.key] \in Key
  BY <1>2 DEF EntryType
<1> QED BY <1>1, <1>2, <1>3 DEF ProcessArticle

LEMMA VerdictType ==
  ASSUME TypeOK, NEW w \in Worker, NEW f \in File
  PROVE  ProcessArticle(files[f], sigs[w][f], keys[w]) \in Article \cup {None}
<1>1. /\ files[f] \in Body \cup {None}
      /\ sigs[w] \in [File -> Entry \cup {None}]
      /\ keys[w] \in [Key -> Name \cup {None}]
  BY DEF TypeOK
<1>2. sigs[w][f] \in Entry \cup {None}
  BY <1>1
<1> QED BY <1>1, <1>2, ProcessArticleType

LEMMA TrustedType ==
  ASSUME TypeOK
  PROVE  /\ Trusted \subseteq Key \X Name
         /\ ListContributors \subseteq Spelling \X Name
BY DEF TypeOK, Trusted, ListContributors, Row

(* Whoever has the badge's key in a map of trusted keys is on the list.    *)
LEMMA TrustedIsListed ==
  ASSUME TypeOK, NEW rows \in SUBSET Trusted, NEW t \in TrustedKeys(rows),
         NEW k \in Key, t[k] # None
  PROVE  \E s \in Spelling : Lower[s] = k /\ <<s, t[k]>> \in ListContributors
<1>1. <<k, t[k]>> \in Trusted
  BY DEF TrustedKeys
<1>2. PICK s \in Spelling : /\ authors[s] # None /\ ~authors[s].revoked
                            /\ <<k, t[k]>> = <<Lower[s], authors[s].name>>
  BY <1>1 DEF Trusted
<1>3. <<s, t[k]>> \in ListContributors
  BY <1>2 DEF ListContributors
<1> QED BY <1>2, <1>3

----------------------------------------------------------------------------
(* Types.                                                                  *)

LEMMA TypeInit ==
  ASSUME Init
  PROVE  TypeOK
<1>1. authors \in [Spelling -> Row \cup {None}]
  BY DEF Init, Row
<1>2. /\ pc \in [Worker -> Step] /\ at \in [Worker -> File \cup {None}]
      /\ newNav \in [Worker -> [File -> Article \cup {None}]]
      /\ index \in [File -> Article \cup {None}]
  BY DEF Init, Step, NoArticles
<1> QED BY <1>1, <1>2 DEF Init, TypeOK, NobodyTrusted, NothingSigned

LEMMA TypeSetAuthor ==
  ASSUME TypeOK, NEW s \in Spelling, NEW row \in Row, SetAuthor(s, row)
  PROVE  TypeOK'
<1>1. authors' \in [Spelling -> Row \cup {None}]
  BY DEF SetAuthor, TypeOK
<1>2. (ListContributors \subseteq Spelling \X Name)'
  BY <1>1 DEF ListContributors, Row
<1> QED BY <1>1, <1>2 DEF SetAuthor, Touch, TypeOK

LEMMA TypeNext ==
  ASSUME TypeOK, [Next]_vars
  PROVE  TypeOK'
<1>1. ASSUME NEW f \in File, NEW b \in Body \cup {None}, WriteFile(f, b) PROVE TypeOK'
  BY <1>1 DEF WriteFile, Touch, TypeOK
<1>2. ASSUME NEW f \in File, NEW e \in Entry \cup {None}, Sign(f, e) PROVE TypeOK'
  BY <1>2 DEF Sign, Touch, TypeOK
<1>3. ASSUME NEW s \in Spelling, NEW n \in Name, AddContributor(s, n) PROVE TypeOK'
  BY <1>3, TypeSetAuthor DEF AddContributor, Row
<1>4. ASSUME NEW s \in Spelling, RevokeContributor(s) PROVE TypeOK'
  <2>1. [name |-> authors[s].name, revoked |-> TRUE] \in Row
    BY <1>4 DEF RevokeContributor, TypeOK, Row
  <2> QED BY <1>4, <2>1, TypeSetAuthor DEF RevokeContributor
<1>5. ASSUME NEW w \in Worker, Reload(w) PROVE TypeOK'
  BY <1>5, TrustedType DEF Reload, TypeOK, Step
<1>6. ASSUME NEW w \in Worker, WalkArticle(w) PROVE TypeOK'
  <2>1. PICK f \in todo[w] :
          \/ newNav' = [newNav EXCEPT ![w][f] = ProcessArticle(files[f], sigs[w][f], keys[w])]
          \/ newNav' = newNav
    BY <1>6 DEF WalkArticle
  <2>2. f \in File
    BY DEF TypeOK
  <2>3. ProcessArticle(files[f], sigs[w][f], keys[w]) \in Article \cup {None}
    BY <2>2, VerdictType
  <2>4. newNav' \in [Worker -> [File -> Article \cup {None}]]
    <3>1. newNav \in [Worker -> [File -> Article \cup {None}]]
      BY DEF TypeOK
    <3> QED BY <2>1, <2>2, <2>3, <3>1
  <2>5. /\ todo' \in [Worker -> SUBSET File]
        /\ moved' \in [Worker -> SUBSET File] /\ stale' \subseteq File
    <3>1. /\ todo \in [Worker -> SUBSET File]
          /\ moved \in [Worker -> SUBSET File] /\ stale \subseteq File
      BY DEF TypeOK
    <3> QED BY <1>6, <3>1 DEF WalkArticle, Missed
  <2> QED BY <1>6, <2>4, <2>5 DEF WalkArticle, TypeOK
<1>7. ASSUME NEW w \in Worker, Install(w) PROVE TypeOK'
  BY <1>7 DEF Install, Return, TypeOK, Step, NobodyTrusted, NothingSigned, NoArticles
<1>8. ASSUME NEW w \in Worker, RemoveArticle(w) PROVE TypeOK'
  BY <1>8, TrustedType DEF RemoveArticle, NextStep, TypeOK, Step
<1>9. ASSUME NEW w \in Worker, IndexArticle(w), at[w] \in File PROVE TypeOK'
  <2>1. ProcessArticle(files[at[w]], sigs[w][at[w]], keys[w]) \in Article \cup {None}
    BY <1>9, VerdictType
  <2>2. index' \in [File -> Article \cup {None}] /\ stale' \subseteq File
    <3>1. index \in [File -> Article \cup {None}] /\ stale \subseteq File
      BY DEF TypeOK
    <3> QED BY <1>9, <2>1, <3>1 DEF IndexArticle
  <2> QED BY <1>9, <2>2 DEF IndexArticle, TypeOK, Step
<1>10. ASSUME NEW w \in Worker, EndUpdate(w) PROVE TypeOK'
  BY <1>10 DEF EndUpdate, Return, TypeOK, Step, NobodyTrusted, NothingSigned, NoArticles
<1>11. ASSUME NEW w \in Worker, LoadTrusted(w) PROVE TypeOK'
  BY <1>11 DEF LoadTrusted, Missed, TrustedKeys, TypeOK, Step
<1>12. ASSUME NEW w \in Worker, LoadSignatures(w) PROVE TypeOK'
  BY <1>12 DEF LoadSignatures, Missed, TypeOK, Step
<1>13. ASSUME NEW w \in Worker, NEW F \in SUBSET File, UpdateFiles(w, F) PROVE TypeOK'
  BY <1>13 DEF UpdateFiles, TypeOK, Step
<1>14. CASE Crash
  BY <1>14 DEF Crash, TypeOK, Step, NobodyTrusted, NothingSigned, NoArticles
<1>15. CASE UNCHANGED vars
  BY <1>15 DEF vars, TypeOK
<1>16. ASSUME NEW w \in Worker, IndexArticle(w), at[w] \notin File PROVE TypeOK'
  <2>1. index' = index
    BY <1>16 DEF IndexArticle, TypeOK
  <2>2. stale' \subseteq stale
    BY <1>16 DEF IndexArticle
  <2> QED BY <1>16, <2>1, <2>2 DEF IndexArticle, TypeOK, Step
<1> QED BY <1>1, <1>2, <1>3, <1>4, <1>5, <1>6, <1>7, <1>8, <1>9, <1>10, <1>11, <1>12, <1>13, <1>14,
           <1>15, <1>16 DEF Next

----------------------------------------------------------------------------
(* The invariant.                                                          *)

LEMMA InitInv ==
  ASSUME TypeOK, Init
  PROVE  IndInv
BY DEF Init, IndInv, LockInv, MovedInv, ReadInv, JudgedInv, WalkInv, VerdictsCurrent, Busy, HasKeys

(* A change of the files in F, or of the contributors, which concerns them *)
(* all.                                                                    *)
LEMMA TouchStep ==
  ASSUME TypeOK, IndInv, NEW F \in SUBSET File, Touch(F),
         \A f \in File \ F : files'[f] = files[f] /\ manifest'[f] = manifest[f],
         F # File => authors' = authors,
         \A w \in Worker : Busy(w) =>
           /\ since[w] \subseteq since'[w]
           /\ ListContributors \subseteq since[w] => ListContributors' \subseteq since'[w]
  PROVE  IndInv'
<1>1. \A w \in Worker : moved'[w] = IF Busy(w) THEN moved[w] \cup F ELSE {}
  BY DEF Touch
<1>2. stale' = stale \cup F
  BY DEF Touch
<1>3. UNCHANGED <<index, mu, pc, kind, todo, at, keys, sigs, newNav>>
  BY DEF Touch
<1>4. F # File => Trusted' = Trusted
  BY DEF Trusted
<1>5. ASSUME NEW f \in File \ F, NEW t PROVE
        /\ F # File
        /\ Trusted' = Trusted
        /\ TrustedKeys(Trusted') = TrustedKeys(Trusted)
        /\ files'[f] = files[f] /\ manifest'[f] = manifest[f]
  BY <1>4, <1>5
<1>6. LockInv'
  BY <1>3 DEF IndInv, LockInv, Busy
<1>7. MovedInv'
  BY <1>1, <1>2, <1>3 DEF IndInv, MovedInv, Busy
<1>8. ReadInv'
  <2> SUFFICES ASSUME NEW w \in Worker, NEW f \in File, f \notin moved'[w]
               PROVE  /\ HasKeys(w) => keys[w] \in TrustedKeys(Trusted')
                      /\ pc[w] = "article" => sigs[w][f] = manifest'[f]
                      /\ pc[w] = "article" /\ kind[w] = "reload" /\ f \notin todo[w] =>
                           newNav[w][f] = ProcessArticle(files'[f], sigs[w][f], keys[w])
    BY <1>3 DEF ReadInv, HasKeys
  <2>1. CASE Busy(w)
    <3>1. f \in File \ F /\ f \in File \ moved[w]
      BY <2>1, <1>1
    <3> QED BY <3>1, <1>5 DEF IndInv, ReadInv
  <2>2. CASE ~Busy(w)
    BY <2>2 DEF Busy, HasKeys
  <2> QED BY <2>1, <2>2
<1>9. JudgedInv'
  <2>1. \A w \in Worker : Busy(w) => \A e, a : Owed(w, e, a) => Owed(w, e, a)'
    BY DEF Owed
  <2> SUFFICES ASSUME NEW w \in Worker, Busy(w)
               PROVE  /\ pc[w] = "trust" => ListContributors' \subseteq since'[w]
                      /\ HasKeys(w) =>
                           \A k \in Key : keys[w][k] # None =>
                             \E s \in Spelling : Lower[s] = k /\ <<s, keys[w][k]>> \in since'[w]
                      /\ pc[w] = "article" =>
                           \A f \in File : Owed(w, sigs[w][f], newNav[w][f])'
    BY <1>3 DEF JudgedInv, HasKeys, Busy
  <2>2. /\ pc[w] = "trust" => ListContributors \subseteq since[w]
        /\ HasKeys(w) =>
             \A k \in Key : keys[w][k] # None =>
               \E s \in Spelling : Lower[s] = k /\ <<s, keys[w][k]>> \in since[w]
        /\ pc[w] = "article" => \A f \in File : Owed(w, sigs[w][f], newNav[w][f])
    BY DEF IndInv, JudgedInv
  <2>3. pc[w] = "article" => \A f \in File : Owed(w, sigs[w][f], newNav[w][f])'
    BY <2>2, <1>3 DEF Owed
  <2> QED BY <2>2, <2>3
<1>10. WalkInv'
  BY <1>3 DEF IndInv, WalkInv, HasKeys, Busy
<1>11. VerdictsCurrent'
  <2> SUFFICES ASSUME NEW f \in File, f \notin stale'
               PROVE  \E t \in TrustedKeys(Trusted') :
                        index[f] = ProcessArticle(files'[f], manifest'[f], t)
    BY <1>3 DEF VerdictsCurrent
  <2>1. f \in File \ F /\ f \in File \ stale
    BY <1>2
  <2> QED BY <2>1, <1>5 DEF IndInv, VerdictsCurrent
<1> QED BY <1>6, <1>7, <1>8, <1>9, <1>10, <1>11 DEF IndInv

LEMMA SetAuthorStep ==
  ASSUME TypeOK, IndInv, NEW s \in Spelling, NEW row, SetAuthor(s, row)
  PROVE  IndInv'
<1>1. Touch(File) /\ UNCHANGED <<files, manifest>>
  BY DEF SetAuthor
<1>2. \A w \in Worker : Busy(w) => since'[w] = since[w] \cup ListContributors'
  BY DEF SetAuthor
<1> QED BY <1>1, <1>2, TouchStep

LEMMA ChangeStep ==
  ASSUME TypeOK, IndInv,
         \/ \E f \in File, b \in Body \cup {None} : WriteFile(f, b)
         \/ \E f \in File, e \in Entry \cup {None} : Sign(f, e)
         \/ \E s \in Spelling, n \in Name : AddContributor(s, n)
         \/ \E s \in Spelling : RevokeContributor(s)
  PROVE  IndInv'
<1>1. ASSUME NEW f \in File, NEW b \in Body \cup {None}, WriteFile(f, b) PROVE IndInv'
  <2>1. Touch({f}) /\ UNCHANGED <<manifest, authors, since>>
    BY <1>1 DEF WriteFile
  <2>2. \A g \in File \ {f} : files'[g] = files[g]
    BY <1>1 DEF WriteFile, TypeOK
  <2>3. ListContributors' = ListContributors
    BY <2>1 DEF ListContributors
  <2> QED BY <2>1, <2>2, <2>3, TouchStep
<1>2. ASSUME NEW f \in File, NEW e \in Entry \cup {None}, Sign(f, e) PROVE IndInv'
  <2>1. Touch({f}) /\ UNCHANGED <<files, authors, since>>
    BY <1>2 DEF Sign
  <2>2. \A g \in File \ {f} : manifest'[g] = manifest[g]
    BY <1>2 DEF Sign, TypeOK
  <2>3. ListContributors' = ListContributors
    BY <2>1 DEF ListContributors
  <2> QED BY <2>1, <2>2, <2>3, TouchStep
<1>3. ASSUME NEW s \in Spelling, NEW n \in Name, AddContributor(s, n) PROVE IndInv'
  BY <1>3, SetAuthorStep DEF AddContributor
<1>4. ASSUME NEW s \in Spelling, RevokeContributor(s) PROVE IndInv'
  BY <1>4, SetAuthorStep DEF RevokeContributor
<1> QED BY <1>1, <1>2, <1>3, <1>4

(* A step of w that changes nothing for the other workers, who are idle.   *)
LEMMA OthersIdle ==
  ASSUME TypeOK, IndInv, NEW w \in Worker, mu = w, NEW v \in Worker, v # w
  PROVE  /\ pc[v] = "idle" /\ ~Busy(v) /\ ~HasKeys(v)
         /\ newNav[v] = NoArticles
BY DEF IndInv, LockInv, WalkInv, Busy, HasKeys

LEMMA BeginStep ==
  ASSUME TypeOK, IndInv, NEW w \in Worker,
         Reload(w) \/ \E F \in SUBSET File : UpdateFiles(w, F)
  PROVE  IndInv'
<1>1. /\ mu = None /\ mu' = w
      /\ \A v \in Worker : pc[v] = "idle"
      /\ \A v \in Worker : newNav[v] = NoArticles
  BY DEF Reload, UpdateFiles, IndInv, LockInv, WalkInv, Busy
<1>2. UNCHANGED <<files, manifest, authors, index, at, keys, sigs, newNav, stale>>
  BY DEF Reload, UpdateFiles
<1>3. \A v \in Worker : pc'[v] = IF v = w THEN pc'[w] ELSE "idle"
  BY <1>1 DEF Reload, UpdateFiles, TypeOK
<1>4. \/ pc'[w] = "trust" /\ kind'[w] = "reload" /\ todo'[w] = File /\ since'[w] = ListContributors
      \/ pc'[w] = "path" /\ kind'[w] = "update"
  BY DEF Reload, UpdateFiles, TypeOK
<1>5. LockInv'
  BY <1>1, <1>3 DEF LockInv, Busy
<1>6. MovedInv'
  BY <1>1, <1>2, <1>3, <1>4 DEF Reload, UpdateFiles, IndInv, MovedInv, TypeOK, Busy
<1>7. ReadInv'
  BY <1>3, <1>4 DEF ReadInv, HasKeys
<1>8. ListContributors' = ListContributors
  BY <1>2 DEF ListContributors
<1>9. JudgedInv'
  BY <1>3, <1>4, <1>8 DEF JudgedInv, HasKeys
<1>10. WalkInv'
  BY <1>1, <1>2, <1>3, <1>4 DEF WalkInv, HasKeys, Busy
<1>11. VerdictsCurrent'
  BY <1>2 DEF IndInv, VerdictsCurrent, Trusted, TrustedKeys
<1> QED BY <1>5, <1>6, <1>7, <1>9, <1>10, <1>11 DEF IndInv

LEMMA LoadTrustedStep ==
  ASSUME TypeOK, IndInv, NEW w \in Worker, LoadTrusted(w)
  PROVE  IndInv'
<1>1. mu = w
  BY DEF LoadTrusted, IndInv, LockInv, Busy
<1>2. UNCHANGED <<files, manifest, authors, index, mu, kind, todo, at, sigs, newNav, since>>
  BY DEF LoadTrusted
<1>3. Trusted' = Trusted /\ ListContributors' = ListContributors
  BY <1>2 DEF Trusted, ListContributors
<1>13. PICK rows \in SUBSET Trusted :
        /\ \E t \in TrustedKeys(rows) : keys' = [keys EXCEPT ![w] = t]
        /\ Missed(w, IF rows = Trusted THEN {} ELSE File)
  BY DEF LoadTrusted
<1>4. PICK t \in TrustedKeys(rows) : keys' = [keys EXCEPT ![w] = t]
  BY <1>13
<1>5. /\ pc[w] = "trust" /\ pc'[w] = "signatures"
      /\ keys'[w] = t
      /\ moved'[w] = IF rows = Trusted THEN moved[w] ELSE moved[w] \cup File
      /\ \A v \in Worker \ {w} : pc'[v] = "idle" /\ moved'[v] = moved[v]
      /\ stale \subseteq stale'
      /\ rows # Trusted => stale' = stale \cup File
  BY <1>1, <1>4, <1>13, OthersIdle DEF LoadTrusted, Missed, TypeOK
<1>6. LockInv'
  BY <1>1, <1>2, <1>5 DEF LockInv, Busy
<1>7. MovedInv'
  BY <1>1, <1>5, OthersIdle DEF IndInv, MovedInv, Busy
<1>8. ReadInv'
  <2> SUFFICES ASSUME NEW f \in File, f \notin moved'[w]
               PROVE  t \in TrustedKeys(Trusted)
    BY <1>3, <1>5 DEF ReadInv, HasKeys
  <2> QED BY <1>5
<1>9. JudgedInv'
  <2>1. ListContributors \subseteq since[w]
    BY <1>5 DEF IndInv, JudgedInv
  <2>2. \A k \in Key : t[k] # None =>
          \E s \in Spelling : Lower[s] = k /\ <<s, t[k]>> \in since[w]
    BY <2>1, TrustedIsListed
  <2> QED BY <1>2, <1>5, <2>2 DEF JudgedInv, HasKeys
<1>10. WalkInv'
  <2>1. /\ kind[w] = "update" => at[w] \in File
        /\ newNav[w] = NoArticles
        /\ kind[w] = "reload" => todo[w] = File
    BY <1>5 DEF IndInv, WalkInv
  <2> QED BY <1>1, <1>2, <1>5, <2>1, OthersIdle DEF WalkInv, HasKeys, Busy
<1>11. VerdictsCurrent'
  BY <1>2, <1>3, <1>5 DEF IndInv, VerdictsCurrent
<1> QED BY <1>6, <1>7, <1>8, <1>9, <1>10, <1>11 DEF IndInv

LEMMA LoadSignaturesStep ==
  ASSUME TypeOK, IndInv, NEW w \in Worker, LoadSignatures(w)
  PROVE  IndInv'
<1>1. mu = w
  BY DEF LoadSignatures, IndInv, LockInv, Busy
<1>2. UNCHANGED <<files, manifest, authors, index, mu, kind, todo, at, keys, newNav, since>>
  BY DEF LoadSignatures
<1>3. Trusted' = Trusted /\ ListContributors' = ListContributors
  BY <1>2 DEF Trusted, ListContributors
<1>4. PICK F \in SUBSET File :
        /\ sigs' = [sigs EXCEPT ![w] = [f \in File |-> IF f \in F THEN manifest[f] ELSE None]]
        /\ Missed(w, File \ F)
  BY DEF LoadSignatures
<1>5. /\ pc[w] = "signatures" /\ pc'[w] = "article"
      /\ sigs'[w] = [f \in File |-> IF f \in F THEN manifest[f] ELSE None]
      /\ moved'[w] = moved[w] \cup (File \ F)
      /\ \A v \in Worker \ {w} : pc'[v] = "idle" /\ moved'[v] = moved[v]
      /\ stale' = stale \cup (File \ F)
  BY <1>1, <1>4, OthersIdle DEF LoadSignatures, Missed, TypeOK
<1>6. LockInv'
  BY <1>1, <1>2, <1>5 DEF LockInv, Busy
<1>7. MovedInv'
  BY <1>1, <1>5, OthersIdle DEF IndInv, MovedInv, Busy
<1>8. /\ kind[w] = "update" => at[w] \in File
      /\ newNav[w] = NoArticles
      /\ kind[w] = "reload" => todo[w] = File
  BY <1>5 DEF IndInv, WalkInv, HasKeys
<1>9. ReadInv'
  <2> SUFFICES ASSUME NEW f \in File, f \notin moved'[w]
               PROVE  /\ keys[w] \in TrustedKeys(Trusted)
                      /\ sigs'[w][f] = manifest[f]
    BY <1>2, <1>3, <1>5, <1>8 DEF ReadInv, HasKeys
  <2> QED BY <1>5 DEF IndInv, ReadInv, HasKeys
<1>10. JudgedInv'
  <2>1. \A k \in Key : keys[w][k] # None =>
          \E s \in Spelling : Lower[s] = k /\ <<s, keys[w][k]>> \in since[w]
    BY <1>5 DEF IndInv, JudgedInv, HasKeys
  <2>2. (\A f \in File : Owed(w, sigs[w][f], newNav[w][f]))'
    BY <1>2, <1>8 DEF Owed, NoArticles
  <2> QED BY <1>2, <1>5, <2>1, <2>2 DEF JudgedInv, HasKeys
<1>11. WalkInv'
  BY <1>1, <1>2, <1>5, <1>8, OthersIdle DEF WalkInv, HasKeys, Busy
<1>12. VerdictsCurrent'
  BY <1>2, <1>3, <1>5 DEF IndInv, VerdictsCurrent
<1> QED BY <1>6, <1>7, <1>9, <1>10, <1>11, <1>12 DEF IndInv

(* What a call that holds keys and signatures makes of a file.             *)
LEMMA Verdict ==
  ASSUME TypeOK, IndInv, NEW w \in Worker, pc[w] = "article", NEW f \in File
  PROVE  /\ Owed(w, sigs[w][f], ProcessArticle(files[f], sigs[w][f], keys[w]))
         /\ f \notin moved[w] =>
              \E t \in TrustedKeys(Trusted) :
                ProcessArticle(files[f], sigs[w][f], keys[w]) = ProcessArticle(files[f], manifest[f], t)
<1>1. /\ files[f] \in Body \cup {None}
      /\ sigs[w] \in [File -> Entry \cup {None}]
      /\ keys[w] \in [Key -> Name \cup {None}]
  BY DEF TypeOK
<1>2. sigs[w][f] \in Entry \cup {None}
  BY <1>1
<1>3. \A k \in Key : keys[w][k] # None =>
        \E s \in Spelling : Lower[s] = k /\ <<s, keys[w][k]>> \in since[w]
  BY DEF IndInv, JudgedInv, HasKeys
<1>4. Owed(w, sigs[w][f], ProcessArticle(files[f], sigs[w][f], keys[w]))
  <2> SUFFICES ASSUME ProcessArticle(files[f], sigs[w][f], keys[w]) # None,
                      ProcessArticle(files[f], sigs[w][f], keys[w]).state = "verified"
               PROVE  \E s \in Spelling :
                        /\ Lower[s] = Lower[sigs[w][f].key]
                        /\ <<s, ProcessArticle(files[f], sigs[w][f], keys[w]).author>> \in since[w]
    BY DEF Owed
  <2>1. /\ Lower[sigs[w][f].key] \in Key
        /\ keys[w][Lower[sigs[w][f].key]] # None
        /\ ProcessArticle(files[f], sigs[w][f], keys[w]).author = keys[w][Lower[sigs[w][f].key]]
    BY <1>1, <1>2, BadgeNeedsKey
  <2> QED BY <1>3, <2>1
<1>5. f \notin moved[w] => keys[w] \in TrustedKeys(Trusted) /\ sigs[w][f] = manifest[f]
  BY DEF IndInv, ReadInv, HasKeys
<1> QED BY <1>4, <1>5

LEMMA WalkArticleStep ==
  ASSUME TypeOK, IndInv, NEW w \in Worker, WalkArticle(w)
  PROVE  IndInv'
<1>1. mu = w /\ pc[w] = "article" /\ kind[w] = "reload"
  BY DEF WalkArticle, IndInv, LockInv, Busy
<1>2. UNCHANGED <<files, manifest, authors, index, mu, pc, kind, at, keys, sigs, since>>
  BY DEF WalkArticle
<1>3. Trusted' = Trusted /\ ListContributors' = ListContributors
  BY <1>2 DEF Trusted, ListContributors
<1>4. PICK f \in File :
        /\ todo'[w] = todo[w] \ {f}
        /\ \/ /\ newNav' =
                   [newNav EXCEPT ![w][f] = ProcessArticle(files[f], sigs[w][f], keys[w])]
              /\ Missed(w, {})
           \/ Missed(w, {f}) /\ newNav' = newNav
  BY DEF WalkArticle, TypeOK
<1>5. /\ \A v \in Worker \ {w} : moved'[v] = moved[v] /\ newNav'[v] = newNav[v]
      /\ moved[w] \subseteq moved'[w] /\ stale \subseteq stale'
      /\ moved'[w] \subseteq moved[w] \cup stale'
  BY <1>4 DEF Missed, TypeOK
<1>6. \A g \in File :
        \/ newNav'[w][g] = newNav[w][g] /\ (g # f \/ g \in moved'[w])
        \/ g = f /\ newNav'[w][g] = ProcessArticle(files[g], sigs[w][g], keys[w])
  <2>1. newNav \in [Worker -> [File -> Article \cup {None}]] /\ moved \in [Worker -> SUBSET File]
    BY DEF TypeOK
  <2> QED BY <1>4, <2>1 DEF Missed
<1>7. LockInv'
  BY <1>2 DEF IndInv, LockInv, Busy
<1>8. MovedInv'
  BY <1>1, <1>2, <1>5, OthersIdle DEF IndInv, MovedInv, Busy
<1>9. ReadInv'
  <2> SUFFICES ASSUME NEW g \in File, g \notin moved'[w]
               PROVE  /\ keys[w] \in TrustedKeys(Trusted)
                      /\ sigs[w][g] = manifest[g]
                      /\ g \notin todo'[w] =>
                           newNav'[w][g] = ProcessArticle(files[g], sigs[w][g], keys[w])
    BY <1>1, <1>2, <1>3, OthersIdle DEF ReadInv, HasKeys
  <2>1. g \notin moved[w]
    BY <1>5
  <2> QED BY <1>1, <1>4, <1>6, <2>1 DEF IndInv, ReadInv, HasKeys
<1>10. JudgedInv'
  <2>1. \A g \in File : Owed(w, sigs[w][g], newNav[w][g])
    BY <1>1 DEF IndInv, JudgedInv
  <2>2. Owed(w, sigs[w][f], ProcessArticle(files[f], sigs[w][f], keys[w]))
    BY <1>1, Verdict
  <2>3. \A g \in File : Owed(w, sigs[w][g], newNav'[w][g])
    BY <1>6, <2>1, <2>2
  <2>4. (\A g \in File : Owed(w, sigs[w][g], newNav[w][g]))'
    BY <1>2, <2>3 DEF Owed
  <2>5. \A k \in Key : keys[w][k] # None =>
          \E s \in Spelling : Lower[s] = k /\ <<s, keys[w][k]>> \in since[w]
    BY <1>1 DEF IndInv, JudgedInv, HasKeys
  <2> QED BY <1>1, <1>2, <2>4, <2>5, OthersIdle DEF JudgedInv, HasKeys
<1>11. WalkInv'
  BY <1>1, <1>2, <1>5, OthersIdle DEF WalkInv, HasKeys, Busy
<1>12. VerdictsCurrent'
  BY <1>2, <1>3, <1>5 DEF IndInv, VerdictsCurrent
<1> QED BY <1>7, <1>8, <1>9, <1>10, <1>11, <1>12 DEF IndInv

(* After a return nobody is in a call.                                     *)
LEMMA Returned ==
  ASSUME TypeOK, IndInv, NEW w \in Worker, mu = w, Return(w), UNCHANGED <<authors, files, manifest>>
  PROVE  /\ \A v \in Worker : pc'[v] = "idle" /\ newNav'[v] = NoArticles
         /\ LockInv' /\ ReadInv' /\ JudgedInv' /\ WalkInv'
<1>1. \A v \in Worker : pc'[v] = "idle" /\ newNav'[v] = NoArticles
  BY OthersIdle DEF Return, TypeOK
<1> QED BY <1>1 DEF LockInv, ReadInv, JudgedInv, WalkInv, HasKeys, Busy

LEMMA InstallStep ==
  ASSUME TypeOK, IndInv, NEW w \in Worker, Install(w)
  PROVE  IndInv'
<1>1. mu = w /\ pc[w] = "article" /\ kind[w] = "reload" /\ todo[w] = {}
  BY DEF Install, IndInv, LockInv, Busy
<1>2. UNCHANGED <<files, manifest, authors>> /\ Return(w)
  BY DEF Install
<1>3. Trusted' = Trusted
  BY <1>2 DEF Trusted
<1>4. index' = newNav[w] /\ stale' = stale \cap moved[w]
  BY DEF Install
<1>5. moved[w] \subseteq stale
  BY DEF IndInv, MovedInv
<1>6. MovedInv'
  <2> SUFFICES ASSUME NEW v \in Worker, v # w PROVE moved[v] \subseteq stale'
    BY <1>1, <1>2, OthersIdle DEF IndInv, MovedInv, Return, TypeOK
  <2> QED BY <1>1, OthersIdle DEF IndInv, MovedInv
<1>7. VerdictsCurrent'
  <2> SUFFICES ASSUME NEW f \in File, f \notin stale'
               PROVE  \E t \in TrustedKeys(Trusted) :
                        newNav[w][f] = ProcessArticle(files[f], manifest[f], t)
    BY <1>2, <1>3, <1>4 DEF VerdictsCurrent
  <2>1. f \notin moved[w]
    BY <1>4, <1>5
  <2>2. newNav[w][f] = ProcessArticle(files[f], sigs[w][f], keys[w])
    BY <1>1, <2>1 DEF IndInv, ReadInv
  <2> QED BY <1>1, <2>1, <2>2, Verdict
<1> QED BY <1>1, <1>2, <1>6, <1>7, Returned DEF IndInv

LEMMA EndUpdateStep ==
  ASSUME TypeOK, IndInv, NEW w \in Worker, EndUpdate(w)
  PROVE  IndInv'
<1>1. mu = w
  BY DEF EndUpdate, IndInv, LockInv, Busy
<1>2. UNCHANGED <<files, manifest, authors, index, stale>> /\ Return(w)
  BY DEF EndUpdate
<1>3. MovedInv'
  BY <1>1, <1>2, OthersIdle DEF IndInv, MovedInv, Return, TypeOK, Busy
<1>4. VerdictsCurrent'
  BY <1>2 DEF IndInv, VerdictsCurrent, Trusted, TrustedKeys
<1> QED BY <1>1, <1>2, <1>3, <1>4, Returned DEF IndInv

LEMMA RemoveArticleStep ==
  ASSUME TypeOK, IndInv, NEW w \in Worker, RemoveArticle(w)
  PROVE  IndInv'
<1>1. mu = w /\ pc[w] = "path"
  BY DEF RemoveArticle, IndInv, LockInv, Busy
<1>2. UNCHANGED <<files, manifest, authors, mu, kind, keys, sigs, newNav>>
  BY DEF RemoveArticle
<1>3. Trusted' = Trusted /\ ListContributors' = ListContributors
  BY <1>2 DEF Trusted, ListContributors
<1>4. PICK f \in File :
        /\ at'[w] = f
        /\ index' = [index EXCEPT ![f] = None]
        /\ stale' = stale \cup {f}
  BY DEF RemoveArticle, TypeOK
<1>5. /\ pc'[w] = "trust" /\ moved'[w] = {} /\ since'[w] = ListContributors
      /\ \A v \in Worker \ {w} :
           pc'[v] = "idle" /\ moved'[v] = moved[v] /\ newNav'[v] = NoArticles
  BY <1>1, OthersIdle DEF RemoveArticle, NextStep, TypeOK
<1>6. kind[w] = "update" /\ newNav[w] = NoArticles
  BY <1>1 DEF IndInv, WalkInv, Busy
<1>7. LockInv'
  BY <1>1, <1>2, <1>5 DEF LockInv, Busy
<1>8. MovedInv'
  BY <1>1, <1>4, <1>5, OthersIdle DEF IndInv, MovedInv, Busy
<1>9. ReadInv' /\ JudgedInv'
  BY <1>3, <1>5 DEF ReadInv, JudgedInv, HasKeys
<1>10. WalkInv'
  BY <1>2, <1>4, <1>5, <1>6 DEF WalkInv, HasKeys, Busy
<1>11. VerdictsCurrent'
  <2>1. \A g \in File \ stale' : index'[g] = index[g]
    BY <1>4 DEF TypeOK
  <2> QED BY <1>2, <1>3, <1>4, <2>1 DEF IndInv, VerdictsCurrent
<1> QED BY <1>7, <1>8, <1>9, <1>10, <1>11 DEF IndInv

LEMMA IndexArticleStep ==
  ASSUME TypeOK, IndInv, NEW w \in Worker, IndexArticle(w)
  PROVE  IndInv'
<1>1. mu = w /\ pc[w] = "article" /\ kind[w] = "update"
  BY DEF IndexArticle, IndInv, LockInv, Busy
<1>2. UNCHANGED <<files, manifest, authors, mu, kind, todo, at, keys, sigs, newNav, moved, since>>
  BY DEF IndexArticle
<1>3. Trusted' = Trusted
  BY <1>2 DEF Trusted
<1>4. at[w] \in File /\ newNav[w] = NoArticles
  BY <1>1 DEF IndInv, WalkInv, HasKeys
<1>5. \/ /\ index' = [index EXCEPT ![at[w]] =
                       ProcessArticle(files[at[w]], sigs[w][at[w]], keys[w])]
         /\ stale' = IF at[w] \in moved[w] THEN stale ELSE stale \ {at[w]}
      \/ UNCHANGED <<index, stale>>
  BY DEF IndexArticle
<1>6. pc'[w] = "path" /\ \A v \in Worker \ {w} : pc'[v] = "idle"
  BY <1>1, OthersIdle DEF IndexArticle, TypeOK
<1>7. LockInv'
  BY <1>1, <1>2, <1>6 DEF LockInv, Busy
<1>8. MovedInv'
  <2>1. moved[w] \subseteq stale'
    BY <1>5 DEF IndInv, MovedInv
  <2> QED BY <1>1, <1>2, <1>6, <2>1, OthersIdle DEF IndInv, MovedInv, Busy
<1>9. ReadInv' /\ JudgedInv'
  BY <1>6 DEF ReadInv, JudgedInv, HasKeys
<1>10. WalkInv'
  BY <1>1, <1>2, <1>4, <1>6, OthersIdle DEF WalkInv, HasKeys, Busy
<1>11. VerdictsCurrent'
  <2> SUFFICES ASSUME NEW f \in File, f \notin stale'
               PROVE  \E t \in TrustedKeys(Trusted) :
                        index'[f] = ProcessArticle(files[f], manifest[f], t)
    BY <1>2, <1>3 DEF VerdictsCurrent
  <2>1. CASE f \notin stale /\ index'[f] = index[f]
    BY <2>1 DEF IndInv, VerdictsCurrent
  <2>2. CASE /\ f = at[w] /\ f \notin moved[w]
             /\ index'[f] = ProcessArticle(files[f], sigs[w][f], keys[w])
    BY <1>1, <2>2, Verdict
  <2>3. \/ f \notin stale /\ index'[f] = index[f]
        \/ /\ f = at[w] /\ f \notin moved[w]
           /\ index'[f] = ProcessArticle(files[f], sigs[w][f], keys[w])
    BY <1>5 DEF TypeOK, IndInv, MovedInv
  <2> QED BY <2>1, <2>2, <2>3
<1> QED BY <1>7, <1>8, <1>9, <1>10, <1>11 DEF IndInv

LEMMA StepInv ==
  ASSUME TypeOK, IndInv, [Next]_vars
  PROVE  IndInv'
<1>1. CASE Crash
  <2>1. \A w \in Worker : /\ pc'[w] = "idle" /\ newNav'[w] = NoArticles /\ moved'[w] = {}
                          /\ kind'[w] = "reload"
    BY <1>1 DEF Crash
  <2>2. LockInv' /\ MovedInv' /\ ReadInv' /\ JudgedInv' /\ WalkInv'
    BY <2>1 DEF LockInv, MovedInv, ReadInv, JudgedInv, WalkInv, HasKeys, Busy
  <2>3. stale' = File
    BY <1>1 DEF Crash
  <2>4. VerdictsCurrent'
    BY <2>3 DEF VerdictsCurrent
  <2> QED BY <2>2, <2>4 DEF IndInv
<1>2. CASE UNCHANGED vars
  <2>1. UNCHANGED <<Trusted, ListContributors>>
    BY <1>2 DEF vars, Trusted, ListContributors
  <2>2. LockInv' /\ MovedInv' /\ WalkInv'
    BY <1>2 DEF vars, IndInv, LockInv, MovedInv, WalkInv, HasKeys, Busy
  <2>3. ReadInv'
    BY <1>2, <2>1 DEF vars, IndInv, ReadInv, HasKeys
  <2>4. JudgedInv'
    BY <1>2, <2>1 DEF vars, IndInv, JudgedInv, HasKeys, Owed
  <2>5. VerdictsCurrent'
    BY <1>2, <2>1 DEF vars, IndInv, VerdictsCurrent
  <2> QED BY <2>2, <2>3, <2>4, <2>5 DEF IndInv
<1> QED BY <1>1, <1>2, ChangeStep, BeginStep, LoadTrustedStep, LoadSignaturesStep, WalkArticleStep,
           InstallStep, EndUpdateStep, RemoveArticleStep, IndexArticleStep DEF Next

----------------------------------------------------------------------------
(* Every variable keeps its type.                                          *)
THEOREM TypeCorrect == Spec => []TypeOK
BY TypeInit, TypeNext, PTL DEF Spec

LEMMA Inductive == Spec => [](TypeOK /\ IndInv)
<1>1. Init => TypeOK /\ IndInv
  BY TypeInit, InitInv
<1>2. TypeOK /\ IndInv /\ [Next]_vars => (TypeOK /\ IndInv)'
  BY TypeNext, StepInv
<1> QED BY <1>1, <1>2, PTL DEF Spec

(* Every verdict shown is the one that the file, its signature and the     *)
(* contributors earn now, unless one of them changed since it was read.    *)
THEOREM VerdictsCurrentHolds == Spec => []VerdictsCurrent
BY Inductive, PTL DEF IndInv

(* What the steps that give a badge owe.                                   *)
LEMMA BadgeStep ==
  ASSUME TypeOK, IndInv, [Next]_vars, NEW f \in File,
         index'[f] # index[f], index'[f] # None, index'[f].state = "verified"
  PROVE  mu # None /\ Owed(mu, sigs[mu][f], index'[f])
<1>1. ASSUME NEW w \in Worker, Install(w)
      PROVE  mu # None /\ Owed(mu, sigs[mu][f], index'[f])
  <2>1. mu = w /\ pc[w] = "article"
    BY <1>1 DEF Install, IndInv, LockInv, Busy
  <2>2. index' = newNav[w]
    BY <1>1 DEF Install
  <2> QED BY <2>1, <2>2 DEF IndInv, JudgedInv
<1>2. ASSUME NEW w \in Worker, IndexArticle(w)
      PROVE  mu # None /\ Owed(mu, sigs[mu][f], index'[f])
  <2>1. mu = w /\ pc[w] = "article"
    BY <1>2 DEF IndexArticle, IndInv, LockInv, Busy
  <2>2. f = at[w] /\ index'[f] = ProcessArticle(files[f], sigs[w][f], keys[w])
    BY <1>2 DEF IndexArticle, TypeOK
  <2> QED BY <2>1, <2>2, Verdict
<1>3. ASSUME NEW w \in Worker, RemoveArticle(w) PROVE FALSE
  <2>1. PICK g \in File : index' = [index EXCEPT ![g] = None]
    BY <1>3 DEF RemoveArticle, TypeOK
  <2> QED BY <2>1 DEF TypeOK
<1>4. CASE Crash
  BY <1>4 DEF Crash, NoArticles
<1>5. CASE index' = index
  BY <1>5
<1> QED BY <1>1, <1>2, <1>3, <1>4, <1>5 DEF Next, vars, WriteFile, Sign, AddContributor,
           RevokeContributor, SetAuthor, Touch, Reload, WalkArticle, EndUpdate, LoadTrusted,
           LoadSignatures, UpdateFiles

(* Every badge is owed to somebody listed as a contributor during the call *)
(* that gives it, and in an update, since it came to the path.             *)
THEOREM JudgedInTheCallHolds == Spec => JudgedInTheCall
<1>1. TypeOK /\ IndInv /\ [Next]_vars =>
        [\A f \in File :
           LET a == index'[f] IN
           a # index[f] /\ a # None /\ a.state = "verified" =>
             /\ mu # None
             /\ \E s \in Spelling : /\ Lower[s] = Lower[sigs[mu][f].key]
                                   /\ <<s, a.author>> \in since[mu]]_vars
  BY BadgeStep DEF Owed
<1> QED BY <1>1, Inductive, PTL DEF Spec, JudgedInTheCall

----------------------------------------------------------------------------
(* The index as a dictionary.                                              *)

(* A reload has nothing yet for a file it has not come to.                 *)
FreshInv ==
  \A w \in Worker : kind[w] = "reload" => \A f \in todo[w] : newNav[w][f] = None

New == [f \in Judged |-> newNav[mu][f]]

LEMMA FreshStep ==
  ASSUME TypeOK, IndInv, FreshInv, [Next]_vars
  PROVE  FreshInv'
<1>1. ASSUME NEW w \in Worker, Reload(w) PROVE FreshInv'
  <2>1. newNav' = newNav /\ newNav[w] = NoArticles
    BY <1>1 DEF Reload, IndInv, WalkInv, Busy
  <2>2. \A v \in Worker : v # w => kind'[v] = kind[v] /\ todo'[v] = todo[v]
    BY <1>1 DEF Reload, TypeOK
  <2>3. todo'[w] = File
    BY <1>1 DEF Reload, TypeOK
  <2> QED
    BY <2>1, <2>2, <2>3 DEF FreshInv, NoArticles
<1>2. ASSUME NEW w \in Worker, WalkArticle(w) PROVE FreshInv'
  <2>1. PICK f \in todo[w] :
          /\ todo' = [todo EXCEPT ![w] = @ \ {f}]
          /\ \/ \E a \in Article \cup {None} : newNav' = [newNav EXCEPT ![w][f] = a]
             \/ newNav' = newNav
    BY <1>2, VerdictType DEF WalkArticle, TypeOK
  <2>2. kind' = kind
    BY <1>2 DEF WalkArticle
  <2> QED
    BY <2>1, <2>2 DEF FreshInv, TypeOK
<1>3. ASSUME NEW w \in Worker, Install(w) \/ EndUpdate(w) PROVE FreshInv'
  <2>1. todo' = todo /\ todo[w] = {}
    BY <1>3 DEF Install, EndUpdate
  <2>2. \A v \in Worker : v # w => kind'[v] = kind[v] /\ newNav'[v] = newNav[v]
    BY <1>3 DEF Install, EndUpdate, Return, TypeOK
  <2> QED
    BY <2>1, <2>2 DEF FreshInv
<1>4. ASSUME NEW w \in Worker, RemoveArticle(w) PROVE FreshInv'
  <2>1. newNav' = newNav /\ kind' = kind /\ \A v \in Worker : todo'[v] \subseteq todo[v]
    BY <1>4 DEF RemoveArticle, TypeOK
  <2> QED
    BY <2>1 DEF FreshInv
<1>5. ASSUME NEW w \in Worker, NEW F \in SUBSET File, UpdateFiles(w, F) PROVE FreshInv'
  <2>1. /\ newNav' = newNav /\ kind'[w] = "update"
        /\ \A v \in Worker : v # w => kind'[v] = kind[v] /\ todo'[v] = todo[v]
    BY <1>5 DEF UpdateFiles, TypeOK
  <2> QED
    BY <2>1 DEF FreshInv
<1>6. CASE Crash
  BY <1>6 DEF Crash, FreshInv
<1>7. CASE UNCHANGED <<kind, todo, newNav>>
  BY <1>7 DEF FreshInv
<1> QED
  BY <1>1, <1>2, <1>3, <1>4, <1>5, <1>6, <1>7
  DEF Next, vars, WriteFile, Sign, AddContributor, RevokeContributor, SetAuthor, Touch,
      LoadTrusted, LoadSignatures, IndexArticle

(* What updates and reloads do to the badges is what they do to a          *)
(* dictionary of articles by path.                                         *)
THEOREM IndexIsMapHolds == Spec => IndexIsMap
<1>1. Init => Dictionary!Init /\ FreshInv
  BY DEF Init, Judged, NoArticles, FreshInv,
         Dictionary!Init, Dictionary!Empty, Dictionary!Nothing
<1>2. TypeOK /\ IndInv /\ FreshInv /\ [Next]_vars => FreshInv'
  BY FreshStep
<1>3. TypeOK /\ IndInv /\ FreshInv /\ [Next]_vars => [Dictionary!Next]_<<index, New>>
  <2> SUFFICES ASSUME TypeOK, IndInv, FreshInv, [Next]_vars
               PROVE  [Dictionary!Next]_<<index, New>>
    OBVIOUS
  <2>1. ASSUME UNCHANGED <<index, mu, kind, todo, newNav>> PROVE UNCHANGED <<index, New>>
    BY <2>1 DEF New, Judged
  <2>2. ASSUME NEW w \in Worker, Busy(w) PROVE mu = w /\ mu # None
    BY <2>2 DEF IndInv, LockInv
  <2>3. ASSUME Judged = {} PROVE New = Dictionary!Nothing
    BY <2>3 DEF New, Dictionary!Nothing
  <2>4. ASSUME Judged' = {} PROVE New' = Dictionary!Nothing
    BY <2>4 DEF New, Dictionary!Nothing
  <2>5. ASSUME NEW w \in Worker, Reload(w) PROVE UNCHANGED <<index, New>>
    <3>1. Judged = {} /\ Judged' = {}
      BY <2>5 DEF Reload, Judged, TypeOK
    <3> QED
      BY <2>3, <2>4, <2>5, <3>1 DEF Reload
  <2>6. ASSUME NEW w \in Worker, NEW F \in SUBSET File, UpdateFiles(w, F)
        PROVE  UNCHANGED <<index, New>>
    <3>1. Judged = {} /\ Judged' = {}
      BY <2>6 DEF UpdateFiles, Judged, TypeOK
    <3> QED
      BY <2>3, <2>4, <2>6, <3>1 DEF UpdateFiles
  <2>7. ASSUME NEW w \in Worker, EndUpdate(w) PROVE UNCHANGED <<index, New>>
    <3>1. Judged = {} /\ Judged' = {}
      BY <2>2, <2>7 DEF EndUpdate, Return, Judged, Busy, IndInv, WalkInv
    <3> QED
      BY <2>3, <2>4, <2>7, <3>1 DEF EndUpdate
  <2>8. ASSUME NEW w \in Worker, WalkArticle(w) PROVE Dictionary!Next
    <3>1. PICK f \in todo[w] :
            /\ todo' = [todo EXCEPT ![w] = @ \ {f}]
            /\ \/ newNav' = [newNav EXCEPT ![w][f] =
                                 ProcessArticle(files[f], sigs[w][f], keys[w])]
               \/ newNav' = newNav
      BY <2>8 DEF WalkArticle
    <3>2. f \in File /\ mu = w /\ mu' = w /\ w # None
      BY <2>2, <2>8, <3>1 DEF WalkArticle, Busy, TypeOK
    <3>3. kind[w] = "reload" /\ kind' = kind /\ index' = index
      BY <2>8 DEF WalkArticle
    <3>4. Judged = File \ todo[w] /\ Judged' = Judged \cup {f} /\ f \notin Judged
      BY <3>1, <3>2, <3>3 DEF Judged, TypeOK
    <3>5. newNav[w][f] = None
      BY <3>1, <3>3 DEF FreshInv
    <3>6. PICK v \in Article \cup {None} : newNav'[w] = [newNav[w] EXCEPT ![f] = v]
      <4>1. newNav[w] \in [File -> Article \cup {None}]
        BY DEF TypeOK
      <4>2. CASE newNav' = newNav
        <5>1. newNav[w] = [newNav[w] EXCEPT ![f] = None]
          BY <3>2, <3>5, <4>1
        <5> QED
          BY <4>2, <5>1
      <4>3. CASE newNav' = [newNav EXCEPT ![w][f] =
                              ProcessArticle(files[f], sigs[w][f], keys[w])]
        <5>1. newNav'[w] = [newNav[w] EXCEPT ![f] = ProcessArticle(files[f], sigs[w][f], keys[w])]
          BY <4>3 DEF TypeOK
        <5> QED
          BY <3>2, <5>1, VerdictType
      <4> QED
        BY <3>1, <4>2, <4>3
    <3>7. New' = [g \in DOMAIN New \cup {f} |-> IF g = f THEN v ELSE New[g]]
      BY <3>2, <3>4, <3>6 DEF New, Judged, TypeOK
    <3>8. f \notin DOMAIN New
      BY <3>4 DEF New
    <3>9. Dictionary!Read(f, v)
      BY <3>3, <3>7, <3>8 DEF Dictionary!Read, New
    <3> QED
      BY <3>2, <3>9 DEF Dictionary!Next
  <2>9. ASSUME NEW w \in Worker, Install(w) PROVE Dictionary!Next
    <3>1. mu = w /\ w # None
      BY <2>2, <2>9 DEF Install, Busy
    <3>2. Judged = File
      BY <2>9, <3>1 DEF Install, Judged
    <3>3. New = newNav[w] /\ DOMAIN New = File
      BY <3>1, <3>2 DEF New, TypeOK
    <3>4. New' = Dictionary!Nothing
      BY <2>4, <2>9 DEF Install, Return, Judged
    <3> QED
      BY <2>9, <3>3, <3>4 DEF Install, New, Dictionary!Next, Dictionary!Install
  <2>10. ASSUME NEW w \in Worker, NEW f \in File, NEW v \in Article \cup {None},
                Busy(w), kind[w] = "update", index' = [index EXCEPT ![f] = v],
                UNCHANGED <<mu, kind>>
         PROVE  Dictionary!Next
    <3>1. Judged = {} /\ Judged' = {}
      BY <2>2, <2>10 DEF Judged
    <3>2. New = Dictionary!Nothing /\ New' = New
      BY <2>3, <2>4, <3>1
    <3> QED
      BY <2>10, <3>2 DEF New, Dictionary!Next, Dictionary!Update
  <2>11. ASSUME NEW w \in Worker, RemoveArticle(w) PROVE Dictionary!Next
    <3>1. PICK f \in todo[w] : index' = [index EXCEPT ![f] = None]
      BY <2>11 DEF RemoveArticle
    <3>2. f \in File
      BY <3>1 DEF TypeOK
    <3> QED
      BY <2>10, <2>11, <3>1, <3>2 DEF RemoveArticle, Busy, IndInv, WalkInv
  <2>12. ASSUME NEW w \in Worker, IndexArticle(w) PROVE [Dictionary!Next]_<<index, New>>
    <3>1. at[w] \in File
      BY <2>12 DEF IndexArticle, IndInv, WalkInv, HasKeys
    <3>2. CASE index' = [index EXCEPT ![at[w]] =
                           ProcessArticle(files[at[w]], sigs[w][at[w]], keys[w])]
      BY <2>10, <2>12, <3>1, <3>2, VerdictType DEF IndexArticle, Busy
    <3>3. CASE index' = index
      BY <2>1, <2>12, <3>3 DEF IndexArticle
    <3> QED
      BY <2>12, <3>2, <3>3 DEF IndexArticle
  <2>13. CASE Crash
    <3>1. New' = Dictionary!Nothing
      BY <2>4, <2>13 DEF Crash, Judged
    <3> QED
      BY <2>13, <3>1 DEF Crash, New, NoArticles, Dictionary!Next, Dictionary!Forget, Dictionary!Empty
  <2>14. ASSUME NEW w \in Worker, LoadTrusted(w) \/ LoadSignatures(w)
         PROVE  UNCHANGED <<index, New>>
    BY <2>1, <2>14 DEF LoadTrusted, LoadSignatures
  <2>15. CASE UNCHANGED <<index, mu, locals>>
    BY <2>1, <2>15
  <2> QED
    BY <2>5, <2>6, <2>7, <2>8, <2>9, <2>11, <2>12, <2>13, <2>14, <2>15
    DEF Next, vars, WriteFile, Sign, AddContributor, RevokeContributor, SetAuthor, Touch
<1> QED
  BY <1>1, <1>2, <1>3, Inductive, PTL DEF Spec, IndexIsMap, Dictionary!Spec, New
=============================================================================
