------------------------ MODULE ContentSync_proofs ------------------------
(***************************************************************************)
(* Safety of the content pipeline for every set of files, entries and      *)
(* goroutines.                                                             *)
(***************************************************************************)
EXTENDS ContentSync, TLAPS

USE DEF repoVars, diskVars, indexVars, watchVars, flagVars, jobVars, history, FromDisk

----------------------------------------------------------------------------
(* Type correctness, with the facts about entries it needs.                *)

TypeInv == TypeOK /\ JobInv

(* The initial state has the types of TypeOK.                              *)
LEMMA InitType == Init => TypeInv
<1> SUFFICES ASSUME Init PROVE TypeInv
  OBVIOUS
<1>1. disk \in [File -> Value] /\ index \in [File -> Value] /\ staged \in [File -> Value \cup {None}]
  BY DEF Init, Value, Unwalked, RemoteFile
<1>2. pc \in [Actor -> Pc] /\ (\A a \in Actor : pc[a] \in PcOf(a))
  BY ActorAssumption DEF Init, Pc, PcOf
<1>3. bundle \in [Actor -> [File -> Content \cup {Absent}]]
  BY DEF Init, NoBundle
<1>4. JobInv
  BY DEF Init, JobInv, NoBundle
<1>5. /\ repo \subseteq Git /\ behind \subseteq Git /\ tracked \subseteq Entry
      /\ head \in [RemoteFile -> Content \cup {Absent, None}]
  BY EntryAssumption DEF Init
<1> QED
  BY <1>1, <1>2, <1>3, <1>4, <1>5 DEF Init, TypeInv, TypeOK

(* The part of TypeInv that the end of a pull is about.                    *)
JobType ==
  /\ pc \in [Actor -> Pc] /\ \A b \in Actor : pc[b] \in PcOf(b)
  /\ todo \in [Actor -> SUBSET Entry]
  /\ at \in [Actor -> Entry \cup {None}]
  /\ bundle \in [Actor -> [File -> Content \cup {Absent}]]
  /\ changed \in [Actor -> SUBSET File]
  /\ save \in [Actor -> BOOLEAN]
  /\ blind \subseteq File
  /\ JobInv

(* The end of a pull.                                                      *)
LEMMA TypePulled ==
  ASSUME TypeInv, NEW a \in Actor, NEW e \in Entry, NEW outcome, NEW files \in SUBSET File,
         NEW S \in SUBSET File, Pulled(a, e, outcome, files, S),
         pc[a] \in {"pull", "clone", "fetch"}
  PROVE  JobType'
<1> USE ActorAssumption, EntryAssumption DEF TypeInv, TypeOK
<1>1. pc' \in [Actor -> Pc] /\ \A b \in Actor : pc'[b] \in PcOf(b)
  BY DEF Pulled, AfterPull, Actor, Pc, PcOf
<1>2. /\ todo' \in [Actor -> SUBSET Entry]
      /\ at' \in [Actor -> Entry \cup {None}]
      /\ bundle' \in [Actor -> [File -> Content \cup {Absent}]]
      /\ changed' \in [Actor -> SUBSET File]
      /\ save' \in [Actor -> BOOLEAN]
      /\ blind' \subseteq File
  BY DEF Pulled, NoBundle
<1>3. pc'[a] \notin {"clone", "fetch", "delete", "save"}
  BY DEF Pulled, AfterPull
<1>4. /\ \A b \in Actor \ {a} : /\ pc'[b] = pc[b] /\ at'[b] = at[b] /\ bundle'[b] = bundle[b]
                                /\ changed'[b] = changed[b] /\ save'[b] = save[b]
      /\ \A f \in File : bundle'[a][f] = Absent
      /\ a \in Admin => changed'[a] = changed[a]
      /\ save'[a] => save[a] /\ outcome # "error" /\ (a \in Admin => at'[a] = at[a])
  BY DEF Pulled, NoBundle, Actor
<1>5. ASSUME NEW b \in Actor \ {a}
      PROVE  /\ pc'[b] = "clone" => at'[b] \in Git
             /\ pc'[b] \in {"fetch", "delete", "save"} => at'[b] \in Entry
             /\ b \in Admin => changed'[b] = {}
             /\ save'[b] => b \in Admin /\ at'[b] \in Entry
             /\ \A f \in File : bundle'[b][f] # Absent => pc'[b] = "fetch" /\ at'[b] = Owner[f]
  BY <1>4 DEF JobInv
<1>6. /\ pc'[a] = "clone" => at'[a] \in Git
      /\ pc'[a] \in {"fetch", "delete", "save"} => at'[a] \in Entry
      /\ a \in Admin => changed'[a] = {}
      /\ save'[a] => a \in Admin /\ at'[a] \in Entry
      /\ \A f \in File : bundle'[a][f] # Absent => pc'[a] = "fetch" /\ at'[a] = Owner[f]
  BY <1>3, <1>4 DEF JobInv
<1> QED
  BY <1>1, <1>2, <1>5, <1>6 DEF JobType, JobInv

(* Every step of a pull keeps the types.                                   *)
LEMMA TypePull ==
  ASSUME TypeInv, NEW a \in Actor, Pull(a)
  PROVE  TypeInv'
<1> USE EntryAssumption, ValueAssumption, ActorAssumption
    DEF TypeInv, TypeOK, JobInv, Value, RemoteFile, FilesOf
<1>1. ASSUME NEW e \in Entry, NEW R, PullRepo(a, e, R) PROVE TypeInv'
  <2>1. disk' \in [File -> Value] /\ dirty' \subseteq File /\ unnoticed' \subseteq File
    BY <1>1 DEF PullRepo, Pulling, MoveHead, Next2Pull, Differing, DeltaOf, Write, Touch
  <2>2. head' \in [RemoteFile -> Content \cup {Absent, None}] /\ repo' \subseteq Git /\ behind' \subseteq Git
    BY <1>1 DEF PullRepo, Pulling, MoveHead, Next2Pull, Differing, DeltaOf, Write, Touch
  <2>3. /\ Pulled(a, e, IF DeltaOf(e) = {} THEN "nil" ELSE "list", DeltaOf(e) \ R, Differing(e))
        /\ DeltaOf(e) \ R \in SUBSET File /\ Differing(e) \in SUBSET File
        /\ pc[a] \in {"pull", "clone", "fetch"}
        /\ UNCHANGED <<remote, tracked, index, mu, staged, watching, known, events, hand, active, cool>>
    BY <1>1 DEF PullRepo, Pulling, MoveHead, Next2Pull, Differing, DeltaOf, Write, Touch
  <2> HIDE DEF TypeInv, FilesOf
  <2>4. JobType'
    BY <2>3, TypePulled
  <2> QED
    BY <2>1, <2>2, <2>3, <2>4 DEF JobType, TypeInv
<1>2. ASSUME NEW e \in Entry, PullUnlisted(a, e) PROVE TypeInv'
  <2>1. disk' \in [File -> Value] /\ dirty' \subseteq File /\ unnoticed' \subseteq File
    BY <1>2 DEF PullUnlisted, Pulling, MoveHead, Next2Pull, Differing, DeltaOf, Write, Touch
  <2>2. head' \in [RemoteFile -> Content \cup {Absent, None}] /\ repo' \subseteq Git /\ behind' \subseteq Git
    BY <1>2 DEF PullUnlisted, Pulling, MoveHead, Next2Pull, Differing, DeltaOf, Write, Touch
  <2>3. /\ Pulled(a, e, "nil", {}, Differing(e))
        /\ Differing(e) \in SUBSET File
        /\ pc[a] \in {"pull", "clone", "fetch"}
        /\ UNCHANGED <<remote, tracked, index, mu, staged, watching, known, events, hand, active, cool>>
    BY <1>2 DEF PullUnlisted, Pulling, MoveHead, Next2Pull, Differing, DeltaOf, Write, Touch
  <2> HIDE DEF TypeInv, FilesOf
  <2>4. JobType'
    BY <2>3, TypePulled
  <2> QED
    BY <2>1, <2>2, <2>3, <2>4 DEF JobType, TypeInv
<1>3. ASSUME NEW e \in Entry, NEW S, PullBreaks(a, e, S) PROVE TypeInv'
  <2>1. disk' \in [File -> Value] /\ dirty' \subseteq File /\ unnoticed' \subseteq File
    BY <1>3 DEF PullBreaks, Pulling, MoveHead, Next2Pull, Differing, DeltaOf, Write, Touch
  <2>2. head' \in [RemoteFile -> Content \cup {Absent, None}] /\ repo' \subseteq Git /\ behind' \subseteq Git
    BY <1>3 DEF PullBreaks, Pulling, MoveHead, Next2Pull, Differing, DeltaOf, Write, Touch
  <2>3. /\ Pulled(a, e, "error", {}, S)
        /\ S \in SUBSET File
        /\ pc[a] \in {"pull", "clone", "fetch"}
        /\ UNCHANGED <<remote, tracked, index, mu, staged, watching, known, events, hand, active, cool>>
    BY <1>3 DEF PullBreaks, Pulling, MoveHead, Next2Pull, Differing, DeltaOf, Write, Touch
  <2> HIDE DEF TypeInv, FilesOf
  <2>4. JobType'
    BY <2>3, TypePulled
  <2> QED
    BY <2>1, <2>2, <2>3, <2>4 DEF JobType, TypeInv
<1>4. ASSUME NEW e \in Entry, PullFails(a, e) PROVE TypeInv'
  <2>1. disk' \in [File -> Value] /\ dirty' \subseteq File /\ unnoticed' \subseteq File
    BY <1>4 DEF PullFails, Next2Pull
  <2>2. head' \in [RemoteFile -> Content \cup {Absent, None}] /\ repo' \subseteq Git /\ behind' \subseteq Git
    BY <1>4 DEF PullFails, Next2Pull
  <2>3. /\ Pulled(a, e, "error", {}, {})
        /\ pc[a] \in {"pull", "clone", "fetch"}
        /\ UNCHANGED <<remote, tracked, index, mu, staged, watching, known, events, hand, active, cool>>
    BY <1>4 DEF PullFails, Next2Pull
  <2> HIDE DEF TypeInv, FilesOf
  <2>4. JobType'
    BY <2>3, TypePulled
  <2> QED
    BY <2>1, <2>2, <2>3, <2>4 DEF JobType, TypeInv
<1>5. ASSUME NEW e \in Entry, UpToDate(a, e) PROVE TypeInv'
  <2>1. disk' \in [File -> Value] /\ dirty' \subseteq File /\ unnoticed' \subseteq File
    BY <1>5 DEF UpToDate, Next2Pull
  <2>2. head' \in [RemoteFile -> Content \cup {Absent, None}] /\ repo' \subseteq Git /\ behind' \subseteq Git
    BY <1>5 DEF UpToDate, Next2Pull
  <2>3. /\ Pulled(a, e, "list", {}, {})
        /\ pc[a] \in {"pull", "clone", "fetch"}
        /\ UNCHANGED <<remote, tracked, index, mu, staged, watching, known, events, hand, active, cool>>
    BY <1>5 DEF UpToDate, Next2Pull
  <2> HIDE DEF TypeInv, FilesOf
  <2>4. JobType'
    BY <2>3, TypePulled
  <2> QED
    BY <2>1, <2>2, <2>3, <2>4 DEF JobType, TypeInv
<1>6. ASSUME NEW e \in Entry, StartClone(a, e) PROVE TypeInv'
  BY <1>6 DEF StartClone, Next2Pull, Write, Touch, Actor, Pc, PcOf
<1>7. ASSUME NEW e \in Entry, Download(a, e) PROVE TypeInv'
  BY <1>7 DEF Download, Next2Pull, Actor, Pc, PcOf
<1>8. ASSUME CloneHead(a) PROVE TypeInv'
  BY <1>8 DEF CloneHead, MoveHead, Write, Touch
<1>9. ASSUME FinishClone(a) PROVE TypeInv'
  <2>1. disk' \in [File -> Value] /\ dirty' \subseteq File /\ unnoticed' \subseteq File
    BY <1>9 DEF FinishClone, Write, Touch
  <2>2. head' \in [RemoteFile -> Content \cup {Absent, None}] /\ repo' \subseteq Git /\ behind' \subseteq Git
    BY <1>9 DEF FinishClone, Write, Touch
  <2>3. /\ Pulled(a, at[a], "nil", {}, FilesOf(at[a]))
        /\ FilesOf(at[a]) \in SUBSET File
        /\ at[a] \in Entry
        /\ pc[a] \in {"pull", "clone", "fetch"}
        /\ UNCHANGED <<remote, tracked, index, mu, staged, watching, known, events, hand, active, cool>>
    BY <1>9 DEF FinishClone, Write, Touch
  <2> HIDE DEF TypeInv, FilesOf
  <2>4. JobType'
    BY <2>3, TypePulled
  <2> QED
    BY <2>1, <2>2, <2>3, <2>4 DEF JobType, TypeInv
<1>10. ASSUME CloneFails(a) PROVE TypeInv'
  <2>1. disk' \in [File -> Value] /\ dirty' \subseteq File /\ unnoticed' \subseteq File
    BY <1>10 DEF CloneFails, RemoveRepo, Write, Touch
  <2>2. head' \in [RemoteFile -> Content \cup {Absent, None}] /\ repo' \subseteq Git /\ behind' \subseteq Git
    BY <1>10 DEF CloneFails, RemoveRepo, Write, Touch
  <2>3. /\ Pulled(a, at[a], "error", {}, FilesOf(at[a]))
        /\ FilesOf(at[a]) \in SUBSET File
        /\ at[a] \in Entry
        /\ pc[a] \in {"pull", "clone", "fetch"}
        /\ UNCHANGED <<remote, tracked, index, mu, staged, watching, known, events, hand, active, cool>>
    BY <1>10 DEF CloneFails, RemoveRepo, Write, Touch
  <2> HIDE DEF TypeInv, FilesOf
  <2>4. JobType'
    BY <2>3, TypePulled
  <2> QED
    BY <2>1, <2>2, <2>3, <2>4 DEF JobType, TypeInv
<1>11. ASSUME NEW f \in File, WriteEntry(a, f) PROVE TypeInv'
  BY <1>11 DEF WriteEntry, Write, Touch
<1>12. ASSUME NEW f \in File, TearEntry(a, f) PROVE TypeInv'
  <2>1. disk' \in [File -> Value] /\ dirty' \subseteq File /\ unnoticed' \subseteq File
    BY <1>12 DEF TearEntry, Write, Touch
  <2>2. head' \in [RemoteFile -> Content \cup {Absent, None}] /\ repo' \subseteq Git /\ behind' \subseteq Git
    BY <1>12 DEF TearEntry, Write, Touch
  <2>3. /\ Pulled(a, at[a], "error", {}, FilesOf(at[a]))
        /\ FilesOf(at[a]) \in SUBSET File
        /\ at[a] \in Entry
        /\ pc[a] \in {"pull", "clone", "fetch"}
        /\ UNCHANGED <<remote, tracked, index, mu, staged, watching, known, events, hand, active, cool>>
    BY <1>12 DEF TearEntry, Write, Touch
  <2> HIDE DEF TypeInv, FilesOf
  <2>4. JobType'
    BY <2>3, TypePulled
  <2> QED
    BY <2>1, <2>2, <2>3, <2>4 DEF JobType, TypeInv
<1>13. ASSUME FinishExtract(a) PROVE TypeInv'
  <2>1. disk' \in [File -> Value] /\ dirty' \subseteq File /\ unnoticed' \subseteq File
    BY <1>13 DEF FinishExtract, Write
  <2>2. head' \in [RemoteFile -> Content \cup {Absent, None}] /\ repo' \subseteq Git /\ behind' \subseteq Git
    BY <1>13 DEF FinishExtract, Write
  <2>3. /\ Pulled(a, at[a], "nil", {}, FilesOf(at[a]))
        /\ FilesOf(at[a]) \in SUBSET File
        /\ at[a] \in Entry
        /\ pc[a] \in {"pull", "clone", "fetch"}
        /\ UNCHANGED <<remote, tracked, index, mu, staged, watching, known, events, hand, active, cool>>
    BY <1>13 DEF FinishExtract, Write
  <2> HIDE DEF TypeInv, FilesOf
  <2>4. JobType'
    BY <2>3, TypePulled
  <2> QED
    BY <2>1, <2>2, <2>3, <2>4 DEF JobType, TypeInv
<1> HIDE DEF TypeInv
<1> QED
  BY <1>1, <1>2, <1>3, <1>4, <1>5, <1>6, <1>7, <1>8, <1>9, <1>10, <1>11, <1>12, <1>13
     DEF Pull, PullMoves

(* Every action of every goroutine keeps the types.                        *)
LEMMA TypeStep == TypeInv /\ [Next]_vars => TypeInv'
<1> SUFFICES ASSUME TypeInv, [Next]_vars PROVE TypeInv'
  OBVIOUS
<1> USE EntryAssumption, ValueAssumption, ActorAssumption
    DEF TypeInv, TypeOK, JobInv, Value
<1>1. ASSUME NEW f \in RemoteFile, NEW c \in Content \cup {Absent}, Publish(f, c) PROVE TypeInv'
  BY <1>1 DEF Publish
<1>2. ASSUME NEW f \in File, NEW c \in Content \cup {Absent}, EditLocal(f, c) PROVE TypeInv'
  BY <1>2 DEF EditLocal, Write, Touch
<1>3. CASE Poll
  BY <1>3 DEF Poll
<1>4. ASSUME NEW f \in File, IgnoreEvent(f) PROVE TypeInv'
  BY <1>4 DEF IgnoreEvent
<1>5. ASSUME NEW f \in File, AcceptEvent(f) PROVE TypeInv'
  BY <1>5 DEF AcceptEvent
<1>6. CASE ApplyEvent
  BY <1>6 DEF ApplyEvent, CanLock, Noticed
<1>7. CASE CooldownOver
  BY <1>7 DEF CooldownOver
<1>8. ASSUME NEW a \in Actor, Pull(a) PROVE TypeInv'
  BY <1>8, TypePull DEF TypeInv
<1>9. ASSUME NEW a \in Actor, NEW f \in File, WalkFile(a, f) PROVE TypeInv'
  BY <1>9 DEF WalkFile, CanLock, Noticed
<1>10. ASSUME NEW a \in Actor, NEW f \in File, UpdateFile(a, f) PROVE TypeInv'
  <2>1. index' \in [File -> Value] BY <1>10 DEF UpdateFile
  <2>2. pc' \in [Actor -> Pc] /\ \A x \in Actor : pc'[x] \in PcOf(x)
    BY <1>10 DEF UpdateFile, Actor, Pc, PcOf
  <2>3. unnoticed' \subseteq File BY <1>10 DEF UpdateFile, Noticed
  <2>4. mu' \in Actor \cup {None} BY <1>10 DEF UpdateFile, CanLock
  <2>5. changed' \in [Actor -> SUBSET File] BY <1>10 DEF UpdateFile
  <2>6. UNCHANGED <<remote, disk, repoVars, tracked, staged, watching, known, events, hand, dirty,
                    active, cool, todo, at, bundle, save>>
    BY <1>10 DEF UpdateFile
  <2>7. blind' \subseteq File BY <1>10 DEF UpdateFile, Noticed
  <2>8. JobInv' BY <1>10, <2>6 DEF UpdateFile
  <2> QED BY <2>1, <2>2, <2>3, <2>4, <2>5, <2>6, <2>7, <2>8
<1>11. ASSUME NEW a \in Actor, Install(a) PROVE TypeInv'
  BY <1>11 DEF Install, AfterReload, Unwalked, Actor, Pc, PcOf
<1>12. CASE BootList
  BY <1>12 DEF BootList, Actor, Pc, PcOf
<1>13. CASE BootPulled
  BY <1>13 DEF BootPulled, Actor, Pc, PcOf
<1>14. CASE Watch
  BY <1>14 DEF Watch, Actor, Pc, PcOf
<1>15. CASE PeriodicTick
  BY <1>15 DEF PeriodicTick, Actor, Pc, PcOf
<1>16. ASSUME NEW a \in {Main} \cup Hook, EndRemoteSync(a) PROVE TypeInv'
  <2>1. a \in Actor /\ (a # Main => a \in Hook)
    BY DEF Actor
  <2>2. pc' \in [Actor -> Pc] /\ \A b \in Actor : pc'[b] \in PcOf(b)
    <3>1. CASE pc' = [pc EXCEPT ![a] = "idle"]
      BY <2>1, <3>1 DEF Pc, PcOf
    <3>2. CASE pc' = [pc EXCEPT ![a] = "update"]
      BY <2>1, <3>2 DEF Pc, PcOf
    <3> QED
      BY <1>16, <3>1, <3>2 DEF EndRemoteSync, AfterSync
  <2>3. JobInv'
    BY <1>16, <2>1 DEF EndRemoteSync, AfterSync
  <2> QED
    BY <1>16, <2>2, <2>3 DEF EndRemoteSync, AfterSync
<1>17. ASSUME NEW h \in Hook, NEW M \in Matches, WebhookSync(h, M) PROVE TypeInv'
  BY <1>17 DEF WebhookSync, Actor, Pc, PcOf
<1>18. ASSUME NEW a \in Admin, NEW e \in Entry, NEW s \in BOOLEAN, ImportRemote(a, e, s)
       PROVE TypeInv'
  BY <1>18 DEF ImportRemote, Actor, Pc, PcOf
<1>19. ASSUME NEW a \in Admin, NEW e \in Entry, NEW s \in BOOLEAN, AdminRemove(a, e, s)
       PROVE TypeInv'
  BY <1>19 DEF AdminRemove, Actor, Pc, PcOf
<1>20. ASSUME NEW a \in Admin, AddStartupSync(a) PROVE TypeInv'
  BY <1>20 DEF AddStartupSync, Actor, Pc, PcOf
<1>21. ASSUME NEW a \in Admin, DeleteLocalFiles(a) PROVE TypeInv'
  BY <1>21 DEF DeleteLocalFiles, RemoveRepo, Write, Touch, FilesOf, Actor, Pc, PcOf
<1>22. ASSUME NEW a \in Admin, ReloadRequest(a) PROVE TypeInv'
  BY <1>22 DEF ReloadRequest, Actor, Pc, PcOf
<1>23. CASE Crash
  BY <1>23 DEF Crash, NoBundle, Unwalked, Actor, Pc, PcOf
<1>24. CASE UNCHANGED vars
  BY <1>24 DEF vars
<1> HIDE DEF TypeInv
<1> QED
  BY <1>1, <1>2, <1>3, <1>4, <1>5, <1>6, <1>7, <1>8, <1>9, <1>10, <1>11, <1>12, <1>13, <1>14,
     <1>15, <1>16, <1>17, <1>18, <1>19, <1>20, <1>21, <1>22, <1>23, <1>24
     DEF Next, Environment, Watcher, IndexUpdate, MainStep, HookStep, AdminStep

(* TypeOK holds in every reachable state of the pipeline.                  *)
THEOREM TypeCorrect == Spec => []TypeOK
<1>1. TypeInv => TypeOK
  BY DEF TypeInv
<1> QED
  BY <1>1, InitType, TypeStep, PTL DEF Spec

----------------------------------------------------------------------------
(* What a step of a pull may do to the rest of the node.                   *)

PullEffect(a) ==
  /\ UNCHANGED <<index, mu, staged, watching, events, hand, active>>
  /\ pc[a] \in {"pull", "clone", "fetch"}
  /\ a = Main => pc'[a] \in {"pull", "clone", "fetch"}
  /\ a \in Hook => pc'[a] \in {"pull", "clone", "fetch", "reload", "update"}
  /\ a \in Admin => pc'[a] \in {"pull", "clone", "fetch", "reload", "idle"}
  /\ \A b \in Actor \ {a} : pc'[b] = pc[b] /\ at'[b] = at[b] /\ changed'[b] = changed[b]
  /\ changed[a] \subseteq changed'[a]
  /\ blind \subseteq blind'
  /\ watching => unnoticed' = unnoticed /\ dirty \subseteq dirty'

(* A file it writes is noticed by the watcher, and is then in the hands of *)
(* this goroutine unless it is given up.                                   *)
WriteEffect(a) ==
  watching => \A f \in File :
    /\ disk'[f] # disk[f] => f \in dirty'
    /\ disk'[f] # disk[f] /\ f \in RemoteFile => f \in blind' \/ Responsible(a, f)'
    /\ f \in RemoteFile /\ Responsible(a, f) => f \in blind' \/ Responsible(a, f)'

LEMMA PullStep ==
  ASSUME TypeInv, LockInv, NEW a \in Actor, Pull(a)
  PROVE  PullEffect(a) /\ WriteEffect(a)
<1> USE EntryAssumption, ValueAssumption, ActorAssumption
    DEF TypeInv, TypeOK, JobInv, LockInv, Value, PullEffect, WriteEffect, Responsible,
        RemoteFile, FilesOf
<1>1. ASSUME NEW e \in Entry, NEW R, PullRepo(a, e, R) PROVE PullEffect(a) /\ WriteEffect(a)
  BY <1>1 DEF PullRepo, Pulling, MoveHead, Next2Pull, Differing, DeltaOf, Write, Touch, Pulled, AfterPull, Actor
<1>2. ASSUME NEW e \in Entry, PullUnlisted(a, e) PROVE PullEffect(a) /\ WriteEffect(a)
  BY <1>2 DEF PullUnlisted, Pulling, MoveHead, Next2Pull, Differing, DeltaOf, Write, Touch, Pulled, AfterPull, Actor
<1>3. ASSUME NEW e \in Entry, NEW S, PullBreaks(a, e, S) PROVE PullEffect(a) /\ WriteEffect(a)
  BY <1>3 DEF PullBreaks, Pulling, MoveHead, Next2Pull, Differing, DeltaOf, Write, Touch, Pulled, AfterPull, Actor
<1>4. ASSUME NEW e \in Entry, PullFails(a, e) PROVE PullEffect(a) /\ WriteEffect(a)
  BY <1>4 DEF PullFails, Next2Pull, Pulled, AfterPull, Actor
<1>5. ASSUME NEW e \in Entry, UpToDate(a, e) PROVE PullEffect(a) /\ WriteEffect(a)
  BY <1>5 DEF UpToDate, Next2Pull, Pulled, AfterPull, Actor
<1>6. ASSUME NEW e \in Entry, StartClone(a, e) PROVE PullEffect(a) /\ WriteEffect(a)
  BY <1>6 DEF StartClone, Next2Pull, Write, Touch, Actor
<1>7. ASSUME NEW e \in Entry, Download(a, e) PROVE PullEffect(a) /\ WriteEffect(a)
  BY <1>7 DEF Download, Next2Pull, Actor
<1>8. ASSUME CloneHead(a) PROVE PullEffect(a) /\ WriteEffect(a)
  BY <1>8 DEF CloneHead, MoveHead, Write, Touch, Actor
<1>9. ASSUME FinishClone(a) PROVE PullEffect(a) /\ WriteEffect(a)
  BY <1>9 DEF FinishClone, Write, Touch, Pulled, AfterPull, Actor
<1>10. ASSUME CloneFails(a) PROVE PullEffect(a) /\ WriteEffect(a)
  BY <1>10 DEF CloneFails, RemoveRepo, Write, Touch, Pulled, AfterPull, Actor
<1>11. ASSUME NEW f \in File, WriteEntry(a, f) PROVE PullEffect(a) /\ WriteEffect(a)
  BY <1>11 DEF WriteEntry, Write, Touch, Actor
<1>12. ASSUME NEW f \in File, TearEntry(a, f) PROVE PullEffect(a) /\ WriteEffect(a)
  BY <1>12 DEF TearEntry, Write, Touch, Pulled, AfterPull, Actor
<1>13. ASSUME FinishExtract(a) PROVE PullEffect(a) /\ WriteEffect(a)
  BY <1>13 DEF FinishExtract, Pulled, AfterPull, Actor
<1> HIDE DEF PullEffect, WriteEffect
<1> QED
  BY <1>1, <1>2, <1>3, <1>4, <1>5, <1>6, <1>7, <1>8, <1>9, <1>10, <1>11, <1>12, <1>13
     DEF Pull, PullMoves

----------------------------------------------------------------------------
(* Store.mu protects a map under construction.                             *)

LEMMA LockStep == TypeInv /\ LockInv /\ [Next]_vars => LockInv'
<1> SUFFICES ASSUME TypeInv, LockInv, [Next]_vars
             PROVE  LockInv'
  OBVIOUS
<1> USE ValueAssumption, ActorAssumption DEF LockInv
<1>1. CASE Environment
  BY <1>1 DEF Environment, Publish, EditLocal, Write
<1>2. CASE Watcher \/ CooldownOver
  BY <1>2 DEF Watcher, Poll, IgnoreEvent, AcceptEvent, ApplyEvent, CanLock, CooldownOver
<1>3. ASSUME NEW a \in Actor, Pull(a) PROVE LockInv'
  <2>1. PullEffect(a)
    BY <1>3, PullStep
  <2> QED
    BY <2>1 DEF PullEffect, Actor
<1>4. ASSUME NEW a \in Actor, NEW f \in File, WalkFile(a, f) PROVE LockInv'
  BY <1>4 DEF WalkFile, CanLock, TypeInv, TypeOK
<1>5. ASSUME NEW a \in Actor, NEW f \in File, UpdateFile(a, f) PROVE LockInv'
  BY <1>5 DEF UpdateFile, CanLock, TypeInv, TypeOK
<1>6. ASSUME NEW a \in Actor, Install(a) PROVE LockInv'
  BY <1>6 DEF Install, Unwalked, TypeInv, TypeOK
<1>7. CASE BootList \/ BootPulled \/ Watch \/ PeriodicTick
  BY <1>7 DEF BootList, BootPulled, Watch, PeriodicTick, TypeInv, TypeOK, Actor
<1>8. ASSUME NEW a \in Actor, EndRemoteSync(a) PROVE LockInv'
  BY <1>8 DEF EndRemoteSync, AfterSync, TypeInv, TypeOK
<1>9. ASSUME NEW h \in Hook, NEW M \in Matches, WebhookSync(h, M) PROVE LockInv'
  BY <1>9 DEF WebhookSync, TypeInv, TypeOK, Actor
<1>10. ASSUME NEW a \in Admin, AdminStep(a) PROVE LockInv'
  BY <1>10 DEF AdminStep, ImportRemote, AdminRemove, AddStartupSync, DeleteLocalFiles, RemoveRepo, Write,
               ReloadRequest, TypeInv, TypeOK, Actor
<1>11. CASE Crash
  BY <1>11 DEF Crash, Unwalked
<1>12. CASE UNCHANGED vars
  BY <1>12 DEF vars
<1> HIDE DEF LockInv
<1> QED
  BY <1>1, <1>2, <1>3, <1>4, <1>5, <1>6, <1>7, <1>8, <1>9, <1>10, <1>11, <1>12
     DEF Next, IndexUpdate, MainStep, HookStep, Actor

----------------------------------------------------------------------------
(* Nothing but main runs before Watch().                                   *)

LEMMA BootStep == TypeInv /\ LockInv /\ BootInv /\ [Next]_vars => BootInv'
<1> SUFFICES ASSUME TypeInv, LockInv, BootInv, [Next]_vars
             PROVE  BootInv'
  OBVIOUS
<1> USE ValueAssumption, ActorAssumption DEF BootInv, Served
<1>1. CASE Environment
  <2>1. ASSUME NEW f \in File, NEW c \in Content \cup {Absent}, EditLocal(f, c) PROVE BootInv'
    BY <2>1 DEF EditLocal, Write, Touch, RemoteFile
  <2>2. ASSUME NEW f \in RemoteFile, NEW c \in Content \cup {Absent}, Publish(f, c) PROVE BootInv'
    BY <2>2 DEF Publish
  <2> HIDE DEF BootInv
  <2> QED
    BY <1>1, <2>1, <2>2 DEF Environment
<1>2. CASE Watcher \/ CooldownOver
  BY <1>2 DEF Watcher, Poll, IgnoreEvent, AcceptEvent, ApplyEvent, CanLock, CooldownOver
<1>3. ASSUME NEW a \in Actor, Pull(a) PROVE BootInv'
  <2>1. PullEffect(a)
    BY <1>3, PullStep
  <2>2. CASE watching
    BY <2>1, <2>2 DEF PullEffect, Actor
  <2>3. CASE ~watching
    <3>1. a = Main
      BY <2>1, <2>3 DEF PullEffect, Actor
    <3>2. \A f \in File : staged[f] = None
      BY <2>1, <2>3, <3>1 DEF LockInv, PullEffect, Actor
    <3>3. /\ \A b \in Hook \cup Admin : pc'[b] = pc[b]
          /\ pc'[Main] \in {"pull", "clone", "fetch"}
          /\ UNCHANGED <<watching, staged, active, events, hand>>
      BY <2>1, <3>1 DEF PullEffect, Actor
    <3> QED
      BY <2>3, <3>2, <3>3
  <2> QED
    BY <2>2, <2>3 DEF TypeInv, TypeOK
<1>4. ASSUME NEW a \in Actor, NEW f \in File, WalkFile(a, f) PROVE BootInv'
  BY <1>4 DEF WalkFile, CanLock, Noticed, TypeInv, TypeOK, Value, Actor
<1>5. ASSUME NEW a \in Actor, NEW f \in File, UpdateFile(a, f) PROVE BootInv'
  BY <1>5 DEF UpdateFile, CanLock, Noticed, TypeInv, TypeOK, Actor
<1>6. ASSUME NEW a \in Actor, Install(a) PROVE BootInv'
  BY <1>6 DEF Install, AfterReload, Unwalked, TypeInv, TypeOK, Actor
<1>7. CASE BootList \/ BootPulled \/ Watch \/ PeriodicTick
  BY <1>7 DEF BootList, BootPulled, Watch, PeriodicTick, TypeInv, TypeOK, Actor
<1>8. ASSUME NEW a \in Actor, EndRemoteSync(a) PROVE BootInv'
  BY <1>8 DEF EndRemoteSync, AfterSync, TypeInv, TypeOK
<1>9. ASSUME NEW h \in Hook, NEW M \in Matches, WebhookSync(h, M) PROVE BootInv'
  BY <1>9 DEF WebhookSync, TypeInv, TypeOK, Actor
<1>10. ASSUME NEW a \in Admin, AdminStep(a) PROVE BootInv'
  BY <1>10 DEF AdminStep, ImportRemote, AdminRemove, AddStartupSync, DeleteLocalFiles, RemoveRepo, Write, Touch,
               ReloadRequest, TypeInv, TypeOK, Actor
<1>11. CASE Crash
  BY <1>11 DEF Crash, Unwalked, Actor
<1>12. CASE UNCHANGED vars
  BY <1>12 DEF vars
<1> HIDE DEF BootInv
<1> QED
  BY <1>1, <1>2, <1>3, <1>4, <1>5, <1>6, <1>7, <1>8, <1>9, <1>10, <1>11, <1>12
     DEF Next, IndexUpdate, MainStep, HookStep, Actor

----------------------------------------------------------------------------
(* remoteSyncActive is always owned by a running sync.                     *)

LEMMA OwnerStep ==
  TypeInv /\ LockInv /\ BootInv /\ SuppressionHasOwner /\ [Next]_vars => SuppressionHasOwner'
<1> SUFFICES ASSUME TypeInv, LockInv, BootInv, SuppressionHasOwner, [Next]_vars
             PROVE  SuppressionHasOwner'
  OBVIOUS
<1> USE ActorAssumption DEF SuppressionHasOwner, Syncing
<1>1. CASE Environment
  BY <1>1 DEF Environment, Publish, EditLocal, Write
<1>2. CASE Watcher \/ CooldownOver
  BY <1>2 DEF Watcher, Poll, IgnoreEvent, AcceptEvent, ApplyEvent, CanLock, CooldownOver
<1>3. ASSUME NEW a \in Actor, Pull(a) PROVE SuppressionHasOwner'
  <2>1. PullEffect(a)
    BY <1>3, PullStep
  <2>2. ASSUME NEW b \in Actor, Syncing(b) PROVE Syncing(b)'
    BY <2>1, <2>2 DEF PullEffect
  <2>3. active' = active
    BY <2>1 DEF PullEffect
  <2> QED
    BY <2>2, <2>3
<1>4. ASSUME NEW a \in Actor, IndexUpdate(a) PROVE SuppressionHasOwner'
  <2>1. UNCHANGED <<active, watching>> /\ \A b \in Actor \ {a} : pc'[b] = pc[b]
    BY <1>4 DEF IndexUpdate, CanLock, WalkFile, UpdateFile, Install, TypeInv, TypeOK
  <2>2. pc[a] \in {"reload", "update"} /\ (a \in Hook => pc'[a] \in {"reload", "update", "pull"})
    BY <1>4 DEF IndexUpdate, CanLock, WalkFile, UpdateFile, Install, AfterReload, TypeInv, TypeOK
  <2>3. ASSUME NEW b \in Actor, Syncing(b) PROVE Syncing(b)'
    BY <2>1, <2>2, <2>3
  <2> QED
    BY <2>1, <2>3
<1>5. CASE BootList \/ BootPulled \/ Watch
  BY <1>5 DEF BootList, BootPulled, Watch, TypeInv, TypeOK, Actor
<1>6. CASE PeriodicTick
  BY <1>6 DEF PeriodicTick, BootInv, TypeInv, TypeOK, Actor
<1>7. ASSUME NEW a \in Actor, EndRemoteSync(a) PROVE SuppressionHasOwner'
  BY <1>7 DEF EndRemoteSync, AfterSync
<1>8. ASSUME NEW h \in Hook, NEW M \in Matches, WebhookSync(h, M) PROVE SuppressionHasOwner'
  BY <1>8 DEF WebhookSync, TypeInv, TypeOK, Actor
<1>9. ASSUME NEW a \in Admin, AdminStep(a) PROVE SuppressionHasOwner'
  BY <1>9 DEF AdminStep, ImportRemote, AdminRemove, AddStartupSync, DeleteLocalFiles, RemoveRepo, Write,
              ReloadRequest, TypeInv, TypeOK, Actor
<1>10. CASE Crash
  BY <1>10 DEF Crash
<1>11. CASE UNCHANGED vars
  BY <1>11 DEF vars
<1> HIDE DEF SuppressionHasOwner
<1> QED
  BY <1>1, <1>2, <1>3, <1>4, <1>5, <1>6, <1>7, <1>8, <1>9, <1>10, <1>11
     DEF Next, MainStep, HookStep, Actor

----------------------------------------------------------------------------
(* A stale article is owed by the watcher, or its event was dropped.       *)

(* UpdateFile and ApplyEvent only run when no map is under construction.   *)
LEMMA NotWalking ==
  ASSUME LockInv, mu = None \/ \E a \in Actor : mu = a /\ pc[a] = "update"
  PROVE  \A f \in File : staged[f] = None
BY ActorAssumption DEF LockInv

LEMMA StaleStep ==
  TypeInv /\ LockInv /\ BootInv /\ StaleIsOwedOrDropped /\ [Next]_vars => StaleIsOwedOrDropped'
<1> SUFFICES ASSUME TypeInv, LockInv, BootInv, StaleIsOwedOrDropped, [Next]_vars
             PROVE  StaleIsOwedOrDropped'
  OBVIOUS
<1> USE ValueAssumption, ActorAssumption DEF StaleIsOwedOrDropped, Stale, Served, WatcherOwes
<1>1. ASSUME NEW f \in RemoteFile, NEW c \in Content \cup {Absent}, Publish(f, c)
      PROVE  StaleIsOwedOrDropped'
  BY <1>1 DEF Publish
<1>2. ASSUME NEW f \in File, NEW c \in Content \cup {Absent}, EditLocal(f, c)
      PROVE  StaleIsOwedOrDropped'
  BY <1>2 DEF EditLocal, Write, Touch
<1>3. CASE Poll
  BY <1>3 DEF Poll
<1>4. ASSUME NEW f \in File, IgnoreEvent(f) \/ AcceptEvent(f) PROVE StaleIsOwedOrDropped'
  BY <1>4 DEF IgnoreEvent, AcceptEvent
<1>5. CASE ApplyEvent
  BY <1>5, NotWalking DEF ApplyEvent, CanLock, Noticed, TypeInv, TypeOK
<1>6. CASE CooldownOver
  BY <1>6 DEF CooldownOver
<1>7. ASSUME NEW a \in Actor, Pull(a) PROVE StaleIsOwedOrDropped'
  <2>1. PullEffect(a) /\ WriteEffect(a)
    BY <1>7, PullStep
  <2> QED
    BY <2>1 DEF PullEffect, WriteEffect
<1>8. ASSUME NEW a \in Actor, NEW f \in File, WalkFile(a, f) PROVE StaleIsOwedOrDropped'
  BY <1>8 DEF WalkFile, CanLock, Noticed, TypeInv, TypeOK, Value
<1>9. ASSUME NEW a \in Actor, NEW f \in File, UpdateFile(a, f) PROVE StaleIsOwedOrDropped'
  BY <1>9, NotWalking DEF UpdateFile, CanLock, Noticed, TypeInv, TypeOK
<1>10. ASSUME NEW a \in Actor, Install(a) PROVE StaleIsOwedOrDropped'
  BY <1>10 DEF Install, Unwalked, TypeInv, TypeOK
<1>11. CASE BootList \/ BootPulled \/ PeriodicTick
  BY <1>11 DEF BootList, BootPulled, PeriodicTick
<1>12. CASE Watch
  BY <1>12 DEF Watch, BootInv, TypeInv, TypeOK
<1>13. ASSUME NEW a \in Actor, EndRemoteSync(a) PROVE StaleIsOwedOrDropped'
  BY <1>13 DEF EndRemoteSync, AfterSync
<1>14. ASSUME NEW h \in Hook, NEW M \in Matches, WebhookSync(h, M) PROVE StaleIsOwedOrDropped'
  BY <1>14 DEF WebhookSync
<1>15. ASSUME NEW a \in Admin, AdminStep(a) PROVE StaleIsOwedOrDropped'
  <2>1. CASE DeleteLocalFiles(a)
    BY <2>1 DEF DeleteLocalFiles, RemoveRepo, Write, Touch
  <2>2. CASE UNCHANGED <<disk, indexVars, watchVars, dirty, unnoticed>>
    BY <2>2
  <2> QED
    BY <1>15, <2>1, <2>2 DEF AdminStep, ImportRemote, AdminRemove, AddStartupSync, ReloadRequest
<1>16. CASE Crash
  BY <1>16 DEF Crash
<1>17. CASE UNCHANGED vars
  BY <1>17 DEF vars
<1> HIDE DEF StaleIsOwedOrDropped
<1> QED
  BY <1>1, <1>2, <1>3, <1>4, <1>5, <1>6, <1>7, <1>8, <1>9, <1>10, <1>11, <1>12, <1>13, <1>14,
     <1>15, <1>16, <1>17
     DEF Next, Environment, Watcher, IndexUpdate, MainStep, HookStep, Actor

----------------------------------------------------------------------------
(* What a sync wrote is indexed by that sync, or given up.                 *)

LEMMA IndexedFrame ==
  ASSUME PulledIsIndexed, UNCHANGED <<disk, index, staged, watching>>, blind \subseteq blind',
         \A b \in Actor, f \in RemoteFile : Responsible(b, f) => Responsible(b, f)'
  PROVE  PulledIsIndexed'
BY DEF PulledIsIndexed, Stale, Served

LEMMA IndexedStep ==
  TypeInv /\ LockInv /\ BootInv /\ PulledIsIndexed /\ [Next]_vars => PulledIsIndexed'
<1> SUFFICES ASSUME TypeInv, LockInv, BootInv, PulledIsIndexed, [Next]_vars
             PROVE  PulledIsIndexed'
  OBVIOUS
<1> USE ValueAssumption, ActorAssumption DEF PulledIsIndexed, Stale, Served, Responsible
<1>1. ASSUME NEW f \in RemoteFile, NEW c \in Content \cup {Absent}, Publish(f, c) PROVE PulledIsIndexed'
  BY <1>1 DEF Publish
<1>2. ASSUME NEW f \in File, NEW c \in Content \cup {Absent}, EditLocal(f, c)
      PROVE  PulledIsIndexed'
  BY <1>2 DEF EditLocal, Write, RemoteFile
<1>3. CASE Poll \/ CooldownOver
  BY <1>3, IndexedFrame DEF Poll, CooldownOver
<1>4. ASSUME NEW f \in File, IgnoreEvent(f) \/ AcceptEvent(f) PROVE PulledIsIndexed'
  BY <1>4, IndexedFrame DEF IgnoreEvent, AcceptEvent
<1>5. CASE ApplyEvent
  BY <1>5, NotWalking DEF ApplyEvent, CanLock, Noticed, RemoteFile, TypeInv, TypeOK
<1>6. ASSUME NEW a \in Actor, Pull(a) PROVE PulledIsIndexed'
  <2> SUFFICES ASSUME watching', NEW f \in RemoteFile, Stale(f)'
               PROVE  f \in blind' \/ \E b \in Actor : Responsible(b, f)'
    OBVIOUS
  <2>1. PullEffect(a) /\ WriteEffect(a)
    BY <1>6, PullStep
  <2>2. f \in File /\ watching
    BY <2>1 DEF RemoteFile, PullEffect
  <2>3. CASE disk'[f] # disk[f]
    BY <2>1, <2>2, <2>3 DEF WriteEffect
  <2>4. CASE disk'[f] = disk[f]
    <3>1. f \in blind \/ \E b \in Actor : Responsible(b, f)
      BY <2>1, <2>2, <2>4 DEF PullEffect
    <3>2. ASSUME NEW b \in Actor \ {a}, Responsible(b, f) PROVE Responsible(b, f)'
      BY <2>1, <3>2 DEF PullEffect
    <3>3. Responsible(a, f) => f \in blind' \/ Responsible(a, f)'
      BY <2>1, <2>2 DEF WriteEffect
    <3>4. blind \subseteq blind'
      BY <2>1 DEF PullEffect
    <3> HIDE DEF Responsible
    <3> QED
      BY <3>1, <3>2, <3>3, <3>4
  <2> QED
    BY <2>3, <2>4
<1>7. ASSUME NEW a \in Actor, NEW f \in File, WalkFile(a, f) PROVE PulledIsIndexed'
  BY <1>7, NotWalking DEF WalkFile, CanLock, Noticed, RemoteFile, TypeInv, TypeOK, Value
<1>8. ASSUME NEW a \in Actor, NEW f \in File, UpdateFile(a, f) PROVE PulledIsIndexed'
  <2>1. \A g \in File : staged[g] = None
    BY <1>8, NotWalking DEF UpdateFile, CanLock
  <2>2. ~Stale(f)'
    BY <1>8, <2>1 DEF UpdateFile, CanLock, TypeInv, TypeOK
  <2>3. ASSUME NEW g \in RemoteFile \ {f}
        PROVE  /\ Stale(g)' => Stale(g)
               /\ g \in blind => g \in blind'
    BY <1>8, <2>1 DEF UpdateFile, CanLock, Noticed, RemoteFile, TypeInv, TypeOK
  <2>4. ASSUME NEW g \in RemoteFile \ {f}, NEW b \in Actor, Responsible(b, g)
        PROVE  Responsible(b, g)'
    BY <1>8, <2>1, <2>4 DEF UpdateFile, CanLock, RemoteFile, TypeInv, TypeOK
  <2>5. watching' = watching
    BY <1>8 DEF UpdateFile, CanLock
  <2> HIDE DEF Stale, Responsible
  <2> QED
    BY <2>2, <2>3, <2>4, <2>5
<1>9. ASSUME NEW a \in Actor, Install(a) PROVE PulledIsIndexed'
  <2>1. \A f \in File : Served(f)' = Served(f) /\ ~(mu = a /\ staged[f] = None)
    BY <1>9 DEF Install, Unwalked, TypeInv, TypeOK
  <2>2. \A b \in Actor, f \in RemoteFile : Responsible(b, f) => Responsible(b, f)'
    BY <1>9, <2>1 DEF Install, AfterReload, RemoteFile, JobInv, TypeInv, TypeOK, Actor
  <2>3. UNCHANGED <<disk, watching, blind>>
    BY <1>9 DEF Install
  <2> HIDE DEF Served, Responsible
  <2> QED
    BY <2>1, <2>2, <2>3 DEF RemoteFile
<1>10. CASE BootList \/ BootPulled \/ PeriodicTick
  <2>1. \A b \in Actor, f \in RemoteFile : Responsible(b, f) => Responsible(b, f)'
    BY <1>10 DEF BootList, BootPulled, PeriodicTick, TypeInv, TypeOK
  <2> QED
    BY <1>10, <2>1, IndexedFrame DEF BootList, BootPulled, PeriodicTick
<1>11. CASE Watch
  BY <1>11 DEF Watch, BootInv, RemoteFile, TypeInv, TypeOK
<1>12. ASSUME NEW a \in Actor, EndRemoteSync(a) PROVE PulledIsIndexed'
  BY <1>12 DEF EndRemoteSync, AfterSync, TypeInv, TypeOK
<1>13. ASSUME NEW h \in Hook, NEW M \in Matches, WebhookSync(h, M) PROVE PulledIsIndexed'
  BY <1>13 DEF WebhookSync, TypeInv, TypeOK
<1>14. ASSUME NEW a \in Admin, NEW e \in Entry, NEW s \in BOOLEAN,
              ImportRemote(a, e, s) \/ AdminRemove(a, e, s)
       PROVE  PulledIsIndexed'
  <2>1. UNCHANGED <<disk, indexVars, watching, blind, changed>>
    BY <1>14 DEF ImportRemote, AdminRemove
  <2>2. pc[a] = "idle" /\ \A b \in Actor \ {a} : pc'[b] = pc[b] /\ at'[b] = at[b]
    BY <1>14 DEF ImportRemote, AdminRemove, TypeInv, TypeOK
  <2> QED
    BY <2>1, <2>2
<1>15. ASSUME NEW a \in Admin, AddStartupSync(a) \/ ReloadRequest(a) PROVE PulledIsIndexed'
  <2>1. \A b \in Actor, f \in RemoteFile : Responsible(b, f) => Responsible(b, f)'
    BY <1>15 DEF AddStartupSync, ReloadRequest, JobInv, TypeInv, TypeOK, Actor
  <2> QED
    BY <1>15, <2>1, IndexedFrame DEF AddStartupSync, ReloadRequest
<1>16. ASSUME NEW a \in Admin, DeleteLocalFiles(a) PROVE PulledIsIndexed'
  BY <1>16 DEF DeleteLocalFiles, RemoveRepo, Write, RemoteFile, LockInv, TypeInv, TypeOK, Actor
<1>17. CASE Crash
  BY <1>17 DEF Crash
<1>18. CASE UNCHANGED vars
  BY <1>18 DEF vars
<1> HIDE DEF PulledIsIndexed
<1> QED
  BY <1>1, <1>2, <1>3, <1>4, <1>5, <1>6, <1>7, <1>8, <1>9, <1>10, <1>11, <1>12, <1>13, <1>14,
     <1>15, <1>16, <1>17, <1>18
     DEF Next, Environment, Watcher, IndexUpdate, MainStep, HookStep, AdminStep, Actor

----------------------------------------------------------------------------
(* The inductive invariant, and the properties it implies.                 *)

LEMMA InitInv == Init => IndInv
<1> SUFFICES ASSUME Init PROVE IndInv
  OBVIOUS
<1>1. TypeInv
  BY InitType
<1>2. LockInv /\ BootInv
  BY ActorAssumption DEF Init, LockInv, BootInv, Unwalked, Actor
<1>3. StaleIsOwedOrDropped /\ PulledIsIndexed /\ SuppressionHasOwner
  BY DEF Init, StaleIsOwedOrDropped, PulledIsIndexed, SuppressionHasOwner
<1> QED
  BY <1>1, <1>2, <1>3 DEF IndInv, TypeInv

LEMMA IndStep == IndInv /\ [Next]_vars => IndInv'
BY TypeStep, LockStep, BootStep, StaleStep, IndexedStep, OwnerStep DEF IndInv, TypeInv

LEMMA Invariance == Spec => []IndInv
BY InitInv, IndStep, PTL DEF Spec

(* In every reachable state, whatever the interleaving of syncs, reloads,  *)
(* edits and crashes: an article served differently from the disk is owed  *)
(* by the watcher, or its event was dropped.                               *)
THEOREM StaleIsOwedOrDroppedHolds == Spec => []StaleIsOwedOrDropped
<1>1. IndInv => StaleIsOwedOrDropped
  BY DEF IndInv
<1> QED
  BY <1>1, Invariance, PTL

(* In every reachable state: what a sync wrote is indexed by that sync,    *)
(* except for nil lists in periodicSync and failed pulls.                  *)
THEOREM PulledIsIndexedHolds == Spec => []PulledIsIndexed
<1>1. IndInv => PulledIsIndexed
  BY DEF IndInv
<1> QED
  BY <1>1, Invariance, PTL

(* In every reachable state: a set remoteSyncActive flag has a running     *)
(* sync that will clear it.                                                *)
THEOREM SuppressionHasOwnerHolds == Spec => []SuppressionHasOwner
<1>1. IndInv => SuppressionHasOwner
  BY DEF IndInv
<1> QED
  BY <1>1, Invariance, PTL

(* In every reachable state: an article that is still served differently   *)
(* from the disk when nothing runs or is pending is one whose event was    *)
(* dropped, and if it was pulled, its puller did not index it either.      *)
(* This is what remains of CloneIsServed.                                  *)
THEOREM SettledServesHolds == Spec => []SettledServes
<1>1. IndInv => SettledServes
  <2> SUFFICES ASSUME IndInv, Settled, NEW f \in File, index[f] # disk[f]
               PROVE  f \in unnoticed /\ (f \in RemoteFile => f \in blind)
    BY DEF SettledServes
  <2>1. mu = None
    BY ActorAssumption DEF IndInv, TypeOK, LockInv, Settled
  <2>2. Stale(f)
    BY <2>1, NotWalking DEF IndInv, Stale, Served
  <2>3. ~WatcherOwes(f)
    BY ValueAssumption DEF Settled, WatcherOwes
  <2>4. \A a \in Actor : ~Responsible(a, f)
    BY DEF Settled, Responsible
  <2> QED
    BY <2>2, <2>3, <2>4 DEF IndInv, Settled, StaleIsOwedOrDropped, PulledIsIndexed
<1> QED
  BY <1>1, Invariance, PTL

----------------------------------------------------------------------------
(* The pipeline implements IndexMap: what UpdateFiles and the watcher do   *)
(* to the index is an Update, the steps of a walk are Read and Install, a  *)
(* crash is Forget, and everything else stutters.                          *)
THEOREM IndexIsMapHolds == Spec => IndexIsMap
<1> DEFINE new == [f \in {g \in File : staged[g] # None} |-> staged[f]]
<1>1. Init => Dictionary!Init
  BY DEF Init, Unwalked, Dictionary!Init, Dictionary!Empty, Dictionary!Nothing
<1>2. IndInv /\ [Next]_vars => [Dictionary!Next]_<<index, new>>
  <2> SUFFICES ASSUME IndInv, [Next]_vars PROVE [Dictionary!Next]_<<index, new>>
    OBVIOUS
  <2> USE ValueAssumption DEF IndInv, TypeOK
  <2>1. ASSUME UNCHANGED <<index, staged>> PROVE UNCHANGED <<index, new>>
    BY <2>1
  <2>2. ASSUME NEW f \in File, mu = None \/ \E a \in Actor : mu = a /\ pc[a] = "update",
               index' = [index EXCEPT ![f] = disk[f]], UNCHANGED staged
        PROVE  Dictionary!Next
    <3>1. new = Dictionary!Nothing
      BY <2>2, NotWalking DEF Dictionary!Nothing
    <3>2. new' = new
      BY <2>2
    <3>3. Dictionary!Update(f, disk[f])
      BY <2>2, <3>1, <3>2 DEF Dictionary!Update
    <3>4. disk[f] \in Value \cup {Absent}
      BY <2>2
    <3> HIDE DEF new, IndInv, TypeOK
    <3> QED
      BY <3>3, <3>4 DEF Dictionary!Next
  <2>3. CASE ApplyEvent
    BY <2>2, <2>3 DEF ApplyEvent, CanLock
  <2>4. ASSUME NEW a \in Actor, NEW f \in File, UpdateFile(a, f) PROVE Dictionary!Next
    BY <2>2, <2>4 DEF UpdateFile, CanLock
  <2>5. ASSUME NEW a \in Actor, NEW f \in File, WalkFile(a, f) PROVE Dictionary!Next
    <3>1. f \notin DOMAIN new /\ disk[f] \in Value /\ staged' = [staged EXCEPT ![f] = disk[f]]
      BY <2>5 DEF WalkFile
    <3>2. new' = [g \in DOMAIN new \cup {f} |-> IF g = f THEN disk[f] ELSE new[g]]
      BY <3>1
    <3>3. index' = index
      BY <2>5 DEF WalkFile
    <3>4. disk[f] \in Value \cup {Absent}
      BY <3>1
    <3> HIDE DEF IndInv, TypeOK
    <3> QED
      BY <3>1, <3>2, <3>3, <3>4 DEF Dictionary!Next, Dictionary!Read
  <2>6. ASSUME NEW a \in Actor, Install(a) PROVE Dictionary!Next
    <3>1. new = staged /\ new' = Dictionary!Nothing
      BY <2>6 DEF Install, Unwalked, Dictionary!Nothing
    <3>2. DOMAIN staged = File /\ index' = staged
      BY <2>6 DEF Install
    <3> HIDE DEF IndInv, TypeOK
    <3>3. Dictionary!Install
      BY <3>1, <3>2 DEF Dictionary!Install
    <3> QED
      BY <3>3 DEF Dictionary!Next
  <2>7. CASE Crash
    BY <2>7 DEF Crash, Unwalked, Dictionary!Next, Dictionary!Forget, Dictionary!Empty, Dictionary!Nothing
  <2>8. CASE Environment \/ Poll \/ CooldownOver
    BY <2>1, <2>8 DEF Environment, Publish, EditLocal, Poll, CooldownOver
  <2>9. ASSUME NEW f \in File, IgnoreEvent(f) \/ AcceptEvent(f) PROVE UNCHANGED <<index, new>>
    BY <2>1, <2>9 DEF IgnoreEvent, AcceptEvent
  <2>10. ASSUME NEW a \in Actor, Pull(a) PROVE UNCHANGED <<index, new>>
    BY <2>1, <2>10 DEF Pull, PullMoves, PullRepo, PullUnlisted, PullBreaks, PullFails, UpToDate,
                       StartClone, Download, CloneHead, FinishClone, CloneFails,
                       WriteEntry, TearEntry, FinishExtract
  <2>11. CASE MainStep \/ \E h \in Hook : HookStep(h)
    BY <2>1, <2>11 DEF MainStep, BootList, BootPulled, Watch, PeriodicTick, EndRemoteSync,
                       HookStep, WebhookSync
  <2>12. CASE \E a \in Admin : AdminStep(a)
    BY <2>1, <2>12 DEF AdminStep, ImportRemote, AdminRemove, AddStartupSync, DeleteLocalFiles,
                       ReloadRequest
  <2>13. CASE UNCHANGED vars
    BY <2>1, <2>13 DEF vars
  <2> QED
    BY <2>3, <2>4, <2>5, <2>6, <2>7, <2>8, <2>9, <2>10, <2>11, <2>12, <2>13
       DEF Next, Watcher, IndexUpdate
<1> QED
  BY <1>1, <1>2, Invariance, PTL DEF Spec, IndexIsMap, Dictionary!Spec
=============================================================================
