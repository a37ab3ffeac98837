------------------------------ MODULE IndexMap ------------------------------
(***************************************************************************)
(* What the rest of the program takes Store.nav to be: a dictionary of     *)
(* articles by their paths, in which single articles are replaced, and     *)
(* which a reload replaces as a whole by one it has read article by        *)
(* article.  No article is replaced while a reload reads: what it installs *)
(* is never older than what it takes away.                                 *)
(*                                                                         *)
(* ContentSync, NavTree and Verification look at the index each in its own *)
(* way; each implements this module.                                       *)
(***************************************************************************)
CONSTANTS
  File,
  Value,  \* what an article can be
  Absent  \* no article

VARIABLES
  index,
  newNav  \* the articles a reload has read so far; its domain is where it has been

Empty == [f \in File |-> Absent]
Nothing == [f \in {} |-> Absent]

Init ==
  /\ index = Empty
  /\ newNav = Nothing

(* processArticle in UpdateFiles, and the removal before it.               *)
Update(f, v) ==
  /\ newNav = Nothing
  /\ index' = [index EXCEPT ![f] = v]
  /\ UNCHANGED newNav

Read(f, v) ==
  /\ f \notin DOMAIN newNav
  /\ newNav' = [g \in DOMAIN newNav \cup {f} |-> IF g = f THEN v ELSE newNav[g]]
  /\ UNCHANGED index

Install ==
  /\ DOMAIN newNav = File
  /\ index' = newNav
  /\ newNav' = Nothing

(* The process stops; the next one begins with an empty index.             *)
Forget == index' = Empty /\ newNav' = Nothing

Next ==
  \/ \E f \in File, v \in Value \cup {Absent} : Update(f, v) \/ Read(f, v)
  \/ Install
  \/ Forget

Spec == Init /\ [][Next]_<<index, newNav>>
=============================================================================
