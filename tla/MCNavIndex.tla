----------------------------- MODULE MCNavIndex -----------------------------
(* NavIndex for TLC: a vault with an index.md and a folder with a guide,   *)
(* and an empty vault.                                                     *)
EXTENDS NavIndex, TLC

CONSTANTS vault, sub, empty, index, guide

SomeFolders == {vault, sub, empty}
SomeParent == [f \in SomeFolders |-> IF f = sub THEN vault ELSE None]
SomeGuides == {index, guide}
SomeIn == [g \in SomeGuides |-> IF g = index THEN vault ELSE sub]
SomeIndexOf == [f \in SomeFolders |-> IF f = vault THEN index ELSE None]
Symmetry ==
  Permutations(Scanner) \cup Permutations(Admin) \cup Permutations(Text) \cup Permutations(Body)
=============================================================================
