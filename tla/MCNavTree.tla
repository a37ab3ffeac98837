----------------------------- MODULE MCNavTree -----------------------------
(* NavTree and Pages for TLC: three levels of directories, two articles at *)
(* the top, a directory called root with a directory of its own, an        *)
(* article and a folder of one name, three RED_KNOWLEDGEs (one of them of  *)
(* the data directory), and a path with a dot.                             *)
EXTENDS Pages, SequencesExt, TLC

CONSTANTS top, sub, below, f1, f2, f3, f4, f5

SomeDirs == {Root, top, sub, below}
SomeAbove ==
  [d \in SomeDirs |-> CASE d = sub -> {top} [] d = below -> {Root} [] OTHER -> {}]
SomeFiles == {f1, f2, f3, f4, f5}
SomeIn ==
  [f \in SomeFiles |-> CASE f \in {f1, f2} -> Root [] f = f3 -> top [] f = f4 -> sub
                         [] OTHER -> below]
RootOnly == {Root}

SomeUrlOf ==
  [f \in SomeFiles |-> CASE f = f1 -> <<"top">>
                         [] f = f2 -> <<"RED_KNOWLEDGE">>
                         [] f = f3 -> <<"top", "RED_KNOWLEDGE">>
                         [] f = f4 -> <<"top", ".sub", "guide">>
                         [] OTHER -> <<"root", "below", "RED_KNOWLEDGE">>]
SomeFolderUrl ==
  [d \in SomeDirs |-> CASE d = Root -> <<"root">>
                        [] d = top -> <<"top">>
                        [] d = sub -> <<"top", ".sub">>
                        [] OTHER -> <<"root", "below">>]
Empty == <<>>
TopMd == <<"top.md">>
SomeUrls == {Empty, TopMd} \cup {SomeUrlOf[f] : f \in SomeFiles} \cup {SomeFolderUrl[d] : d \in SomeDirs}
SomeWithoutMd == [u \in SomeUrls |-> IF u = TopMd THEN <<"top">> ELSE u]
SomeDefault ==
  [u \in SomeUrls |-> LET v == Append(u, "RED_KNOWLEDGE") IN IF v \in SomeUrls THEN v ELSE None]
SomeHidden == {u \in SomeUrls : Contains(u, ".sub")}
Symmetry == Permutations(Body)
=============================================================================
