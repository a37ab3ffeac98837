--------------------------- MODULE MCSyncFolders ---------------------------
(* SyncFolders for TLC: the names a/b and b, which syncs take for one, and *)
(* as many sources as a run gives.                                         *)
EXTENDS SyncFolders, SequencesExt, TLC

CONSTANTS repo, mirror, archive, document, peer, hub

SomeDirs == {<<"b">>, <<"a", "b">>}
SomeDocuments == {<<"b.md">>, <<"a", "b.md">>}
SomeInside == {<<p, q>> \in (SomeDirs \cup SomeDocuments) \X (SomeDirs \cup SomeDocuments) : IsPrefix(p, q)}
SomeBase == [p \in SomeDirs \cup SomeDocuments |-> <<Last(p)>>]
SomeMd == [p \in SomeDirs |-> Append(Front(p), Last(p) \o ".md")]
SomeKind ==
  [s \in Source |-> IF s \in {repo, mirror} THEN "git" ELSE IF s = archive THEN "archive" ELSE "raw"]
SomePeers == Source \cap {peer}
TopName == {<<"b">>}
SomeConfig == {<<<<"a", "b">>, repo>>}
SomeMatches == {hub} \X (Source \cap {repo, document})
=============================================================================
