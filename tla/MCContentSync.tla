--------------------------- MODULE MCContentSync ---------------------------
(* Small instances of ContentSync.                                         *)
EXTENDS ContentSync, TLC

CONSTANTS f1, f3, e1

(* f3 is written by hand; e1 owns the other articles.                      *)
OwnerOne == [f \in File |-> IF f = f3 THEN None ELSE e1]

(* The webhook's repository URL is a prefix of e1's.                       *)
MatchesOne == {{e1}}

(* Upstream publishes nothing: whatever is missing is missing since the    *)
(* clone.                                                                  *)
QuietSpec == Init /\ [][Next /\ UNCHANGED remote]_vars
=============================================================================
