------------------------------ MODULE PeerUrls ------------------------------
(***************************************************************************)
(* What the announcement protocol promises of the peer registry: beside    *)
(* the operator, only the node that holds a key changes the URL registered *)
(* for it, only to a URL it announced itself, and only while the registry  *)
(* knows the key.  How nonces achieve that is the business of Announce.    *)
(***************************************************************************)
CONSTANTS
  Peer,  \* the public keys of nodes that may announce themselves
  Url,
  None

VARIABLES
  url,       \* the URL registered for a key, None when the key is unknown
  source,    \* who wrote it last: the operator, or the node that holds the key
  announced  \* the URLs the holder of a key has announced so far

Init ==
  /\ url \in [Peer -> Url \cup {None}]
  /\ source = [k \in Peer |-> "operator"]
  /\ announced = [k \in Peer |-> {}]

(* The operator adds, corrects or removes a peer.                          *)
Administer(k, u) ==
  /\ url' = [url EXCEPT ![k] = u]
  /\ source' = [source EXCEPT ![k] = "operator"]
  /\ UNCHANGED announced

AnnounceUrl(k, u) ==
  /\ announced' = [announced EXCEPT ![k] = @ \cup {u}]
  /\ UNCHANGED <<url, source>>

Accept(k, u) ==
  /\ url[k] # None
  /\ u \in announced[k]
  /\ url' = [url EXCEPT ![k] = u]
  /\ source' = [source EXCEPT ![k] = "node"]
  /\ UNCHANGED announced

Next == \E k \in Peer :
  \/ \E u \in Url \cup {None} : Administer(k, u)
  \/ \E u \in Url : AnnounceUrl(k, u) \/ Accept(k, u)

Spec == Init /\ [][Next]_<<url, source, announced>>
=============================================================================
