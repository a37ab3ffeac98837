---------------------------- MODULE PeerRegistry ----------------------------
(***************************************************************************)
(* The peers table of registry.db and those who write it: admin requests   *)
(* that add, refresh and delete peers, the goroutines that import a peer's *)
(* own list (gossip), and confirmed URL announcements.  A statement or a   *)
(* transaction on the database is one step; fetching from a peer happens   *)
(* some steps before the result is stored.                                 *)
(*                                                                         *)
(* A peer is identified by its public key when that is known and by its    *)
(* URL otherwise; URLs need not be unique.                                 *)
(***************************************************************************)
EXTENDS Naturals

CONSTANTS
  Url,      \* the URLs of nodes, of this one too if it has one
  Key,      \* public keys of nodes
  NoKey,    \* no public key ("" in requests, NULL in the table)
  Asked,    \* the types requests name: some of the three, and "other" for anything else
  Path,     \* content paths a peer can export
  SelfUrl,  \* this node's public_url
  SelfKey,  \* this node's public key
  Lists,    \* what a peer may answer at /-/peers: sets of items
  Admin,    \* admin requests that may run at the same time
  Gossip,   \* gossip goroutines that may run at the same time
  MaxId,    \* bound on the rows ever inserted
  None

PeerType == {"upstream", "downstream", "mirror"}
Keep == ""  \* an empty peer_type leaves the one on record alone
Item == [url : Url, key : Key \cup {NoKey}]
Row  == [id : 1 .. MaxId, url : Url, key : Key \cup {NoKey}, type : PeerType]

(* What AddPeer is given: registry.Peer without the descriptive fields;    *)
(* the exported paths of an answer are only looked at when it is stored.   *)
Peer == [url : Url, key : Key \cup {NoKey}, type : Asked \cup PeerType \cup {Keep},
         import : BOOLEAN]

ASSUME RegistryAssumption ==
  /\ MaxId \in Nat
  /\ NoKey \notin Key \cup {SelfKey}
  /\ None \notin Url \cup {SelfUrl} \cup Item \cup Peer
  /\ Asked \subseteq PeerType \cup {"other"}
  /\ Lists \subseteq SUBSET Item

VARIABLES
  peers,     \* the rows of the table
  seq,       \* the last id given out (AUTOINCREMENT)
  exported,  \* peer_exported_paths
  adding,    \* the peer an admin request has fetched and is about to store
  from,      \* the URL whose list a gossip goroutine imports, None when it has ended
  todo,      \* items of that list still to be looked at, None before it is fetched
  self,      \* the public_url the goroutine has read, None when unset or unreadable
  pick,      \* the item it found unknown and is about to add
  granted,   \* history: rows whose type an operator has set to downstream or mirror
  since,     \* history: rows written since the goroutine looked its item up
  unread     \* history: that look-up failed

tables   == <<peers, seq, exported>>
gossipVars == <<from, todo, self, pick>>
lookup   == <<since, unread>>
history  == <<granted, lookup>>
vars == <<tables, adding, gossipVars, history>>

Init ==
  /\ peers = {}
  /\ seq = 0
  /\ exported = {}
  /\ adding = [a \in Admin |-> None]
  /\ from = [g \in Gossip |-> None]
  /\ todo = [g \in Gossip |-> None]
  /\ self = [g \in Gossip |-> None]
  /\ pick = [g \in Gossip |-> None]
  /\ granted = {}
  /\ since = [g \in Gossip |-> {}]
  /\ unread = [g \in Gossip |-> FALSE]

----------------------------------------------------------------------------
(* registry.AddPeer, one transaction.  (A definition whose name ends in    *)
(* Fault is a plausible mistake in the one that follows it; nothing uses   *)
(* it.)                                                                    *)

WithKey(k) == {r \in peers : k # NoKey /\ r.key = k}
WithUrl(u) == {r \in peers : r.url = u}

SameNodeFault(p) == WithUrl(p.url)

SameNode(p) == IF WithKey(p.key) # {} THEN WithKey(p.key) ELSE WithUrl(p.url)

Normalize(t) == IF t \in PeerType THEN t ELSE "upstream"

(* The paths of row id, unless the answer named none.                      *)
ReplacePaths(id) ==
  \/ UNCHANGED exported
  \/ \E paths \in SUBSET Path :
       exported' = {x \in exported : x[1] # id} \cup ({id} \X paths)

InsertPeer(p, id) ==
  /\ SameNode(p) = {}
  /\ seq < MaxId
  /\ id = seq + 1
  /\ seq' = id
  /\ peers' = peers \cup {[id |-> id, url |-> p.url, key |-> p.key, type |-> Normalize(p.type)]}

(* The query has no ORDER BY: when several rows have the URL, any of them  *)
(* is updated.  The CHECK constraint refuses a type that is none of the    *)
(* three.                                                                  *)
UpdatePeer(p, id) ==
  /\ p.type # "other"
  /\ \E old \in SameNode(p) :
       /\ old.id = id
       /\ peers' = (peers \ {old}) \cup
            {[old EXCEPT !.url = p.url,
                         !.key = IF p.key = NoKey THEN @ ELSE p.key,
                         !.type = IF p.type = Keep THEN @ ELSE p.type]}
  /\ UNCHANGED seq

(* Those who have an item to add could not see this.                       *)
Wrote(id) == since' = [g \in Gossip |-> IF pick'[g] # None THEN since[g] \cup {id} ELSE {}]

AddPeer(p, id) ==
  /\ InsertPeer(p, id) \/ UpdatePeer(p, id)
  /\ ReplacePaths(id)
  /\ Wrote(id)

----------------------------------------------------------------------------
(* addPeer and refreshPeer: fetch /-/nodeinfo from the URL, then AddPeer.  *)
(* Any node may answer there: nodes move, and start over with a new key.   *)

FetchNodeInfo(a, u, t, import) ==
  /\ adding[a] = None
  /\ \E k \in Key \cup {NoKey} :
       adding' = [adding EXCEPT ![a] = [url |-> u, key |-> k, type |-> t, import |-> import]]
  /\ UNCHANGED <<tables, gossipVars, history>>

RequestAdd(a, u, t, import) == FetchNodeInfo(a, u, t, import)
RefreshPeer(a, u) == FetchNodeInfo(a, u, Keep, FALSE)

SavePeer(a) ==
  LET p == adding[a]
  IN /\ p # None
     /\ UNCHANGED <<todo, self, pick, unread>>
     /\ \E id \in 1 .. MaxId :
          /\ AddPeer(p, id)
          /\ granted' = IF p.type \in {"downstream", "mirror"} THEN granted \cup {id} ELSE granted
     /\ adding' = [adding EXCEPT ![a] = None]
     /\ IF p.import THEN \E g \in Gossip : from[g] = None /\ from' = [from EXCEPT ![g] = p.url]
        ELSE UNCHANGED from

(* The transaction fails and is rolled back: a constraint, a busy database.*)
SaveFails(a) ==
  /\ adding[a] # None
  /\ adding' = [adding EXCEPT ![a] = None]
  /\ UNCHANGED <<tables, gossipVars, history>>

DeletedPathsFault(id) == {}

(* The junction rows DeletePeer deletes with a peer.                       *)
DeletedPaths(id) == {x \in exported : x[1] = id}

DeletePeer(u) ==
  /\ \E old \in WithUrl(u) :
       /\ peers' = peers \ {old}
       /\ exported' = exported \ DeletedPaths(old.id)
  /\ UNCHANGED <<seq, adding, gossipVars, history>>

----------------------------------------------------------------------------
(* importPeerGossip: fetch the list, read the own URL once, then look     *)
(* every item up and, in a later transaction, add it.  The error of a      *)
(* look-up is dropped: one that fails finds nobody.                        *)

FetchPeers(g) ==
  /\ from[g] # None
  /\ todo[g] = None
  /\ \E S \in Lists : todo' = [todo EXCEPT ![g] = S]
  /\ \E u \in {SelfUrl, None} : self' = [self EXCEPT ![g] = u]
  /\ UNCHANGED <<tables, adding, from, pick, history>>

RecognisedFault(i) == WithUrl(i.url)

Recognised(i) == IF i.key # NoKey THEN WithKey(i.key) ELSE WithUrl(i.url)

SkipFault(g, i, fails) == i.url \in {self[g], from[g]} \/ i.key = SelfKey

Skip(g, i, fails) ==
  \/ i.url \in {self[g], from[g]}
  \/ i.key = SelfKey
  \/ Recognised(i) # {} /\ ~fails

SkipItem(g, i, fails) ==
  /\ pick[g] = None
  /\ todo[g] # None /\ i \in todo[g]
  /\ Skip(g, i, fails)
  /\ todo' = [todo EXCEPT ![g] = @ \ {i}]
  /\ UNCHANGED <<tables, adding, from, self, pick, history>>

PickItem(g, i, fails) ==
  /\ pick[g] = None
  /\ todo[g] # None /\ i \in todo[g]
  /\ ~Skip(g, i, fails)
  /\ todo' = [todo EXCEPT ![g] = @ \ {i}]
  /\ pick' = [pick EXCEPT ![g] = i]
  /\ since' = [since EXCEPT ![g] = {}]
  /\ unread' = [unread EXCEPT ![g] = fails]
  /\ UNCHANGED <<tables, adding, from, self, granted>>

GossipTypeFault == "downstream"

GossipType == "upstream"

AddItem(g) ==
  /\ pick[g] # None
  /\ pick' = [pick EXCEPT ![g] = None]
  /\ unread' = [unread EXCEPT ![g] = FALSE]
  /\ LET p == [url |-> pick[g].url, key |-> pick[g].key, type |-> GossipType, import |-> FALSE]
     IN \E id \in 1 .. MaxId : AddPeer(p, id)
  /\ UNCHANGED <<adding, from, todo, self, granted>>

AddItemFails(g) ==
  /\ pick[g] # None
  /\ pick' = [pick EXCEPT ![g] = None]
  /\ since' = [since EXCEPT ![g] = {}]
  /\ unread' = [unread EXCEPT ![g] = FALSE]
  /\ UNCHANGED <<tables, adding, from, todo, self, granted>>

(* The list could not be fetched, or has been worked off.                  *)
EndGossip(g) ==
  /\ from[g] # None
  /\ todo[g] \in {None, {}}
  /\ pick[g] = None
  /\ from' = [from EXCEPT ![g] = None]
  /\ todo' = [todo EXCEPT ![g] = None]
  /\ self' = [self EXCEPT ![g] = None]
  /\ UNCHANGED <<tables, adding, pick, history>>

----------------------------------------------------------------------------
(* A confirmed announcement (announceConfirm): one UPDATE by public key.   *)
UpdatePeerURL(k, u) ==
  /\ UNCHANGED <<seq, exported, adding, gossipVars, granted, unread>>
  /\ \E old \in WithKey(k) :
       /\ peers' = (peers \ {old}) \cup {[old EXCEPT !.url = u]}
       /\ Wrote(old.id)

Crash ==
  /\ adding' = [a \in Admin |-> None]
  /\ from' = [g \in Gossip |-> None]
  /\ todo' = [g \in Gossip |-> None]
  /\ self' = [g \in Gossip |-> None]
  /\ pick' = [g \in Gossip |-> None]
  /\ since' = [g \in Gossip |-> {}]
  /\ unread' = [g \in Gossip |-> FALSE]
  /\ UNCHANGED <<tables, granted>>
----------------------------------------------------------------------------
Operator(a) ==
  \/ \E u \in Url, t \in Asked, import \in BOOLEAN : RequestAdd(a, u, t, import)
  \/ \E u \in Url : RefreshPeer(a, u)
  \/ SavePeer(a)
  \/ SaveFails(a)

ImportGossip(g) ==
  \/ FetchPeers(g)
  \/ \E i \in Item, fails \in BOOLEAN : SkipItem(g, i, fails) \/ PickItem(g, i, fails)
  \/ AddItem(g)
  \/ AddItemFails(g)
  \/ EndGossip(g)

Next ==
  \/ \E a \in Admin : Operator(a)
  \/ \E u \in Url : DeletePeer(u)
  \/ \E g \in Gossip : ImportGossip(g)
  \/ \E k \in Key, u \in Url : UpdatePeerURL(k, u)
  \/ Crash

Spec == Init /\ [][Next]_vars

----------------------------------------------------------------------------
TypeOK ==
  /\ peers \subseteq Row
  /\ seq \in 0 .. MaxId
  /\ exported \subseteq (1 .. MaxId) \X Path
  /\ adding \in [Admin -> Peer \cup {None}]
  /\ from \in [Gossip -> Url \cup {None}]
  /\ todo \in [Gossip -> (SUBSET Item) \cup {None}]
  /\ self \in [Gossip -> {SelfUrl, None}]
  /\ pick \in [Gossip -> Item \cup {None}]
  /\ granted \subseteq 1 .. MaxId
  /\ since \in [Gossip -> SUBSET (1 .. MaxId)]
  /\ unread \in [Gossip -> BOOLEAN]

(* AddPeer and UpdatePeerURL never put one key, or one id, in two rows: no *)
(* order of adds, moves and deletes runs into the UNIQUE constraint.       *)
OneRowPerNode ==
  \A r, s \in peers : r.id = s.id \/ (r.key # NoKey /\ r.key = s.key) => r = s

(* exported paths only exist for peers that do: foreign keys are not       *)
(* enforced, so AddPeer and DeletePeer keep the two tables in step.        *)
NoOrphanPaths == \A x \in exported : \E r \in peers : r.id = x[1]

(* admin_peers.go:291: only the operator promotes.  Whatever lists peers   *)
(* send, a row is downstream or mirror only if a request set it so.        *)
OperatorPromotes == \A r \in peers : r.type # "upstream" => r.id \in granted

(* Gossip could not know that row id is about the item it is adding: the   *)
(* row was written after it looked, or the look-up failed.                 *)
Unseen(g, id) == id \in since[g] \/ unread[g]

(* When gossip adds a node, a row that it would have recognised as that    *)
(* node can only be one it could not see.  importPeerGossip.               *)
CheckedUnknown ==
  \A g \in Gossip : pick[g] # None => \A r \in Recognised(pick[g]) : Unseen(g, r.id)

(* A row stands for one node, and changes only by what is known of it.     *)
(* Its key takes it to another URL: the key announced that URL, or         *)
(* answered there when a request asked (which may be before an             *)
(* announcement that the request then overwrites), or gossip listed it     *)
(* there and could not see the row.                                        *)
ByItsKey(r, s) ==
  /\ r.key # NoKey /\ r.key = s.key
  /\ \/ UpdatePeerURL(r.key, s.url)
     \/ \E a \in Admin : SavePeer(a) /\ adding[a].key = r.key /\ adding[a].url = s.url
     \/ \E g \in Gossip : /\ AddItem(g) /\ pick[g].key = r.key /\ pick[g].url = s.url
                          /\ Unseen(g, r.id)

(* It passes to another key only if that key is in no row, and answered at *)
(* the row's URL when a request asked, or was listed there.                *)
TakenOver(r, s) ==
  /\ s.key # NoKey /\ WithKey(s.key) = {}
  /\ \/ \E a \in Admin : SavePeer(a) /\ adding[a].key = s.key /\ adding[a].url = r.url
     \/ \E g \in Gossip : AddItem(g) /\ pick[g].key = s.key /\ pick[g].url = r.url

(* It changes its type by a request for that type; gossip takes a type     *)
(* back only with the row it takes over, or one it could not see.          *)
Retyped(r, s) ==
  \/ \E a \in Admin : SavePeer(a) /\ adding[a].type = s.type
  \/ \E g \in Gossip : AddItem(g) /\ s.type = "upstream" /\ (r.key # s.key \/ Unseen(g, r.id))

RowStep ==
  \A r \in peers, s \in peers' : r.id = s.id =>
    /\ r.url # s.url => ByItsKey(r, s)
    /\ r.key # s.key => TakenOver(r, s)
    /\ r.type # s.type => Retyped(r, s)

(* However requests, gossip and announcements interleave between looking   *)
(* and storing, a row moves with its key, changes hands at its URL, and    *)
(* keeps the type it was asked to have.  AddPeer, UpdatePeerURL.           *)
RowsFollowTheirNode == [][RowStep]_vars
=============================================================================
