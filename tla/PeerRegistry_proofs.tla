------------------------ MODULE PeerRegistry_proofs ------------------------
(***************************************************************************)
(* The peers table for every set of nodes, URLs, lists and requests and    *)
(* any number of rows.                                                     *)
(***************************************************************************)
EXTENDS PeerRegistry, TLAPS

USE RegistryAssumption
USE DEF tables, gossipVars, lookup, history, Unseen

(* No id is in use that the table has not given out yet.                   *)
IdsGivenOut == \A r \in peers : r.id <= seq

TableInv == IdsGivenOut /\ OneRowPerNode /\ NoOrphanPaths
IndInv == TypeOK /\ TableInv /\ OperatorPromotes /\ CheckedUnknown

(* The four statements that write a row leave it as new.                   *)
Writes(id, new) ==
  /\ new \in Row
  /\ new.id = id
  /\ peers' = {r \in peers : r.id # id} \cup {new}
  /\ \A r \in peers : r.id # id /\ new.key # NoKey => r.key # new.key
  /\ seq' \in 0 .. MaxId /\ seq <= seq' /\ id <= seq'
  /\ exported' \subseteq (1 .. MaxId) \X Path
  /\ \A x \in exported' : x \in exported \/ x[1] = id
  /\ Wrote(id)

----------------------------------------------------------------------------
(* Rows are told apart by their ids.                                       *)
LEMMA OthersById ==
  ASSUME IndInv, NEW old \in peers
  PROVE  peers \ {old} = {r \in peers : r.id # old.id}
BY DEF IndInv, TableInv, OneRowPerNode

(* Replacing a row's paths touches no other row's.                         *)
LEMMA PathsReplaced ==
  ASSUME IndInv, NEW id \in 1 .. MaxId, ReplacePaths(id)
  PROVE  /\ exported' \subseteq (1 .. MaxId) \X Path
         /\ \A x \in exported' : x \in exported \/ x[1] = id
<1>1. CASE UNCHANGED exported
  BY <1>1 DEF IndInv, TypeOK
<1>2. CASE \E paths \in SUBSET Path :
             exported' = {x \in exported : x[1] # id} \cup ({id} \X paths)
  BY <1>2 DEF IndInv, TypeOK
<1> QED
  BY <1>1, <1>2 DEF ReplacePaths

(* AddPeer: a fresh row, or the one row it found.  A key is only given to  *)
(* a row when no row has it, or to the row that has it.                    *)
LEMMA AddPeerWrites ==
  ASSUME IndInv, NEW p \in Peer, NEW id \in 1 .. MaxId, AddPeer(p, id)
  PROVE  \E new : /\ Writes(id, new)
                  /\ \/ new.type = "upstream"
                     \/ p.type \in {"downstream", "mirror"}
                     \/ id \in granted
<1>1. /\ exported' \subseteq (1 .. MaxId) \X Path
      /\ \A x \in exported' : x \in exported \/ x[1] = id
      /\ Wrote(id)
  BY PathsReplaced DEF AddPeer
<1>2. CASE InsertPeer(p, id)
  <2> DEFINE new == [id |-> id, url |-> p.url, key |-> p.key, type |-> Normalize(p.type)]
  <2>1. new \in Row /\ new.id = id
    BY DEF Row, Peer, Normalize, PeerType
  <2>2. seq' \in 0 .. MaxId /\ seq <= seq' /\ id <= seq'
    BY <1>2 DEF InsertPeer, IndInv, TypeOK
  <2>3. peers' = {r \in peers : r.id # id} \cup {new}
    BY <1>2 DEF InsertPeer, IndInv, TableInv, IdsGivenOut, TypeOK, Row
  <2>4. \A r \in peers : r.id # id /\ new.key # NoKey => r.key # new.key
    BY <1>2 DEF InsertPeer, SameNode, WithKey
  <2>5. new.type = "upstream" \/ p.type \in {"downstream", "mirror"}
    BY DEF Normalize, PeerType
  <2> QED
    BY <1>1, <2>1, <2>2, <2>3, <2>4, <2>5 DEF Writes
<1>3. CASE UpdatePeer(p, id)
  <2>1. PICK old \in SameNode(p) :
          /\ old.id = id
          /\ peers' = (peers \ {old}) \cup
               {[old EXCEPT !.url = p.url,
                            !.key = IF p.key = NoKey THEN @ ELSE p.key,
                            !.type = IF p.type = Keep THEN @ ELSE p.type]}
    BY <1>3 DEF UpdatePeer
  <2>2. old \in peers /\ old \in Row
    BY <2>1 DEF SameNode, WithKey, WithUrl, IndInv, TypeOK
  <2> DEFINE key == IF p.key = NoKey THEN old.key ELSE p.key
             type == IF p.type = Keep THEN old.type ELSE p.type
             new == [old EXCEPT !.url = p.url, !.key = key, !.type = type]
  <2>3. new.id = id /\ new.url = p.url /\ new.key = key /\ new.type = type
    BY <2>1, <2>2 DEF Row
  <2>4. p.type \in PeerType \cup {Keep}
    BY <1>3 DEF UpdatePeer, Peer
  <2>5. new \in Row /\ new.id = id
    <3>1. p.url \in Url /\ key \in Key \cup {NoKey} /\ type \in PeerType
      BY <2>2, <2>4 DEF Row, Peer
    <3> QED
      BY <2>2, <2>3, <3>1 DEF Row
  <2>6. seq' \in 0 .. MaxId /\ seq <= seq' /\ id <= seq'
    BY <1>3, <2>1, <2>2 DEF UpdatePeer, IndInv, TypeOK, TableInv, IdsGivenOut
  <2>7. peers' = {r \in peers : r.id # id} \cup {new}
    BY <2>1, <2>2, OthersById
  <2>8. \A r \in peers : r.id # id /\ new.key # NoKey => r.key # new.key
    BY <2>1, <2>2, <2>3 DEF SameNode, WithKey, WithUrl, IndInv, TableInv, OneRowPerNode
  <2>9. \/ new.type = "upstream"
        \/ p.type \in {"downstream", "mirror"}
        \/ id \in granted
    BY <2>1, <2>2, <2>3, <2>4 DEF PeerType, IndInv, OperatorPromotes
  <2> HIDE DEF new
  <2> QED
    BY <1>1, <2>5, <2>6, <2>7, <2>8, <2>9 DEF Writes
<1> QED
  BY <1>2, <1>3 DEF AddPeer

(* UpdatePeerURL moves the row of a key.                                   *)
LEMMA UpdatePeerURLWrites ==
  ASSUME IndInv, NEW k \in Key, NEW u \in Url, UpdatePeerURL(k, u)
  PROVE  \E id \in 1 .. MaxId : \E new :
           Writes(id, new) /\ (new.type = "upstream" \/ id \in granted)
<1>1. PICK old \in WithKey(k) :
        peers' = (peers \ {old}) \cup {[old EXCEPT !.url = u]} /\ Wrote(old.id)
  BY DEF UpdatePeerURL
<1>2. old \in peers /\ old \in Row
  BY <1>1 DEF WithKey, IndInv, TypeOK
<1> DEFINE new == [old EXCEPT !.url = u]
<1>3. new \in Row /\ new.id = old.id /\ new.key = old.key /\ new.type = old.type /\ old.id \in 1 .. MaxId
  BY <1>2 DEF Row
<1>4. peers' = {r \in peers : r.id # old.id} \cup {new}
  BY <1>1, <1>2, OthersById
<1>5. \A r \in peers : r.id # old.id /\ new.key # NoKey => r.key # new.key
  BY <1>2, <1>3 DEF IndInv, TableInv, OneRowPerNode
<1>6. UNCHANGED <<seq, exported>>
  BY DEF UpdatePeerURL
<1>7. /\ seq' \in 0 .. MaxId /\ seq <= seq' /\ old.id <= seq'
      /\ exported' \subseteq (1 .. MaxId) \X Path
      /\ \A x \in exported' : x \in exported \/ x[1] = old.id
  BY <1>2, <1>6 DEF IndInv, TypeOK, TableInv, IdsGivenOut
<1>8. new.type = "upstream" \/ old.id \in granted
  BY <1>2, <1>3 DEF IndInv, OperatorPromotes
<1> HIDE DEF new
<1> QED
  BY <1>1, <1>3, <1>4, <1>5, <1>7, <1>8 DEF Writes

----------------------------------------------------------------------------
(* What a written row leaves true.                                         *)
LEMMA WriteKeepsTable ==
  ASSUME IndInv, NEW id \in 1 .. MaxId, NEW new, Writes(id, new)
  PROVE  /\ TableInv'
         /\ peers' \subseteq Row /\ seq' \in 0 .. MaxId
         /\ exported' \subseteq (1 .. MaxId) \X Path
<1>1. peers' \subseteq Row
  BY DEF Writes, IndInv, TypeOK
<1>2. IdsGivenOut'
  BY DEF Writes, IndInv, TypeOK, TableInv, IdsGivenOut, Row
<1>3. OneRowPerNode'
  BY DEF Writes, IndInv, TableInv, OneRowPerNode
<1>4. NoOrphanPaths'
  <2> SUFFICES ASSUME NEW x \in exported'
               PROVE  \E r \in peers' : r.id = x[1]
    BY DEF NoOrphanPaths
  <2>1. CASE x[1] = id
    BY <2>1 DEF Writes
  <2>2. CASE x[1] # id
    BY <2>2 DEF Writes, IndInv, TableInv, NoOrphanPaths
  <2> QED
    BY <2>1, <2>2
<1> QED
  BY <1>1, <1>2, <1>3, <1>4 DEF Writes, TableInv

LEMMA WriteKeepsOperator ==
  ASSUME IndInv, NEW id \in 1 .. MaxId, NEW new, Writes(id, new),
         granted \subseteq granted', new.type = "upstream" \/ id \in granted'
  PROVE  OperatorPromotes'
BY DEF Writes, IndInv, OperatorPromotes

(* Who still has an item to add has looked it up before this step.         *)
LookUpsKept == \A g \in Gossip : pick'[g] # None => pick'[g] = pick[g] /\ unread'[g] = unread[g]

LEMMA WriteKeepsUnknown ==
  ASSUME IndInv, NEW id \in 1 .. MaxId, NEW new, Writes(id, new),
         LookUpsKept
  PROVE  /\ CheckedUnknown'
         /\ since' \in [Gossip -> SUBSET (1 .. MaxId)]
<1>1. since' = [g \in Gossip |-> IF pick'[g] # None THEN since[g] \cup {id} ELSE {}]
  BY DEF Writes, Wrote
<1>2. since' \in [Gossip -> SUBSET (1 .. MaxId)]
  BY <1>1 DEF IndInv, TypeOK
<1>3. CheckedUnknown'
  <2> SUFFICES ASSUME NEW g \in Gossip, pick'[g] # None, NEW r \in Recognised(pick[g])'
               PROVE  r.id \in since'[g] \/ unread'[g]
    BY DEF CheckedUnknown
  <2>1. pick'[g] = pick[g] /\ unread'[g] = unread[g] /\ since'[g] = since[g] \cup {id}
    BY <1>1 DEF LookUpsKept
  <2>2. r \in peers'
    BY DEF Recognised, WithKey, WithUrl
  <2>3. CASE r \in peers
    <3>1. r \in Recognised(pick[g])
      BY <2>1, <2>3 DEF Recognised, WithKey, WithUrl
    <3> QED
      BY <2>1, <3>1 DEF IndInv, CheckedUnknown
  <2>4. CASE r \notin peers
    BY <2>1, <2>2, <2>4 DEF Writes
  <2> QED
    BY <2>3, <2>4
<1> QED
  BY <1>2, <1>3

(* Every other step leaves the rows alone or deletes one.                  *)
LEMMA FewerRowsKeep ==
  ASSUME IndInv, peers' \subseteq peers, UNCHANGED <<seq, granted>>
  PROVE  IdsGivenOut' /\ OneRowPerNode' /\ OperatorPromotes'
BY DEF IndInv, TableInv, IdsGivenOut, OneRowPerNode, OperatorPromotes

LEMMA FewerRowsKeepUnknown ==
  ASSUME IndInv, peers' \subseteq peers, LookUpsKept,
         \A g \in Gossip : pick'[g] # None => since'[g] = since[g]
  PROVE  CheckedUnknown'
<1> SUFFICES ASSUME NEW g \in Gossip, pick'[g] # None, NEW r \in Recognised(pick[g])'
             PROVE  r.id \in since'[g] \/ unread'[g]
  BY DEF CheckedUnknown
<1>1. r \in Recognised(pick[g])
  BY DEF LookUpsKept, Recognised, WithKey, WithUrl
<1> QED
  BY <1>1 DEF LookUpsKept, IndInv, CheckedUnknown

----------------------------------------------------------------------------
(* The steps that write a row.                                             *)
LEMMA SavePeerKeeps ==
  ASSUME IndInv, NEW a \in Admin, SavePeer(a)
  PROVE  IndInv'
<1> DEFINE p == adding[a]
<1>1. p \in Peer
  BY DEF SavePeer, IndInv, TypeOK
<1>2. PICK id \in 1 .. MaxId :
        /\ AddPeer(p, id)
        /\ granted' = IF p.type \in {"downstream", "mirror"} THEN granted \cup {id} ELSE granted
  BY DEF SavePeer
<1>3. PICK new : /\ Writes(id, new)
                 /\ \/ new.type = "upstream"
                    \/ p.type \in {"downstream", "mirror"}
                    \/ id \in granted
  BY <1>1, <1>2, AddPeerWrites
<1>4. /\ adding' = [adding EXCEPT ![a] = None]
      /\ UNCHANGED <<todo, self, pick, unread>>
  BY DEF SavePeer
<1>5. from' \in [Gossip -> Url \cup {None}]
  <2>1. CASE UNCHANGED from
    BY <2>1 DEF IndInv, TypeOK
  <2>2. CASE \E g \in Gossip : from' = [from EXCEPT ![g] = p.url]
    BY <1>1, <2>2 DEF IndInv, TypeOK, Peer
  <2> QED
    BY <2>1, <2>2 DEF SavePeer
<1>6. granted \subseteq granted' /\ granted' \subseteq 1 .. MaxId
  BY <1>2 DEF IndInv, TypeOK
<1>7. new.type = "upstream" \/ id \in granted'
  BY <1>2, <1>3
<1>8. TypeOK'
  BY <1>3, <1>4, <1>5, <1>6, WriteKeepsTable, WriteKeepsUnknown DEF LookUpsKept, IndInv, TypeOK
<1>9. OperatorPromotes'
  BY <1>3, <1>6, <1>7, WriteKeepsOperator
<1> QED
  BY <1>3, <1>4, <1>8, <1>9, WriteKeepsTable, WriteKeepsUnknown DEF LookUpsKept, IndInv

LEMMA AddItemKeeps ==
  ASSUME IndInv, NEW g \in Gossip, AddItem(g)
  PROVE  IndInv'
<1> DEFINE p == [url |-> pick[g].url, key |-> pick[g].key, type |-> GossipType, import |-> FALSE]
<1>1. PICK id \in 1 .. MaxId : AddPeer(p, id)
  BY DEF AddItem
<1>2. p \in Peer /\ p.type = "upstream"
  BY DEF AddItem, IndInv, TypeOK, Peer, Item, GossipType, PeerType
<1>3. PICK new : /\ Writes(id, new)
                 /\ \/ new.type = "upstream"
                    \/ p.type \in {"downstream", "mirror"}
                    \/ id \in granted
  <2> HIDE DEF p
  <2> QED
    BY <1>1, <1>2, AddPeerWrites
<1>4. /\ pick' = [pick EXCEPT ![g] = None]
      /\ unread' = [unread EXCEPT ![g] = FALSE]
      /\ UNCHANGED <<adding, from, todo, self, granted>>
  BY DEF AddItem
<1>5. LookUpsKept
  BY <1>4 DEF LookUpsKept, IndInv, TypeOK
<1>6. new.type = "upstream" \/ id \in granted'
  BY <1>2, <1>3, <1>4
<1> HIDE DEF p
<1>7. TypeOK'
  BY <1>3, <1>4, <1>5, WriteKeepsTable, WriteKeepsUnknown DEF IndInv, TypeOK
<1>8. OperatorPromotes'
  BY <1>3, <1>4, <1>6, WriteKeepsOperator
<1> QED
  BY <1>3, <1>4, <1>5, <1>7, <1>8, WriteKeepsTable, WriteKeepsUnknown DEF IndInv

LEMMA UpdatePeerURLKeeps ==
  ASSUME IndInv, NEW k \in Key, NEW u \in Url, UpdatePeerURL(k, u)
  PROVE  IndInv'
<1>1. PICK id \in 1 .. MaxId : \E new :
        Writes(id, new) /\ (new.type = "upstream" \/ id \in granted)
  BY UpdatePeerURLWrites
<1>2. PICK new : Writes(id, new) /\ (new.type = "upstream" \/ id \in granted)
  BY <1>1
<1>3. UNCHANGED <<adding, gossipVars, granted, unread>>
  BY DEF UpdatePeerURL
<1>4. TypeOK'
  BY <1>2, <1>3, WriteKeepsTable, WriteKeepsUnknown DEF LookUpsKept, IndInv, TypeOK
<1> QED
  BY <1>2, <1>3, <1>4, WriteKeepsTable, WriteKeepsUnknown, WriteKeepsOperator DEF LookUpsKept, IndInv

(* DeletePeer takes the junction rows of the peer, and only those.         *)
LEMMA DeletePeerKeeps ==
  ASSUME IndInv, NEW u \in Url, DeletePeer(u)
  PROVE  IndInv'
<1>1. PICK old \in WithUrl(u) :
        peers' = peers \ {old} /\ exported' = exported \ DeletedPaths(old.id)
  BY DEF DeletePeer
<1>2. UNCHANGED <<seq, adding, gossipVars, history>>
  BY DEF DeletePeer
<1>3. NoOrphanPaths'
  BY <1>1 DEF DeletedPaths, WithUrl, IndInv, TableInv, NoOrphanPaths
<1>4. IdsGivenOut' /\ OneRowPerNode' /\ OperatorPromotes' /\ CheckedUnknown'
  BY <1>1, <1>2, FewerRowsKeep, FewerRowsKeepUnknown DEF LookUpsKept
<1>5. TypeOK'
  BY <1>1, <1>2 DEF IndInv, TypeOK
<1> QED
  BY <1>3, <1>4, <1>5 DEF IndInv, TableInv

(* Steps that only read the table; PickItem starts a new look-up.          *)
LEMMA TableReadKeeps ==
  ASSUME IndInv, UNCHANGED <<tables, granted>>, TypeOK', LookUpsKept,
         \A g \in Gossip : pick'[g] # None => since'[g] = since[g]
  PROVE  IndInv'
<1>1. TableInv'
  BY DEF IndInv, TableInv, IdsGivenOut, OneRowPerNode, NoOrphanPaths
<1>2. OperatorPromotes' /\ CheckedUnknown'
  BY FewerRowsKeep, FewerRowsKeepUnknown
<1> QED
  BY <1>1, <1>2 DEF IndInv

LEMMA PickItemKeeps ==
  ASSUME IndInv, NEW g \in Gossip, NEW i \in Item, NEW fails \in BOOLEAN, PickItem(g, i, fails)
  PROVE  IndInv'
<1>1. /\ todo[g] # None /\ ~Skip(g, i, fails)
      /\ todo' = [todo EXCEPT ![g] = @ \ {i}]
      /\ pick' = [pick EXCEPT ![g] = i]
      /\ since' = [since EXCEPT ![g] = {}]
      /\ unread' = [unread EXCEPT ![g] = fails]
      /\ UNCHANGED <<tables, adding, from, self, granted>>
  BY DEF PickItem
<1>2. fails \/ Recognised(i) = {}
  BY <1>1 DEF Skip
<1>3. TypeOK'
  BY <1>1 DEF IndInv, TypeOK
<1>4. CheckedUnknown'
  <2> SUFFICES ASSUME NEW h \in Gossip, pick'[h] # None, NEW r \in Recognised(pick[h])'
               PROVE  r.id \in since'[h] \/ unread'[h]
    BY DEF CheckedUnknown
  <2>1. CASE h = g
    BY <1>1, <1>2, <2>1 DEF IndInv, TypeOK, Recognised, WithKey, WithUrl
  <2>2. CASE h # g
    <3>1. pick'[h] = pick[h] /\ since'[h] = since[h] /\ unread'[h] = unread[h]
      BY <1>1, <2>2 DEF IndInv, TypeOK
    <3>2. r \in Recognised(pick[h])
      BY <1>1, <3>1 DEF Recognised, WithKey, WithUrl
    <3> QED
      BY <3>1, <3>2 DEF IndInv, CheckedUnknown
  <2> QED
    BY <2>1, <2>2
<1>5. TableInv' /\ OperatorPromotes'
  BY <1>1 DEF IndInv, TableInv, IdsGivenOut, OneRowPerNode, NoOrphanPaths, OperatorPromotes
<1> QED
  BY <1>3, <1>4, <1>5 DEF IndInv

----------------------------------------------------------------------------
(* A process that has nothing in hand, as after a start.                   *)
LEMMA IdleTypes ==
  /\ [a \in Admin |-> None] \in [Admin -> Peer \cup {None}]
  /\ [g \in Gossip |-> None] \in [Gossip -> Url \cup {None}]
  /\ [g \in Gossip |-> None] \in [Gossip -> (SUBSET Item) \cup {None}]
  /\ [g \in Gossip |-> None] \in [Gossip -> {SelfUrl, None}]
  /\ [g \in Gossip |-> None] \in [Gossip -> Item \cup {None}]
  /\ [g \in Gossip |-> FALSE] \in [Gossip -> BOOLEAN]
  /\ [g \in Gossip |-> {}] \in [Gossip -> SUBSET (1 .. MaxId)]
OBVIOUS

LEMMA InitInv == Init => IndInv
<1> SUFFICES ASSUME Init
             PROVE  IndInv
  OBVIOUS
<1>1. peers \subseteq Row /\ seq \in 0 .. MaxId /\ exported \subseteq (1 .. MaxId) \X Path /\ granted \subseteq 1 .. MaxId
  BY DEF Init
<1>2. TypeOK
  BY <1>1, IdleTypes DEF Init, TypeOK
<1>3. TableInv /\ OperatorPromotes
  BY DEF Init, TableInv, IdsGivenOut, OneRowPerNode, NoOrphanPaths, OperatorPromotes
<1>4. CheckedUnknown
  BY DEF Init, CheckedUnknown
<1> QED
  BY <1>2, <1>3, <1>4 DEF IndInv

LEMMA OperatorKeeps ==
  ASSUME IndInv, NEW a \in Admin, Operator(a)
  PROVE  IndInv'
<1>1. ASSUME NEW u \in Url, NEW t \in Asked \cup {Keep}, NEW import \in BOOLEAN,
             FetchNodeInfo(a, u, t, import)
      PROVE  IndInv'
  <2>1. PICK k \in Key \cup {NoKey} :
          adding' = [adding EXCEPT ![a] = [url |-> u, key |-> k, type |-> t, import |-> import]]
    BY <1>1 DEF FetchNodeInfo
  <2>2. [url |-> u, key |-> k, type |-> t, import |-> import] \in Peer
    BY <1>1 DEF Peer
  <2>3. UNCHANGED <<tables, gossipVars, history>>
    BY <1>1 DEF FetchNodeInfo
  <2>4. TypeOK'
    BY <2>1, <2>2, <2>3 DEF IndInv, TypeOK
  <2> QED
    BY <2>3, <2>4, TableReadKeeps DEF LookUpsKept
<1>2. CASE \E u \in Url, t \in Asked, import \in BOOLEAN : RequestAdd(a, u, t, import)
  BY <1>1, <1>2 DEF RequestAdd
<1>3. CASE \E u \in Url : RefreshPeer(a, u)
  BY <1>1, <1>3 DEF RefreshPeer
<1>4. CASE SavePeer(a)
  BY <1>4, SavePeerKeeps
<1>5. CASE SaveFails(a)
  <2>1. TypeOK' /\ UNCHANGED <<tables, gossipVars, history>>
    BY <1>5 DEF SaveFails, IndInv, TypeOK
  <2> QED
    BY <2>1, TableReadKeeps DEF LookUpsKept
<1> QED
  BY <1>2, <1>3, <1>4, <1>5 DEF Operator

LEMMA ImportGossipKeeps ==
  ASSUME IndInv, NEW g \in Gossip, ImportGossip(g)
  PROVE  IndInv'
<1>1. CASE FetchPeers(g)
  <2>1. PICK S \in Lists : todo' = [todo EXCEPT ![g] = S]
    BY <1>1 DEF FetchPeers
  <2>2. UNCHANGED <<tables, adding, from, pick, history>>
    BY <1>1 DEF FetchPeers
  <2>3. TypeOK'
    BY <1>1, <2>1, <2>2 DEF FetchPeers, IndInv, TypeOK
  <2> QED
    BY <2>2, <2>3, TableReadKeeps DEF LookUpsKept
<1>2. ASSUME NEW i \in Item, NEW fails \in BOOLEAN, SkipItem(g, i, fails)
      PROVE  IndInv'
  <2>1. TypeOK' /\ UNCHANGED <<tables, pick, history>>
    BY <1>2 DEF SkipItem, IndInv, TypeOK
  <2> QED
    BY <2>1, TableReadKeeps DEF LookUpsKept
<1>3. ASSUME NEW i \in Item, NEW fails \in BOOLEAN, PickItem(g, i, fails)
      PROVE  IndInv'
  BY <1>3, PickItemKeeps
<1>4. CASE AddItem(g)
  BY <1>4, AddItemKeeps
<1>5. CASE AddItemFails(g)
  <2>1. TypeOK' /\ UNCHANGED <<tables, granted>>
    BY <1>5 DEF AddItemFails, IndInv, TypeOK
  <2>2. LookUpsKept /\ \A h \in Gossip : pick'[h] # None => since'[h] = since[h]
    BY <1>5 DEF AddItemFails, LookUpsKept, IndInv, TypeOK
  <2> QED
    BY <2>1, <2>2, TableReadKeeps
<1>6. CASE EndGossip(g)
  <2>1. /\ from' = [from EXCEPT ![g] = None]
        /\ todo' = [todo EXCEPT ![g] = None]
        /\ self' = [self EXCEPT ![g] = None]
        /\ UNCHANGED <<tables, adding, pick, history>>
    BY <1>6 DEF EndGossip
  <2>2. TypeOK'
    BY <2>1 DEF IndInv, TypeOK
  <2> QED
    BY <2>1, <2>2, TableReadKeeps DEF LookUpsKept
<1> QED
  BY <1>1, <1>2, <1>3, <1>4, <1>5, <1>6 DEF ImportGossip

LEMMA NextInv == IndInv /\ [Next]_vars => IndInv'
<1> SUFFICES ASSUME IndInv, [Next]_vars
             PROVE  IndInv'
  OBVIOUS
<1>1. CASE \E a \in Admin : Operator(a)
  BY <1>1, OperatorKeeps
<1>2. CASE \E u \in Url : DeletePeer(u)
  BY <1>2, DeletePeerKeeps
<1>3. CASE \E g \in Gossip : ImportGossip(g)
  BY <1>3, ImportGossipKeeps
<1>4. CASE \E k \in Key, u \in Url : UpdatePeerURL(k, u)
  BY <1>4, UpdatePeerURLKeeps
<1>5. CASE Crash
  <2>1. TypeOK' /\ UNCHANGED <<tables, granted>>
    BY <1>5, IdleTypes DEF Crash, IndInv, TypeOK
  <2>2. \A g \in Gossip : pick'[g] = None
    BY <1>5 DEF Crash
  <2> QED
    BY <2>1, <2>2, TableReadKeeps DEF LookUpsKept
<1>6. CASE UNCHANGED vars
  <2>1. TypeOK' /\ UNCHANGED <<tables, pick, history>>
    BY <1>6 DEF vars, IndInv, TypeOK
  <2> QED
    BY <2>1, TableReadKeeps DEF LookUpsKept
<1> QED
  BY <1>1, <1>2, <1>3, <1>4, <1>5, <1>6 DEF Next

LEMMA Invariant == Spec => []IndInv
BY InitInv, NextInv, PTL DEF Spec

----------------------------------------------------------------------------
(* What becomes of a row: it moves with its key, passes to a new key at    *)
(* its URL, and changes its type by what the writer asked for.             *)

LEMMA AddPeerChanges ==
  ASSUME IndInv, NEW p \in Peer, NEW id \in 1 .. MaxId, AddPeer(p, id),
         NEW r \in peers, NEW s \in peers', r.id = s.id, r # s
  PROVE  /\ r \in SameNode(p)
         /\ s.url = p.url
         /\ s.key = (IF p.key = NoKey THEN r.key ELSE p.key)
         /\ s.type = (IF p.type = Keep THEN r.type ELSE p.type)
<1>1. \A x, y \in peers : x.id = y.id => x = y
  BY DEF IndInv, TableInv, OneRowPerNode
<1>2. s \notin peers
  BY <1>1
<1>3. CASE InsertPeer(p, id)
  <2>1. s.id = seq + 1
    BY <1>2, <1>3 DEF InsertPeer
  <2>2. r.id <= seq /\ seq \in Nat
    BY DEF IndInv, TableInv, IdsGivenOut, TypeOK
  <2>3. r.id \in Nat
    BY DEF IndInv, TypeOK, Row
  <2> QED
    BY <2>1, <2>2, <2>3
<1>4. CASE UpdatePeer(p, id)
  <2>1. PICK old \in SameNode(p) :
          /\ old.id = id
          /\ peers' = (peers \ {old}) \cup
               {[old EXCEPT !.url = p.url,
                            !.key = IF p.key = NoKey THEN @ ELSE p.key,
                            !.type = IF p.type = Keep THEN @ ELSE p.type]}
    BY <1>4 DEF UpdatePeer
  <2>2. old \in peers /\ old \in Row
    BY <2>1 DEF SameNode, WithKey, WithUrl, IndInv, TypeOK
  <2> DEFINE key == IF p.key = NoKey THEN old.key ELSE p.key
             type == IF p.type = Keep THEN old.type ELSE p.type
  <2>3. s = [old EXCEPT !.url = p.url, !.key = key, !.type = type]
    BY <1>2, <2>1
  <2>4. s.id = old.id /\ s.url = p.url /\ s.key = key /\ s.type = type
    <3> HIDE DEF key, type
    <3> QED
      BY <2>2, <2>3 DEF Row
  <2>5. r = old
    BY <1>1, <2>2, <2>4
  <2> QED
    BY <2>1, <2>4, <2>5
<1> QED
  BY <1>3, <1>4 DEF AddPeer

LEMMA StepOfRows == IndInv /\ [Next]_vars => RowStep
<1> SUFFICES ASSUME IndInv, [Next]_vars, NEW r \in peers, NEW s \in peers', r.id = s.id, r # s
             PROVE  /\ r.url # s.url => ByItsKey(r, s)
                    /\ r.key # s.key => TakenOver(r, s)
                    /\ r.type # s.type => Retyped(r, s)
  BY DEF RowStep
<1> DEFINE Goal == /\ r.url # s.url => ByItsKey(r, s)
                   /\ r.key # s.key => TakenOver(r, s)
                   /\ r.type # s.type => Retyped(r, s)
<1>1. \A x, y \in peers : x.id = y.id => x = y
  BY DEF IndInv, TableInv, OneRowPerNode
<1>2. s \notin peers
  BY <1>1
<1>3. ASSUME NEW a \in Admin, SavePeer(a) PROVE Goal
  <2> DEFINE p == adding[a]
  <2>1. p \in Peer
    BY <1>3 DEF SavePeer, IndInv, TypeOK
  <2>2. PICK id \in 1 .. MaxId : AddPeer(p, id)
    BY <1>3 DEF SavePeer
  <2>3. /\ r \in SameNode(p)
        /\ s.url = p.url
        /\ s.key = (IF p.key = NoKey THEN r.key ELSE p.key)
        /\ s.type = (IF p.type = Keep THEN r.type ELSE p.type)
    BY <2>1, <2>2, AddPeerChanges
  <2>4. CASE WithKey(p.key) # {}
    BY <1>3, <2>3, <2>4 DEF SameNode, WithKey, ByItsKey, Retyped
  <2>5. CASE WithKey(p.key) = {}
    BY <1>3, <2>3, <2>5 DEF SameNode, WithUrl, TakenOver, Retyped
  <2> QED
    BY <2>4, <2>5
<1>4. ASSUME NEW g \in Gossip, AddItem(g) PROVE Goal
  <2> DEFINE p == [url |-> pick[g].url, key |-> pick[g].key, type |-> GossipType, import |-> FALSE]
  <2>1. pick[g] \in Item /\ pick[g] # None
    BY <1>4 DEF AddItem, IndInv, TypeOK
  <2>2. p \in Peer
    BY <2>1 DEF Item, Peer, GossipType, PeerType
  <2>3. PICK id \in 1 .. MaxId : AddPeer(p, id)
    BY <1>4 DEF AddItem
  <2>4. /\ r \in SameNode(p)
        /\ s.url = p.url
        /\ s.key = (IF p.key = NoKey THEN r.key ELSE p.key)
        /\ s.type = (IF p.type = Keep THEN r.type ELSE p.type)
    <3> HIDE DEF p
    <3> QED
      BY <2>2, <2>3, AddPeerChanges
  <2>5. p.url = pick[g].url /\ p.key = pick[g].key /\ s.type = "upstream"
    BY <2>4 DEF GossipType, Keep
  <2>6. r \in Recognised(pick[g]) => Unseen(g, r.id)
    BY <2>1 DEF IndInv, CheckedUnknown
  <2> HIDE DEF p
  <2>7. CASE WithKey(p.key) # {}
    <3>1. r.key = p.key /\ r.key # NoKey /\ r \in Recognised(pick[g])
      BY <2>4, <2>5, <2>7 DEF SameNode, WithKey, Recognised
    <3> QED
      BY <1>4, <2>4, <2>5, <2>6, <3>1 DEF ByItsKey, Retyped
  <2>8. CASE WithKey(p.key) = {}
    <3>1. r.url = p.url /\ r \in peers
      BY <2>4, <2>8 DEF SameNode, WithUrl
    <3>2. CASE p.key = NoKey
      <4>1. r \in Recognised(pick[g])
        BY <2>5, <3>1, <3>2 DEF Recognised, WithUrl
      <4> QED
        BY <1>4, <2>4, <2>5, <2>6, <3>1, <3>2, <4>1 DEF Retyped
    <3>3. CASE p.key # NoKey
      <4>1. r.key # s.key
        BY <2>4, <2>8, <3>1, <3>3 DEF WithKey
      <4> QED
        BY <1>4, <2>4, <2>5, <2>8, <3>1, <3>3, <4>1 DEF TakenOver, Retyped
    <3> QED
      BY <3>2, <3>3
  <2> QED
    BY <2>7, <2>8
<1>5. ASSUME NEW k \in Key, NEW u \in Url, UpdatePeerURL(k, u) PROVE Goal
  <2>1. PICK old \in WithKey(k) : peers' = (peers \ {old}) \cup {[old EXCEPT !.url = u]}
    BY <1>5 DEF UpdatePeerURL
  <2>2. old \in peers /\ old \in Row /\ old.key = k /\ k # NoKey
    BY <2>1 DEF WithKey, IndInv, TypeOK
  <2>3. s.id = old.id /\ s.url = u /\ s.key = old.key /\ s.type = old.type
    BY <1>2, <2>1, <2>2 DEF Row
  <2>4. r = old
    BY <1>1, <2>2, <2>3
  <2> QED
    BY <1>5, <2>2, <2>3, <2>4 DEF ByItsKey
<1>6. ASSUME peers' \subseteq peers PROVE Goal
  BY <1>2, <1>6
<1> HIDE DEF Goal
<1>7. ASSUME NEW a \in Admin, Operator(a) PROVE Goal
  BY <1>3, <1>6, <1>7 DEF Operator, RequestAdd, RefreshPeer, FetchNodeInfo, SaveFails
<1>8. ASSUME NEW g \in Gossip, ImportGossip(g) PROVE Goal
  BY <1>4, <1>6, <1>8 DEF ImportGossip, FetchPeers, SkipItem, PickItem, AddItemFails, EndGossip
<1>9. ASSUME NEW u \in Url, DeletePeer(u) PROVE Goal
  BY <1>6, <1>9 DEF DeletePeer
<1>10. ASSUME Crash \/ UNCHANGED vars PROVE Goal
  BY <1>6, <1>10 DEF Crash, vars
<1>11. Goal
  BY <1>5, <1>7, <1>8, <1>9, <1>10 DEF Next
<1> QED
  BY <1>11 DEF Goal

----------------------------------------------------------------------------
(* Every variable of the registry and of those who write it keeps its type.*)
THEOREM TypeCorrect == Spec => []TypeOK
<1>1. IndInv => TypeOK
  BY DEF IndInv
<1> QED
  BY <1>1, Invariant, PTL

(* However requests, gossip and announcements interleave between looking a *)
(* peer up and storing it, no key or id is in two rows: AddPeer and        *)
(* UpdatePeerURL never run into the UNIQUE constraint.                     *)
THEOREM OneRowPerNodeHolds == Spec => []OneRowPerNode
<1>1. IndInv => OneRowPerNode
  BY DEF IndInv, TableInv
<1> QED
  BY <1>1, Invariant, PTL

(* AddPeer and DeletePeer do by hand what the unenforced foreign key of    *)
(* peer_exported_paths would do.                                           *)
THEOREM NoOrphanPathsHolds == Spec => []NoOrphanPaths
<1>1. IndInv => NoOrphanPaths
  BY DEF IndInv, TableInv
<1> QED
  BY <1>1, Invariant, PTL

(* Whatever other nodes list, no step of importPeerGossip makes a peer     *)
(* downstream or mirror.                                                   *)
THEOREM OperatorPromotesHolds == Spec => []OperatorPromotes
<1>1. IndInv => OperatorPromotes
  BY DEF IndInv
<1> QED
  BY <1>1, Invariant, PTL

(* What gossip's check promises by the time it adds the item: the node is  *)
(* unknown but for rows written since, or the look-up had failed.          *)
THEOREM CheckedUnknownHolds == Spec => []CheckedUnknown
<1>1. IndInv => CheckedUnknown
  BY DEF IndInv
<1> QED
  BY <1>1, Invariant, PTL

(* Whatever interleaves, AddPeer and UpdatePeerURL move a row with its key *)
(* only, give it to another key at its URL only, and change its type only  *)
(* as a request asks or gossip unknowingly does.                           *)
THEOREM RowsFollowTheirNodeHolds == Spec => RowsFollowTheirNode
<1>1. IndInv /\ [Next]_vars => [RowStep]_vars
  BY StepOfRows
<1> QED
  BY <1>1, Invariant, PTL DEF Spec, RowsFollowTheirNode
=============================================================================
