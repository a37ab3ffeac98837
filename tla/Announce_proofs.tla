-------------------------- MODULE Announce_proofs --------------------------
(***************************************************************************)
(* Safety of the announcement handshake for every set of keys, URLs and    *)
(* concurrent requests and any number of nonces, and that it keeps the     *)
(* promise of PeerUrls.                                                    *)
(***************************************************************************)
EXTENDS Announce, TLAPS

USE AnnounceAssumption
USE DEF serverVars, nodeVars, history

----------------------------------------------------------------------------
(* The initial state has the types of TypeOK.                              *)
LEMMA InitType == Init => TypeOK
BY DEF Init, TypeOK, Idle, JobType

(* What a message of each type looks like.                                 *)
LEMMA MessageKinds ==
  ASSUME NEW m \in Message
  PROVE  /\ m.key \in Peer /\ m.url \in Url
         /\ m.type = "challenge" => m \in Challenge
         /\ m.type = "nonce" => m \in Answer
         /\ m.type = "confirm" => m \in Confirm
         /\ m.type # "challenge" => m.nonce \in Nonce
BY DEF Message, Challenge, Answer, Confirm

(* Every step of a node, a handler, the sweeper or the operator keeps the  *)
(* types.                                                                  *)
LEMMA TypeStep == TypeOK /\ [Next]_vars => TypeOK'
<1> SUFFICES ASSUME TypeOK, [Next]_vars PROVE TypeOK'
  OBVIOUS
<1> USE DEF TypeOK
<1>1. ASSUME NEW k \in Peer, NEW u \in Url, Restart(k, u) PROVE TypeOK'
  BY <1>1 DEF Restart
<1>2. ASSUME NEW k \in Peer, AskChallenge(k) PROVE TypeOK'
  <2>1. [type |-> "challenge", key |-> k, url |-> here[k]] \in Message
    BY DEF Message, Challenge
  <2> QED
    BY <1>2, <2>1 DEF AskChallenge
<1>3. ASSUME NEW k \in Peer, NEW m \in wire, SignNonce(k, m) PROVE TypeOK'
  <2>1. [m EXCEPT !.type = "confirm"] \in Message
    BY <1>3, MessageKinds DEF SignNonce, Message, Answer, Confirm
  <2> QED
    BY <1>3, <2>1 DEF SignNonce
<1>4. ASSUME NEW k \in Peer, NEW u \in Url, AddPeer(k, u) PROVE TypeOK'
  BY <1>4 DEF AddPeer
<1>5. ASSUME NEW k \in Peer, DeletePeer(k) PROVE TypeOK'
  BY <1>5 DEF DeletePeer
<1>6. ASSUME NEW r \in Request, NEW m \in wire, AnnounceChallenge(r, m) PROVE TypeOK'
  BY <1>6, MessageKinds DEF AnnounceChallenge, At, JobType
<1>7. ASSUME NEW r \in Request, StoreChallenge(r) PROVE TypeOK'
  <2> DEFINE k == job[r].msg.key
             n == issued[k] + 1
  <2>1. k \in Peer /\ job[r].msg.url \in Url /\ n \in Nonce /\ n \in 0 .. MaxNonce
    BY <1>7 DEF StoreChallenge, Challenge, Nonce
  <2>2. [type |-> "nonce", key |-> k, url |-> job[r].msg.url, nonce |-> n] \in Message
    BY <2>1 DEF Message, Answer
  <2> HIDE DEF n
  <2>3. wire' \subseteq Message /\ store' \in [Peer -> 0 .. MaxNonce] /\ issued' \in [Peer -> 0 .. MaxNonce]
    BY <1>7, <2>1, <2>2 DEF StoreChallenge, n
  <2> QED
    BY <1>7, <2>3 DEF StoreChallenge, Idle, JobType
<1>8. ASSUME NEW r \in Request, NEW m \in wire, AnnounceConfirm(r, m) PROVE TypeOK'
  BY <1>8, MessageKinds DEF AnnounceConfirm, LoadChallenge, At, JobType
<1>9. ASSUME NEW r \in Request, NEW m \in wire, ConfirmExpired(r, m) PROVE TypeOK'
  <2> DEFINE c == [m EXCEPT !.nonce = store[m.key]]
  <2>1. m \in Confirm /\ store[m.key] \in Nonce
    BY <1>9, MessageKinds DEF ConfirmExpired, LoadChallenge, Nonce
  <2>2. c \in Confirm
    BY <2>1 DEF Confirm
  <2> HIDE DEF c
  <2>3. job' = [job EXCEPT ![r] = At("evict", c)]
    BY <1>9 DEF ConfirmExpired, c
  <2> QED
    BY <1>9, <2>2, <2>3 DEF ConfirmExpired, At, JobType, Message
<1>10. ASSUME NEW r \in Request, EvictExpired(r) PROVE TypeOK'
  <2>1. job[r].msg.key \in Peer
    BY <1>10 DEF EvictExpired, Confirm
  <2>2. store' \in [Peer -> 0 .. MaxNonce]
    BY <1>10, <2>1 DEF EvictExpired
  <2> QED
    BY <1>10, <2>2 DEF EvictExpired, Idle, JobType
<1>11. ASSUME NEW r \in Request, UpdatePeerURL(r) PROVE TypeOK'
  <2>1. job[r].msg \in Confirm /\ job[r].msg.key \in Peer /\ job[r].msg.url \in Url
    BY <1>11 DEF UpdatePeerURL, Confirm
  <2> QED
    BY <1>11, <2>1 DEF UpdatePeerURL, At, JobType, Message
<1>12. ASSUME NEW r \in Request, UpdateFails(r) PROVE TypeOK'
  BY <1>12 DEF UpdateFails, Idle, JobType
<1>13. ASSUME NEW r \in Request, DeleteChallenge(r) PROVE TypeOK'
  <2>1. job[r].msg.key \in Peer /\ job[r].msg.nonce \in Nonce
    BY <1>13 DEF DeleteChallenge, Confirm
  <2> QED
    BY <1>13, <2>1 DEF DeleteChallenge, AfterUse, Idle, JobType
<1>14. ASSUME NEW k \in Peer, Expire(k) PROVE TypeOK'
  BY <1>14 DEF Expire
<1>15. ASSUME NEW k \in Peer, SweepRead(k) PROVE TypeOK'
  <2>1. [key |-> k, nonce |-> store[k]] \in Pending
    BY <1>15 DEF SweepRead, Pending, Nonce
  <2> QED
    BY <1>15, <2>1 DEF SweepRead
<1>16. CASE SweepDelete
  BY <1>16 DEF SweepDelete, Pending
<1>17. CASE Crash
  BY <1>17 DEF Crash, Idle, JobType
<1>18. CASE UNCHANGED vars
  BY <1>18 DEF vars
<1> QED
  BY <1>1, <1>2, <1>3, <1>4, <1>5, <1>6, <1>7, <1>8, <1>9, <1>10, <1>11, <1>12, <1>13, <1>14,
     <1>15, <1>16, <1>17, <1>18 DEF Next, Node, Operator, Handle

(* The types hold in every reachable state.                                *)
THEOREM TypeCorrect == Spec => []TypeOK
BY InitType, TypeStep, PTL DEF Spec

----------------------------------------------------------------------------
(* One lemma for each part of the invariant: what a step does to it.       *)

(* A nonce stands for one URL: the only new nonce on the wire is larger    *)
(* than all before it, and a signature repeats the URL of its answer.      *)
LEMMA WireStep == TypeOK /\ WireInv /\ [Next]_vars => WireInv'
<1> SUFFICES ASSUME TypeOK, WireInv, [Next]_vars PROVE WireInv'
  OBVIOUS
<1>1. ASSUME UNCHANGED <<wire, issued>> PROVE WireInv'
  BY <1>1 DEF WireInv
<1>2. ASSUME NEW k \in Peer, AskChallenge(k) PROVE WireInv'
  BY <1>2 DEF AskChallenge, WireInv
<1>3. ASSUME NEW k \in Peer, NEW m \in wire, SignNonce(k, m) PROVE WireInv'
  <2> DEFINE c == [m EXCEPT !.type = "confirm"]
  <2>1. c.key = m.key /\ c.url = m.url /\ c.nonce = m.nonce /\ m.type = "nonce"
    BY <1>3, MessageKinds DEF SignNonce, TypeOK, Answer
  <2>2. wire' = wire \cup {c} /\ issued' = issued
    BY <1>3 DEF SignNonce
  <2> HIDE DEF c
  <2> QED
    BY <2>1, <2>2 DEF WireInv
<1>4. ASSUME NEW r \in Request, StoreChallenge(r) PROVE WireInv'
  <2> DEFINE k == job[r].msg.key
             n == issued[k] + 1
             a == [type |-> "nonce", key |-> k, url |-> job[r].msg.url, nonce |-> n]
  <2>1. k \in Peer /\ issued \in [Peer -> 0 .. MaxNonce]
    BY <1>4 DEF StoreChallenge, TypeOK, Challenge
  <2>2. issued' = [issued EXCEPT ![k] = n] /\ wire' = wire \cup {a}
    BY <1>4 DEF StoreChallenge
  <2>3. \A m \in wire : m.type # "challenge" =>
          m.key \in Peer /\ m.nonce \in Nat /\ m.nonce <= issued[m.key]
    BY MessageKinds DEF TypeOK, WireInv, Nonce
  <2>4. a.key = k /\ a.nonce = n /\ n > issued[k]
    BY <2>1
  <2> HIDE DEF a
  <2>5. \A m \in wire' : m.type # "challenge" => m.nonce <= issued'[m.key]
    BY <2>1, <2>2, <2>3, <2>4
  <2>6. \A m \in wire : m.type # "challenge" => m.key # a.key \/ m.nonce # a.nonce
    BY <2>1, <2>3, <2>4
  <2> QED
    BY <2>2, <2>5, <2>6 DEF WireInv
<1> QED
  BY <1>1, <1>2, <1>3, <1>4
     DEF Next, Node, Operator, Handle, Restart, AddPeer, DeletePeer, AnnounceChallenge,
         AnnounceConfirm, ConfirmExpired, EvictExpired, UpdatePeerURL, UpdateFails,
         DeleteChallenge, Expire, SweepRead, SweepDelete, Crash, vars

(* Parts of the invariant speak of the pending nonce only to say that it   *)
(* is 0 or large: deleting an entry cannot hurt them.                      *)
StoreShrinks == \A k \in Peer : store'[k] = store[k] \/ store'[k] = 0

(* The pending nonce stays newer than the confirmed ones.                  *)
LEMMA StoreStep ==
  TypeOK /\ WireInv /\ StoreInv /\ JobInv /\ [Next]_vars => StoreInv'
<1> SUFFICES ASSUME TypeOK, WireInv, StoreInv, JobInv, [Next]_vars PROVE StoreInv'
  OBVIOUS
<1>1. ASSUME StoreShrinks, UNCHANGED <<issued, spent>>, wire \subseteq wire',
             \A k \in Peer : applied'[k] = applied[k] \/ applied'[k] = None
      PROVE  StoreInv'
  BY <1>1 DEF StoreInv, StoreShrinks, TypeOK
<1>2. ASSUME NEW r \in Request, StoreChallenge(r) PROVE StoreInv'
  <2> DEFINE k == job[r].msg.key
             n == issued[k] + 1
  <2>1. k \in Peer /\ issued \in [Peer -> 0 .. MaxNonce] /\ store \in [Peer -> 0 .. MaxNonce]
    BY <1>2 DEF StoreChallenge, TypeOK, Challenge
  <2>2. /\ issued' = [issued EXCEPT ![k] = n]
        /\ store' = [store EXCEPT ![k] = n]
        /\ wire \subseteq wire' /\ UNCHANGED <<spent, applied>>
    BY <1>2 DEF StoreChallenge
  <2>3. \A j \in Peer : applied[j] # None => applied[j].nonce \in Nat /\ applied[j].nonce <= issued[j]
    BY MessageKinds DEF StoreInv, WireInv, TypeOK, Confirm, Nonce
  <2>4. \A j \in Peer : spent[j] \subseteq Nat
    BY DEF TypeOK, Nonce
  <2> QED
    BY <2>1, <2>2, <2>3, <2>4 DEF StoreInv
<1>3. ASSUME NEW r \in Request, UpdatePeerURL(r) PROVE StoreInv'
  <2>1. job[r].msg \in Confirm /\ job[r].msg.key \in Peer
    BY <1>3 DEF UpdatePeerURL, TypeOK, Confirm
  <2>2. /\ job[r].msg \in wire
        /\ store[job[r].msg.key] = 0 \/ job[r].msg.nonce <= store[job[r].msg.key]
    BY <1>3 DEF UpdatePeerURL, JobInv
  <2>3. /\ UNCHANGED <<store, issued, spent, wire>>
        /\ \A k \in Peer : \/ applied'[k] = applied[k]
                           \/ (k = job[r].msg.key /\ applied'[k] = job[r].msg)
    BY <1>3, <2>1 DEF UpdatePeerURL, TypeOK
  <2> QED
    BY <2>1, <2>2, <2>3 DEF StoreInv
<1>4. ASSUME NEW r \in Request, DeleteChallenge(r) PROVE StoreInv'
  <2> DEFINE k == job[r].msg.key
             n == job[r].msg.nonce
  <2>1. job[r].msg \in Confirm /\ k \in Peer
    BY <1>4 DEF DeleteChallenge, TypeOK, Confirm
  <2>2. job[r].msg \in wire /\ n <= issued[k]
    BY <1>4, <2>1 DEF DeleteChallenge, JobInv, WireInv, Confirm
  <2>3. /\ store' = [store EXCEPT ![k] = 0]
        /\ spent' = [spent EXCEPT ![k] = @ \cup {n}]
        /\ UNCHANGED <<issued, wire, applied>>
    BY <1>4 DEF DeleteChallenge, AfterUse
  <2> QED
    BY <2>1, <2>2, <2>3 DEF StoreInv, TypeOK
<1>5. ASSUME NEW r \in Request, EvictExpired(r) PROVE StoreInv'
  <2>1. StoreShrinks
    BY <1>5 DEF EvictExpired, TypeOK, StoreShrinks
  <2> QED
    BY <1>1, <1>5, <2>1 DEF EvictExpired
<1>6. ASSUME SweepDelete PROVE StoreInv'
  <2>1. StoreShrinks
    BY <1>6 DEF SweepDelete, TypeOK, StoreShrinks
  <2> QED
    BY <1>1, <1>6, <2>1 DEF SweepDelete
<1>7. ASSUME Crash PROVE StoreInv'
  <2>1. StoreShrinks
    BY <1>7 DEF Crash, StoreShrinks
  <2> QED
    BY <1>1, <1>7, <2>1 DEF Crash
<1>8. ASSUME UNCHANGED store, UNCHANGED <<issued, spent>>, wire \subseteq wire',
             \A k \in Peer : applied'[k] = applied[k] \/ applied'[k] = None
      PROVE  StoreInv'
  BY <1>1, <1>8 DEF StoreShrinks
<1>9. ASSUME NEW k \in Peer, Node(k) \/ Operator(k) \/ Expire(k) \/ SweepRead(k) PROVE StoreInv'
  <2>1. \A j \in Peer : applied'[j] = applied[j] \/ applied'[j] = None
    BY <1>9 DEF Node, Operator, Restart, AskChallenge, SignNonce, AddPeer, DeletePeer, Expire,
                SweepRead, TypeOK
  <2> QED
    BY <1>8, <1>9, <2>1
       DEF Node, Operator, Restart, AskChallenge, SignNonce, AddPeer, DeletePeer, Expire, SweepRead
<1> QED
  BY <1>2, <1>3, <1>4, <1>5, <1>6, <1>7, <1>8, <1>9
     DEF Next, Handle, AnnounceChallenge, AnnounceConfirm, ConfirmExpired, UpdateFails, vars

(* A handler past its checks carries a nonce no newer than the pending     *)
(* one, and without a race all of them carry the same.                     *)
LEMMA JobStep ==
  TypeOK /\ WireInv /\ StoreInv /\ JobInv /\ [Next]_vars => JobInv'
<1> SUFFICES ASSUME TypeOK, WireInv, StoreInv, JobInv, [Next]_vars PROVE JobInv'
  OBVIOUS
<1>0. \A r \in Request : job[r].at \in {"update", "delete"} =>
        job[r].msg \in Confirm /\ job[r].msg.key \in Peer /\ job[r].msg.nonce \in Nat
  BY DEF TypeOK, Confirm, Nonce
<1>1. ASSUME NEW r \in Request, job' = [job EXCEPT ![r] = Idle], StoreShrinks, wire \subseteq wire',
             UNCHANGED <<applied, raced>>
      PROVE  JobInv'
  BY <1>0, <1>1 DEF JobInv, StoreShrinks, UpdatingFor, Idle, TypeOK
<1>2. ASSUME UNCHANGED <<job, raced>>, StoreShrinks, wire \subseteq wire',
             \A k \in Peer : applied'[k] = applied[k] \/ applied'[k] = None
      PROVE  JobInv'
  BY <1>0, <1>2 DEF JobInv, StoreShrinks, UpdatingFor
<1>3. ASSUME NEW r \in Request, NEW m \in wire, AnnounceChallenge(r, m) PROVE JobInv'
  BY <1>3 DEF AnnounceChallenge, At, JobInv, UpdatingFor, TypeOK
<1>4. ASSUME NEW r \in Request, NEW m \in wire, ConfirmExpired(r, m) PROVE JobInv'
  BY <1>4 DEF ConfirmExpired, LoadChallenge, At, JobInv, UpdatingFor, TypeOK
<1>5. ASSUME NEW r \in Request, StoreChallenge(r) PROVE JobInv'
  <2> DEFINE k == job[r].msg.key
             n == issued[k] + 1
  <2>1. k \in Peer /\ issued \in [Peer -> 0 .. MaxNonce] /\ store \in [Peer -> 0 .. MaxNonce]
    BY <1>5 DEF StoreChallenge, TypeOK, Challenge
  <2>2. /\ store' = [store EXCEPT ![k] = n] /\ wire \subseteq wire'
        /\ job' = [job EXCEPT ![r] = Idle] /\ UNCHANGED <<applied, raced>>
    BY <1>5 DEF StoreChallenge
  <2>3. \A s \in Request : job[s].at \in {"update", "delete"} =>
          job[s].msg.nonce <= issued[job[s].msg.key]
    BY <1>0 DEF JobInv, WireInv, Confirm
  <2>4. \A s \in Request : job'[s] = job[s] \/ job'[s].at = "idle"
    BY <2>2 DEF Idle, TypeOK
  <2> HIDE DEF k
  <2>5. \A s \in Request : job'[s].at \in {"update", "delete"} =>
          /\ job'[s].msg \in wire'
          /\ store'[job'[s].msg.key] = 0 \/ job'[s].msg.nonce <= store'[job'[s].msg.key]
    BY <1>0, <2>1, <2>2, <2>3, <2>4 DEF JobInv
  <2>6. \A s \in Request, j \in Peer : UpdatingFor(s, j)' => UpdatingFor(s, j) /\ job'[s] = job[s]
    BY <2>4 DEF UpdatingFor
  <2> QED
    BY <2>2, <2>5, <2>6 DEF JobInv
<1>6. ASSUME NEW r \in Request, NEW m \in wire, AnnounceConfirm(r, m) PROVE JobInv'
  <2>1. /\ m \in Confirm /\ m.key \in Peer /\ m.nonce \in Nat /\ m.nonce = store[m.key]
        /\ store[m.key] # 0
    BY <1>6, MessageKinds DEF AnnounceConfirm, LoadChallenge, NonceMatches, TypeOK, Nonce
  <2>2. /\ job' = [job EXCEPT ![r] = At("update", m)] /\ raced \subseteq raced'
        /\ UNCHANGED <<store, wire, applied>>
    BY <1>6 DEF AnnounceConfirm
  <2>3. \A s \in Request : s # r => job'[s] = job[s]
    BY <2>2 DEF TypeOK
  <2>4. job'[r].at = "update" /\ job'[r].msg = m
    BY <2>2 DEF At, TypeOK
  <2>5. \A s \in Request : job'[s].at \in {"update", "delete"} =>
          /\ job'[s].msg \in wire'
          /\ store'[job'[s].msg.key] = 0 \/ job'[s].msg.nonce <= store'[job'[s].msg.key]
    BY <2>1, <2>2, <2>3, <2>4 DEF JobInv
  <2>6. m.key \notin raced' => \A s \in Request : UpdatingFor(s, m.key) => job[s].msg.nonce = m.nonce
    BY <1>6, <2>1 DEF AnnounceConfirm
  <2>7. ASSUME NEW j \in Peer \ raced', NEW s \in Request, UpdatingFor(s, j)'
        PROVE  /\ applied'[j] # None => applied'[j].nonce <= job'[s].msg.nonce
               /\ \A t \in Request : UpdatingFor(t, j)' => job'[t].msg.nonce = job'[s].msg.nonce
    <3>1. CASE j = m.key
      <4>1. \A t \in Request : UpdatingFor(t, j)' => job'[t].msg.nonce = m.nonce
        BY <2>3, <2>4, <2>6, <2>7, <3>1 DEF UpdatingFor
      <4>2. applied[j] # None => applied[j].nonce <= m.nonce
        BY <2>1, <3>1 DEF StoreInv
      <4> QED
        BY <2>2, <2>7, <4>1, <4>2
    <3>2. CASE j # m.key
      BY <2>2, <2>3, <2>4, <2>7, <3>2 DEF UpdatingFor, JobInv
    <3> QED
      BY <3>1, <3>2
  <2> QED
    BY <2>5, <2>7 DEF JobInv
<1>7. ASSUME NEW r \in Request, UpdatePeerURL(r) PROVE JobInv'
  <2> DEFINE m == job[r].msg
  <2>1. m \in Confirm /\ m.key \in Peer /\ m.nonce \in Nat /\ UpdatingFor(r, m.key)
    BY <1>0, <1>7 DEF UpdatePeerURL, UpdatingFor
  <2>2. /\ job' = [job EXCEPT ![r] = At("delete", m)] /\ UNCHANGED <<store, wire, raced>>
        /\ \A k \in Peer : \/ applied'[k] = applied[k]
                           \/ (k = m.key /\ applied'[k] = m)
    BY <1>7, <2>1 DEF UpdatePeerURL, TypeOK
  <2>3. \A s \in Request : job'[s] = job[s] \/ (s = r /\ job'[s].at = "delete" /\ job'[s].msg = m)
    BY <2>2 DEF At, TypeOK
  <2>4. \A s \in Request, j \in Peer : UpdatingFor(s, j)' => UpdatingFor(s, j) /\ job'[s] = job[s]
    BY <2>3 DEF UpdatingFor
  <2>5. \A s \in Request : job'[s].at \in {"update", "delete"} =>
          /\ job'[s].msg \in wire'
          /\ store'[job'[s].msg.key] = 0 \/ job'[s].msg.nonce <= store'[job'[s].msg.key]
    BY <1>7, <2>2, <2>3 DEF JobInv, UpdatePeerURL
  <2>6. ASSUME NEW j \in Peer \ raced', NEW s \in Request, UpdatingFor(s, j)'
        PROVE  /\ applied'[j] # None => applied'[j].nonce <= job'[s].msg.nonce
               /\ \A t \in Request : UpdatingFor(t, j)' => job'[t].msg.nonce = job'[s].msg.nonce
    <3>1. UpdatingFor(s, j) /\ job'[s] = job[s] /\ job[s].msg.nonce \in Nat
      BY <1>0, <2>4, <2>6 DEF UpdatingFor
    <3>2. j = m.key => job[s].msg.nonce = m.nonce
      BY <2>1, <2>2, <3>1 DEF JobInv
    <3> QED
      BY <2>2, <2>4, <3>1, <3>2 DEF JobInv
  <2> QED
    BY <2>5, <2>6 DEF JobInv
<1>8. ASSUME NEW r \in Request, DeleteChallenge(r) PROVE JobInv'
  <2>1. StoreShrinks
    BY <1>8 DEF DeleteChallenge, AfterUse, TypeOK, StoreShrinks
  <2> QED
    BY <1>1, <1>8, <2>1 DEF DeleteChallenge
<1>9. ASSUME NEW r \in Request, EvictExpired(r) PROVE JobInv'
  <2>1. StoreShrinks
    BY <1>9 DEF EvictExpired, TypeOK, StoreShrinks
  <2> QED
    BY <1>1, <1>9, <2>1 DEF EvictExpired
<1>10. ASSUME NEW r \in Request, UpdateFails(r) PROVE JobInv'
  BY <1>1, <1>10 DEF UpdateFails, StoreShrinks
<1>11. ASSUME SweepDelete PROVE JobInv'
  <2>1. StoreShrinks
    BY <1>11 DEF SweepDelete, TypeOK, StoreShrinks
  <2> QED
    BY <1>2, <1>11, <2>1 DEF SweepDelete
<1>12. ASSUME Crash PROVE JobInv'
  BY <1>12 DEF Crash, JobInv, UpdatingFor, Idle
<1>13. ASSUME NEW k \in Peer, Node(k) \/ Operator(k) \/ Expire(k) \/ SweepRead(k) PROVE JobInv'
  <2>1. \A j \in Peer : applied'[j] = applied[j] \/ applied'[j] = None
    BY <1>13 DEF Node, Operator, Restart, AskChallenge, SignNonce, AddPeer, DeletePeer, Expire,
                 SweepRead, TypeOK
  <2>2. UNCHANGED <<job, raced, store>> /\ wire \subseteq wire'
    BY <1>13 DEF Node, Operator, Restart, AskChallenge, SignNonce, AddPeer, DeletePeer, Expire,
                 SweepRead
  <2> QED
    BY <1>2, <2>1, <2>2 DEF StoreShrinks
<1>14. CASE UNCHANGED vars
  BY <1>2, <1>14 DEF vars, StoreShrinks
<1> QED
  BY <1>3, <1>4, <1>5, <1>6, <1>7, <1>8, <1>9, <1>10, <1>11, <1>12, <1>13, <1>14
     DEF Next, Handle

(* Nonces only grow older.                                                 *)
LEMMA AgeStep == TypeOK /\ AgeInv /\ [Next]_vars => AgeInv'
<1> SUFFICES ASSUME TypeOK, AgeInv, [Next]_vars PROVE AgeInv'
  OBVIOUS
<1>0. \A r \in Request : job[r].at = "evict" =>
        job[r].msg.key \in Peer /\ job[r].msg.nonce \in Nat
  BY DEF TypeOK, Confirm, Nonce
<1>1. ASSUME UNCHANGED <<sweep, expired>>,
             \A r \in Request : job'[r].at = "evict" => job'[r] = job[r]
      PROVE  AgeInv'
  BY <1>1 DEF AgeInv
<1>2. ASSUME NEW r \in Request, NEW m \in wire, AnnounceChallenge(r, m) \/ AnnounceConfirm(r, m)
      PROVE  AgeInv'
  BY <1>1, <1>2 DEF AnnounceChallenge, AnnounceConfirm, At, TypeOK
<1>3. ASSUME NEW r \in Request, NEW m \in wire, ConfirmExpired(r, m) PROVE AgeInv'
  <2> DEFINE c == [m EXCEPT !.nonce = store[m.key]]
  <2>1. m \in Confirm /\ c.key = m.key /\ c.nonce = store[m.key]
    BY <1>3, MessageKinds DEF ConfirmExpired, LoadChallenge, TypeOK, Confirm
  <2>2. c.nonce <= expired[c.key]
    BY <1>3, <2>1 DEF ConfirmExpired
  <2> HIDE DEF c
  <2>3. job' = [job EXCEPT ![r] = At("evict", c)] /\ UNCHANGED <<sweep, expired>>
    BY <1>3 DEF ConfirmExpired, c
  <2> QED
    BY <2>2, <2>3 DEF At, AgeInv, TypeOK
<1>4. ASSUME NEW r \in Request, job' = [job EXCEPT ![r] = Idle], UNCHANGED <<sweep, expired>>
      PROVE  AgeInv'
  BY <1>1, <1>4 DEF Idle, TypeOK
<1>5. ASSUME NEW r \in Request, UpdatePeerURL(r) PROVE AgeInv'
  BY <1>1, <1>5 DEF UpdatePeerURL, At, TypeOK
<1>6. ASSUME NEW k \in Peer, Expire(k) PROVE AgeInv'
  <2>1. UNCHANGED <<sweep, job>> /\ \A j \in Peer : expired[j] <= expired'[j]
    BY <1>6 DEF Expire, TypeOK
  <2>2. expired \in [Peer -> Nat] /\ expired' \in [Peer -> Nat]
    BY <1>6 DEF Expire, TypeOK
  <2>3. sweep # None => sweep.key \in Peer /\ sweep.nonce \in Nat
    BY DEF TypeOK, Pending, Nonce
  <2> QED
    BY <1>0, <2>1, <2>2, <2>3 DEF AgeInv
<1>7. ASSUME NEW k \in Peer, SweepRead(k) PROVE AgeInv'
  BY <1>7 DEF SweepRead, Sweepable, AgeInv
<1>8. CASE SweepDelete
  BY <1>8 DEF SweepDelete, AgeInv
<1>9. CASE Crash
  BY <1>9 DEF Crash, Idle, AgeInv
<1>10. CASE UNCHANGED <<sweep, expired, job>>
  BY <1>10 DEF AgeInv
<1> QED
  BY <1>2, <1>3, <1>4, <1>5, <1>6, <1>7, <1>8, <1>9, <1>10
     DEF Next, Node, Operator, Handle, Restart, AskChallenge, SignNonce, AddPeer, DeletePeer,
         StoreChallenge, EvictExpired, UpdateFails, DeleteChallenge, vars

(* The URL follows the newest confirmation while no two race.              *)
LEMMA NewestStep ==
  TypeOK /\ StoreInv /\ JobInv /\ UrlIsNewest /\ [Next]_vars => UrlIsNewest'
<1> SUFFICES ASSUME TypeOK, StoreInv, JobInv, UrlIsNewest, [Next]_vars PROVE UrlIsNewest'
  OBVIOUS
<1>1. ASSUME UNCHANGED <<url, applied>>, raced \subseteq raced' PROVE UrlIsNewest'
  BY <1>1 DEF UrlIsNewest
<1>2. ASSUME NEW k \in Peer, NEW u \in Url, AddPeer(k, u) PROVE UrlIsNewest'
  BY <1>2 DEF AddPeer, UrlIsNewest, TypeOK
<1>3. ASSUME NEW k \in Peer, DeletePeer(k) PROVE UrlIsNewest'
  BY <1>3 DEF DeletePeer, UrlIsNewest, TypeOK
<1>4. ASSUME NEW r \in Request, UpdatePeerURL(r) PROVE UrlIsNewest'
  <2> DEFINE m == job[r].msg
  <2>1. m.key \in Peer /\ UpdatingFor(r, m.key)
    BY <1>4 DEF UpdatePeerURL, UpdatingFor, TypeOK, Confirm
  <2>2. m.key \notin raced => Newer(m, m.key)
    BY <2>1 DEF JobInv, Newer, TypeOK, Confirm, Nonce
  <2> QED
    BY <1>4, <2>1, <2>2 DEF UpdatePeerURL, UrlIsNewest, TypeOK
<1> QED
  BY <1>1, <1>2, <1>3, <1>4
     DEF Next, Node, Operator, Handle, Restart, AskChallenge, SignNonce, AnnounceChallenge,
         StoreChallenge, AnnounceConfirm, ConfirmExpired, EvictExpired, UpdateFails,
         DeleteChallenge, Expire, SweepRead, SweepDelete, Crash, vars

(* What is confirmed is older than what is pending.                        *)
LEMMA SpentFromStore == TypeOK /\ StoreInv => SpentNotPending
<1> SUFFICES ASSUME TypeOK, StoreInv, NEW k \in Peer, store[k] \in spent[k] PROVE FALSE
  BY DEF SpentNotPending
<1>1. spent[k] \subseteq 1 .. MaxNonce /\ store[k] \in 0 .. MaxNonce
  BY DEF TypeOK, Nonce
<1>2. store[k] = 0 \/ store[k] < store[k]
  BY DEF StoreInv
<1> QED
  BY <1>1, <1>2

(* The invariant holds at the start and every step preserves it.           *)
LEMMA Invariance == Spec => []IndInv
<1>1. Init => IndInv
  <2>1. Init => WireInv /\ StoreInv /\ JobInv /\ AgeInv /\ UrlIsNewest
    BY DEF Init, WireInv, StoreInv, JobInv, AgeInv, UpdatingFor, UrlIsNewest, Idle
  <2> QED
    BY <2>1, InitType, SpentFromStore DEF IndInv
<1>2. IndInv /\ [Next]_vars => IndInv'
  <2>1. (TypeOK /\ StoreInv)' => SpentNotPending'
    BY SpentFromStore, PTL
  <2> QED
    BY <2>1, TypeStep, WireStep, StoreStep, JobStep, AgeStep, NewestStep DEF IndInv
<1> QED
  BY <1>1, <1>2, PTL DEF Spec

(* A consumed nonce is never pending again (announceConfirm).              *)
THEOREM SpentNotPendingHolds == Spec => []SpentNotPending
BY Invariance, PTL DEF IndInv

(* Only racing confirmations leave an older URL behind (UpdatePeerURL).    *)
THEOREM UrlIsNewestHolds == Spec => []UrlIsNewest
BY Invariance, PTL DEF IndInv

(* Who deletes a challenge that is still good has confirmed it or looked   *)
(* at an older one (announceConfirm, startChallengeSweeper).               *)
THEOREM FreshIsUsedHolds == Spec => FreshIsUsed
<1> DEFINE Used(k) ==
             \/ store[k] \in spent'[k]
             \/ Crash
             \/ \E r \in Request : /\ job[r].at \in {"delete", "evict"} /\ job'[r] = Idle
                                  /\ Older(k, job[r].msg)
             \/ sweep # None /\ sweep' = None /\ Older(k, sweep)
<1>1. IndInv /\ [Next]_vars =>
        [\A k \in Peer : store[k] > expired[k] /\ store'[k] = 0 => Used(k)]_vars
  <2> SUFFICES ASSUME IndInv, Next, NEW k \in Peer, store[k] > expired[k], store'[k] = 0
               PROVE  Used(k)
    OBVIOUS
  <2>1. store[k] \in Nat /\ expired[k] \in Nat /\ store'[k] # store[k]
    BY DEF IndInv, TypeOK
  <2>2. ASSUME NEW r \in Request, DeleteChallenge(r) PROVE Used(k)
    <3> DEFINE m == job[r].msg
    <3>1. m.key = k
      BY <2>1, <2>2 DEF DeleteChallenge, IndInv, TypeOK
    <3>2. m.nonce \in Nat /\ m.nonce <= store[k] /\ job'[r] = Idle
      BY <2>1, <2>2, <3>1 DEF DeleteChallenge, IndInv, TypeOK, JobInv, Confirm, Nonce
    <3>3. m.nonce \in spent'[k]
      BY <2>2, <3>1 DEF DeleteChallenge, IndInv, TypeOK
    <3>4. CASE m.nonce = store[k]
      BY <3>3, <3>4
    <3>5. CASE m.nonce # store[k]
      <4>1. Older(k, m)
        BY <2>1, <3>1, <3>2, <3>5 DEF Older
      <4> QED
        BY <2>2, <3>2, <4>1 DEF DeleteChallenge
    <3> QED
      BY <3>4, <3>5
  <2>3. ASSUME NEW r \in Request, EvictExpired(r) PROVE Used(k)
    <3>1. job[r].msg.key = k /\ job'[r] = Idle
      BY <2>1, <2>3 DEF EvictExpired, IndInv, TypeOK
    <3>2. job[r].msg.nonce \in Nat /\ job[r].msg.nonce <= expired[k]
      BY <2>3, <3>1 DEF EvictExpired, IndInv, TypeOK, AgeInv, Confirm, Nonce
    <3>3. Older(k, job[r].msg)
      BY <2>1, <3>1, <3>2 DEF Older
    <3> QED
      BY <2>3, <3>1, <3>3 DEF EvictExpired
  <2>4. CASE SweepDelete
    <3>1. sweep.key = k /\ sweep \in Pending
      BY <2>1, <2>4 DEF SweepDelete, IndInv, TypeOK
    <3>2. Older(k, sweep)
      BY <2>1, <2>4, <3>1 DEF SweepDelete, IndInv, AgeInv, Older, Pending, Nonce
    <3> QED
      BY <2>4, <3>2 DEF SweepDelete
  <2>5. ASSUME NEW r \in Request, StoreChallenge(r) PROVE FALSE
    <3>1. job[r].msg.key \in Peer
      BY <2>5 DEF StoreChallenge, IndInv, TypeOK, Challenge
    <3> QED
      BY <2>1, <2>5, <3>1 DEF StoreChallenge, Nonce, IndInv, TypeOK
  <2>6. CASE Crash
    BY <2>6
  <2> QED
    BY <2>1, <2>2, <2>3, <2>4, <2>5, <2>6
       DEF Next, Node, Operator, Handle, Restart, AskChallenge, SignNonce, AddPeer, DeletePeer,
           AnnounceChallenge, AnnounceConfirm, ConfirmExpired, UpdatePeerURL, UpdateFails, Expire,
           SweepRead
<1> QED
  BY <1>1, Invariance, PTL DEF Spec, FreshIsUsed

----------------------------------------------------------------------------
(* The handshake implements PeerUrls: a successful confirmation is an      *)
(* Accept, the operator's actions are Administer, a signature is an        *)
(* AnnounceUrl, and everything else stutters.                              *)
THEOREM PromiseHolds == Spec => PromiseKept
<1> DEFINE src == [k \in Peer |-> Source(k)]
           ann == [k \in Peer |-> Signed(k)]
<1>1. Init => Promise!Init
  BY DEF Init, Promise!Init, Source, Signed
<1>2. IndInv /\ [Next]_vars => [Promise!Next]_<<url, src, ann>>
  <2> SUFFICES ASSUME IndInv, [Next]_vars PROVE [Promise!Next]_<<url, src, ann>>
    OBVIOUS
  <2> USE DEF IndInv
  <2>1. ASSUME UNCHANGED <<url, applied, wire>> PROVE UNCHANGED <<url, src, ann>>
    BY <2>1 DEF Source, Signed
  <2>2. ASSUME UNCHANGED <<url, applied>>, \A k \in Peer : Signed(k)' = Signed(k)
        PROVE  UNCHANGED <<url, src, ann>>
    BY <2>2 DEF Source
  <2>3. ASSUME NEW k \in Peer, AskChallenge(k) PROVE UNCHANGED <<url, src, ann>>
    <3>1. \A j \in Peer : Signed(j)' = Signed(j)
      BY <2>3 DEF AskChallenge, Signed
    <3> QED
      BY <2>2, <2>3, <3>1 DEF AskChallenge
  <2>4. ASSUME NEW r \in Request, StoreChallenge(r) PROVE UNCHANGED <<url, src, ann>>
    <3>1. \A j \in Peer : Signed(j)' = Signed(j)
      BY <2>4 DEF StoreChallenge, Signed
    <3> QED
      BY <2>2, <2>4, <3>1 DEF StoreChallenge
  <2>5. ASSUME NEW k \in Peer, NEW m \in wire, SignNonce(k, m) PROVE Promise!Next
    <3> DEFINE c == [m EXCEPT !.type = "confirm"]
    <3>1. /\ m.key = k /\ m.url \in Url
          /\ c.type = "confirm" /\ c.key = m.key /\ c.url = m.url
      BY <2>5, MessageKinds DEF SignNonce, TypeOK, Answer
    <3>2. wire' = wire \cup {c} /\ UNCHANGED <<url, applied>>
      BY <2>5 DEF SignNonce
    <3> HIDE DEF c
    <3>3. Signed(k)' = Signed(k) \cup {m.url}
      BY <3>1, <3>2 DEF Signed
    <3>4. \A j \in Peer : j # k => Signed(j)' = Signed(j)
      BY <3>1, <3>2 DEF Signed
    <3>5. ann' = [ann EXCEPT ![k] = @ \cup {m.url}] /\ src' = src
      BY <3>2, <3>3, <3>4 DEF Source
    <3> QED
      BY <3>1, <3>2, <3>5 DEF Promise!Next, Promise!AnnounceUrl
  <2>6. ASSUME NEW k \in Peer, NEW u \in Url \cup {None},
               url' = [url EXCEPT ![k] = u], applied' = [applied EXCEPT ![k] = None],
               UNCHANGED wire
        PROVE  Promise!Next
    <3>1. src' = [src EXCEPT ![k] = "operator"] /\ ann' = ann
      BY <2>6 DEF Source, Signed, TypeOK
    <3> QED
      BY <2>6, <3>1 DEF Promise!Next, Promise!Administer
  <2>7. ASSUME NEW r \in Request, UpdatePeerURL(r) PROVE Promise!Next
    <3> DEFINE m == job[r].msg
    <3>1. m \in Confirm /\ m.key \in Peer /\ m.url \in Url /\ m.type = "confirm" /\ m \in wire
      BY <2>7 DEF UpdatePeerURL, TypeOK, Confirm, JobInv
    <3>2. m.url \in Signed(m.key)
      BY <3>1 DEF Signed
    <3>3. applied'[m.key] # None /\ \A j \in Peer : j # m.key => applied'[j] = applied[j]
      BY <2>7, <3>1 DEF UpdatePeerURL, Newer, TypeOK
    <3>4. src' = [src EXCEPT ![m.key] = "node"]
      BY <3>1, <3>3 DEF Source
    <3>5. ann' = ann /\ url[m.key] # None /\ url' = [url EXCEPT ![m.key] = m.url]
      BY <2>7 DEF UpdatePeerURL, Known, Signed
    <3> QED
      BY <3>1, <3>2, <3>4, <3>5 DEF Promise!Next, Promise!Accept
  <2>8. ASSUME NEW k \in Peer, Operator(k) PROVE Promise!Next
    BY <2>6, <2>8 DEF Operator, AddPeer, DeletePeer
  <2> QED
    BY <2>1, <2>3, <2>4, <2>5, <2>7, <2>8
       DEF Next, Node, Handle, Restart, AnnounceChallenge, AnnounceConfirm, ConfirmExpired,
           EvictExpired, UpdateFails, DeleteChallenge, Expire, SweepRead, SweepDelete, Crash, vars
<1> QED
  BY <1>1, <1>2, Invariance, PTL DEF Spec, PromiseKept, Promise!Spec
=============================================================================
