------------------------------ MODULE Announce ------------------------------
(***************************************************************************)
(* The challenge-response handshake by which a node whose URL has changed  *)
(* re-registers it with a peer (router/announce.go).  The announcing node  *)
(* asks for a nonce, signs "nonce|new_url" and sends the signature back;   *)
(* the peer keeps at most one pending challenge per public key, in memory. *)
(*                                                                         *)
(* Handlers run concurrently with each other, with the sweeper and with    *)
(* the operator; every access to challengeStore and to the registry is a   *)
(* step of its own.  Messages are delayed, lost, reordered and delivered   *)
(* more than once.  Only the holder of a key signs: requests the handlers  *)
(* refuse without touching anything are not steps.                         *)
(***************************************************************************)
EXTENDS Naturals

CONSTANTS
  Peer,      \* the public keys of announcing nodes
  Url,
  Request,   \* requests that may be handled at the same time
  MaxNonce,  \* bound on the challenges issued to one key
  None

VARIABLES
  url,      \* peers.url of the row with this node_public_key, None without a row
  store,    \* challengeStore: the pending nonce of a key, 0 when there is none
  issued,   \* the random nonces generated for a key, numbered 1, 2, ...
  expired,  \* the nonces of a key up to this one are older than challengeTTL
  job,      \* what each request handler has read and does next
  sweep,    \* the entry whose key the sweeper is about to delete, or None
  here,     \* the public_url of the announcing node
  step,     \* how far its process is with the announcement
  wire,     \* every message ever sent: any of them may arrive, at any time
  spent,    \* history: nonces deleted after their confirmation succeeded
  applied,  \* history: the newest confirmation written since the operator's last change
  raced     \* history: keys for which two challenges were being confirmed at once

serverVars == <<url, store, issued, job, sweep>>
nodeVars   == <<here, step>>
history    == <<spent, applied, raced>>
vars == <<serverVars, expired, nodeVars, wire, history>>

Nonce == 1 .. MaxNonce

Challenge == [type : {"challenge"}, key : Peer, url : Url]
Answer    == [type : {"nonce"}, key : Peer, url : Url, nonce : Nonce]
Confirm   == [type : {"confirm"}, key : Peer, url : Url, nonce : Nonce]
Message   == Challenge \cup Answer \cup Confirm

Pending == [key : Peer, nonce : Nonce]

ASSUME AnnounceAssumption ==
  /\ MaxNonce \in Nat
  /\ None \notin Peer \cup Url \cup Confirm \cup Pending

Idle == [at |-> "idle", msg |-> None]
At(stage, m) == [at |-> stage, msg |-> m]

Init ==
  /\ url \in [Peer -> Url \cup {None}]
  /\ store = [k \in Peer |-> 0]
  /\ issued = [k \in Peer |-> 0]
  /\ expired = [k \in Peer |-> 0]
  /\ job = [r \in Request |-> Idle]
  /\ sweep = None
  /\ here \in [Peer -> Url]
  /\ step = [k \in Peer |-> "start"]
  /\ wire = {}
  /\ spent = [k \in Peer |-> {}]
  /\ applied = [k \in Peer |-> None]
  /\ raced = {}

----------------------------------------------------------------------------
(* The announcing node: announceStartupURL runs once per process, when it  *)
(* starts; a restart may bring a new tunnel URL.                           *)

Restart(k, u) ==
  /\ here' = [here EXCEPT ![k] = u]
  /\ step' = [step EXCEPT ![k] = "start"]
  /\ UNCHANGED <<serverVars, expired, wire, history>>

AskChallenge(k) ==
  /\ step[k] = "start"
  /\ step' = [step EXCEPT ![k] = "asked"]
  /\ wire' = wire \cup {[type |-> "challenge", key |-> k, url |-> here[k]]}
  /\ UNCHANGED <<serverVars, expired, here, history>>

(* The answer reaches the process that asked; it signs and confirms.       *)
SignNonce(k, m) ==
  /\ step[k] = "asked"
  /\ m \in wire /\ m.type = "nonce" /\ m.key = k /\ m.url = here[k]
  /\ step' = [step EXCEPT ![k] = "signed"]
  /\ wire' = wire \cup {[m EXCEPT !.type = "confirm"]}
  /\ UNCHANGED <<serverVars, expired, here, history>>

----------------------------------------------------------------------------
(* The operator of the registering node.                                   *)

AddPeer(k, u) ==
  /\ url' = [url EXCEPT ![k] = u]
  /\ applied' = [applied EXCEPT ![k] = None]
  /\ UNCHANGED <<store, issued, job, sweep, expired, nodeVars, wire, spent, raced>>

DeletePeer(k) ==
  /\ url[k] # None
  /\ url' = [url EXCEPT ![k] = None]
  /\ applied' = [applied EXCEPT ![k] = None]
  /\ UNCHANGED <<store, issued, job, sweep, expired, nodeVars, wire, spent, raced>>

----------------------------------------------------------------------------
(* The registry has a row with this key.  (A definition whose name ends in *)
(* Fault is a plausible mistake in the one that follows it; nothing uses   *)
(* it.)                                                                    *)

KnownFault(k) == TRUE

Known(k) == url[k] # None

----------------------------------------------------------------------------
(* announceChallenge: look the key up, then store a fresh challenge in     *)
(* place of the one that may be pending, and answer.                       *)

AnnounceChallenge(r, m) ==
  /\ job[r].at = "idle"
  /\ m \in wire /\ m.type = "challenge"
  /\ Known(m.key)
  /\ job' = [job EXCEPT ![r] = At("store", m)]
  /\ UNCHANGED <<url, store, issued, sweep, expired, nodeVars, wire, history>>

StoreChallenge(r) ==
  LET k == job[r].msg.key
      n == issued[k] + 1
  IN /\ job[r].at = "store"
     /\ n \in Nonce
     /\ issued' = [issued EXCEPT ![k] = n]
     /\ store' = [store EXCEPT ![k] = n]
     /\ wire' = wire \cup {[type |-> "nonce", key |-> k, url |-> job[r].msg.url, nonce |-> n]}
     /\ job' = [job EXCEPT ![r] = Idle]
     /\ UNCHANGED <<url, sweep, expired, nodeVars, history>>

----------------------------------------------------------------------------
(* announceConfirm: load the challenge and test its age, the nonce and the *)
(* signature; then write the URL; then delete the key's challenge.         *)

NonceMatchesFault(m) == TRUE

NonceMatches(m) == m.nonce = store[m.key]

UpdatingFor(r, k) == job[r].at = "update" /\ job[r].msg.key = k

LoadChallenge(r, m) ==
  /\ job[r].at = "idle"
  /\ m \in wire /\ m.type = "confirm"
  /\ store[m.key] # 0

AnnounceConfirm(r, m) ==
  /\ LoadChallenge(r, m)
  /\ store[m.key] > expired[m.key]
  /\ NonceMatches(m)
  /\ job' = [job EXCEPT ![r] = At("update", m)]
  /\ raced' = IF \E s \in Request : UpdatingFor(s, m.key) /\ job[s].msg.nonce # m.nonce
              THEN raced \cup {m.key} ELSE raced
  /\ UNCHANGED <<url, store, issued, sweep, expired, nodeVars, wire, spent, applied>>

(* The nonce that was loaded need not be the one in the request.           *)
ConfirmExpired(r, m) ==
  /\ LoadChallenge(r, m)
  /\ store[m.key] <= expired[m.key]
  /\ job' = [job EXCEPT ![r] = At("evict", [m EXCEPT !.nonce = store[m.key]])]
  /\ UNCHANGED <<url, store, issued, sweep, expired, nodeVars, wire, history>>

EvictExpired(r) ==
  /\ job[r].at = "evict"
  /\ store' = [store EXCEPT ![job[r].msg.key] = 0]
  /\ job' = [job EXCEPT ![r] = Idle]
  /\ UNCHANGED <<url, issued, sweep, expired, nodeVars, wire, history>>

Newer(m, k) == applied[k] = None \/ m.nonce >= applied[k].nonce

UpdatePeerURL(r) ==
  LET m == job[r].msg
  IN /\ job[r].at = "update"
     /\ Known(m.key)
     /\ url' = [url EXCEPT ![m.key] = m.url]
     /\ applied' = IF Newer(m, m.key) THEN [applied EXCEPT ![m.key] = m] ELSE applied
     /\ job' = [job EXCEPT ![r] = At("delete", m)]
     /\ UNCHANGED <<store, issued, sweep, expired, nodeVars, wire, spent, raced>>

(* No row with this key any more, or the database is busy.                 *)
UpdateFails(r) ==
  /\ job[r].at = "update"
  /\ job' = [job EXCEPT ![r] = Idle]
  /\ UNCHANGED <<url, store, issued, sweep, expired, nodeVars, wire, history>>

AfterUseFault(k) == store[k]

(* What challengeStore.Delete leaves under the key.                        *)
AfterUse(k) == 0

DeleteChallenge(r) ==
  LET m == job[r].msg
  IN /\ job[r].at = "delete"
     /\ store' = [store EXCEPT ![m.key] = AfterUse(m.key)]
     /\ spent' = [spent EXCEPT ![m.key] = @ \cup {m.nonce}]
     /\ job' = [job EXCEPT ![r] = Idle]
     /\ UNCHANGED <<url, issued, sweep, expired, nodeVars, wire, applied, raced>>

----------------------------------------------------------------------------
(* Time passes; once a minute the sweeper ranges over the store, reading   *)
(* each entry and deleting the key of one that has expired.                *)

Expire(k) ==
  /\ expired[k] < issued[k]
  /\ expired' = [expired EXCEPT ![k] = @ + 1]
  /\ UNCHANGED <<serverVars, nodeVars, wire, history>>

SweepableFault(k) == store[k] < expired[k]

SweepableFreshFault(k) == store[k] > expired[k]

Sweepable(k) == store[k] <= expired[k]

SweepRead(k) ==
  /\ sweep = None
  /\ store[k] # 0
  /\ Sweepable(k)
  /\ sweep' = [key |-> k, nonce |-> store[k]]
  /\ UNCHANGED <<url, store, issued, job, expired, nodeVars, wire, history>>

SweepDelete ==
  /\ sweep # None
  /\ store' = [store EXCEPT ![sweep.key] = 0]
  /\ sweep' = None
  /\ UNCHANGED <<url, issued, job, expired, nodeVars, wire, history>>

(* The registering node dies and restarts: the challenges are gone.        *)
Crash ==
  /\ store' = [k \in Peer |-> 0]
  /\ job' = [r \in Request |-> Idle]
  /\ sweep' = None
  /\ UNCHANGED <<url, issued, expired, nodeVars, wire, history>>

----------------------------------------------------------------------------
Node(k) ==
  \/ \E u \in Url : Restart(k, u)
  \/ AskChallenge(k)
  \/ \E m \in wire : SignNonce(k, m)

Operator(k) == DeletePeer(k) \/ \E u \in Url : AddPeer(k, u)

Handle(r) ==
  \/ \E m \in wire : AnnounceChallenge(r, m) \/ AnnounceConfirm(r, m) \/ ConfirmExpired(r, m)
  \/ StoreChallenge(r)
  \/ EvictExpired(r)
  \/ UpdatePeerURL(r)
  \/ UpdateFails(r)
  \/ DeleteChallenge(r)

Next ==
  \/ \E k \in Peer : Node(k) \/ Operator(k) \/ Expire(k) \/ SweepRead(k)
  \/ \E r \in Request : Handle(r)
  \/ SweepDelete
  \/ Crash

Spec == Init /\ [][Next]_vars

(* Time passes and the sweeper keeps ticking and visits every key.         *)
FairSpec ==
  /\ Spec
  /\ \A k \in Peer : WF_vars(Expire(k)) /\ SF_vars(SweepRead(k))
  /\ WF_vars(SweepDelete)

----------------------------------------------------------------------------
JobType == [at : {"idle", "store", "update", "delete", "evict"}, msg : Message \cup {None}]

TypeOK ==
  /\ url \in [Peer -> Url \cup {None}]
  /\ store \in [Peer -> 0 .. MaxNonce]
  /\ issued \in [Peer -> 0 .. MaxNonce]
  /\ expired \in [Peer -> 0 .. MaxNonce]
  /\ job \in [Request -> JobType]
  /\ \A r \in Request : /\ job[r].at = "store" => job[r].msg \in Challenge
                        /\ job[r].at \in {"update", "delete", "evict"} => job[r].msg \in Confirm
  /\ sweep \in Pending \cup {None}
  /\ here \in [Peer -> Url]
  /\ step \in [Peer -> {"start", "asked", "signed"}]
  /\ wire \subseteq Message
  /\ spent \in [Peer -> SUBSET Nonce]
  /\ applied \in [Peer -> Confirm \cup {None}]
  /\ raced \subseteq Peer

(* A nonce whose confirmation has completed is never pending again, so a   *)
(* message that arrives after that is refused: with any number of handlers *)
(* deleting and storing at once, and across restarts.  announceConfirm.    *)
SpentNotPending == \A k \in Peer : store[k] \notin spent[k]

(* The URL on record is the one of the newest challenge that was confirmed *)
(* since the operator last touched the row, whatever was delayed or came   *)
(* twice; only two different challenges confirmed at the same time can     *)
(* leave an older URL behind.  announceConfirm, UpdatePeerURL.             *)
UrlIsNewest ==
  \A k \in Peer \ raced : applied[k] # None => url[k] = applied[k].url

Older(k, c) == c.key = k /\ c.nonce < store[k]

(* A challenge that has not expired is deleted by its own confirmation, by *)
(* a restart, or by somebody who has looked at an older challenge of the   *)
(* key: whoever deletes does not look at what is under the key by then.    *)
(* announceConfirm, startChallengeSweeper.                                 *)
FreshIsUsed ==
  [][\A k \in Peer : store[k] > expired[k] /\ store'[k] = 0 =>
       \/ store[k] \in spent'[k]
       \/ Crash
       \/ \E r \in Request : /\ job[r].at \in {"delete", "evict"} /\ job'[r] = Idle
                            /\ Older(k, job[r].msg)
       \/ sweep # None /\ sweep' = None /\ Older(k, sweep)]_vars

(* The pending challenge of a key does not stay: it is used, replaced,     *)
(* swept or lost in a restart.  startChallengeSweeper.                     *)
ChallengeGoes ==
  \A k \in Peer, n \in Nonce : store[k] = n ~> store[k] # n

Signed(k) == {m.url : m \in {c \in wire : c.type = "confirm" /\ c.key = k}}
Source(k) == IF applied[k] = None THEN "operator" ELSE "node"

(* The promise of PeerUrls: beside the operator only the holder of a known *)
(* key changes its URL, to one it has signed.  announceConfirm.            *)
Promise == INSTANCE PeerUrls WITH
  source    <- [k \in Peer |-> Source(k)],
  announced <- [k \in Peer |-> Signed(k)]
PromiseKept == Promise!Spec

----------------------------------------------------------------------------
(* The facts that make the properties above inductive.                     *)

(* A nonce is answered to one process, which signs one URL with it.        *)
WireInv ==
  /\ \A m \in wire : m.type # "challenge" => m.nonce <= issued[m.key]
  /\ \A m, c \in wire :
       m.type # "challenge" /\ c.type # "challenge" /\ m.key = c.key /\ m.nonce = c.nonce
         => m.url = c.url

(* What is pending is the last nonce stored, newer than every other one    *)
(* that has been confirmed or is being confirmed.                          *)
StoreInv ==
  \A k \in Peer :
    /\ store[k] <= issued[k]
    /\ \A n \in spent[k] : n <= issued[k] /\ (store[k] = 0 \/ n < store[k])
    /\ applied[k] # None =>
         /\ applied[k] \in wire /\ applied[k].key = k
         /\ store[k] = 0 \/ applied[k].nonce <= store[k]

JobInv ==
  /\ \A r \in Request :
       job[r].at \in {"update", "delete"} =>
         /\ job[r].msg \in wire
         /\ store[job[r].msg.key] = 0 \/ job[r].msg.nonce <= store[job[r].msg.key]
  /\ \A k \in Peer \ raced : \A r \in Request : UpdatingFor(r, k) =>
       /\ applied[k] # None => applied[k].nonce <= job[r].msg.nonce
       /\ \A s \in Request : UpdatingFor(s, k) => job[s].msg.nonce = job[r].msg.nonce

(* What is deleted for its age has been read when it was old.              *)
AgeInv ==
  /\ sweep # None => sweep.nonce <= expired[sweep.key]
  /\ \A r \in Request : job[r].at = "evict" => job[r].msg.nonce <= expired[job[r].msg.key]

IndInv == TypeOK /\ WireInv /\ StoreInv /\ JobInv /\ AgeInv /\ SpentNotPending /\ UrlIsNewest
=============================================================================
