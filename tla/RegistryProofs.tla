--------------------------- MODULE RegistryProofs ---------------------------
(* What holds of Registry for every set of servers, users and slots.        *)
EXTENDS Registry, TLAPS

-----------------------------------------------------------------------------
(* Types.                                                                   *)

(* Storing a peer object under a UID keeps the shape of the database.       *)
LEMMA WithPeerType ==
  ASSUME now \in Nat,
         NEW db \in Database, NEW u \in UIDs, NEW p \in PeerObject
  PROVE  WithPeer(db, u, p) \in Database
<1> DEFINE q == [p EXCEPT !.updatedAt = now]
<1>1. q \in PeerObject
  BY DEF PeerObject
<1>2. db.peers \in [UIDs -> PeerObject \cup {NoPeer}]
  BY DEF Database
<1>3. [db.peers EXCEPT ![u] = q] \in [UIDs -> PeerObject \cup {NoPeer}]
  BY <1>1, <1>2
<1>4. WithPeer(db, u, p) = [db EXCEPT !.peers = [db.peers EXCEPT ![u] = q]]
  BY DEF WithPeer, Database
<1>5. QED
  BY <1>3, <1>4 DEF Database

LEMMA EmptyDBType == EmptyDB \in Database
BY DEF EmptyDB, Database

(* A torn copy holds nothing that the object does not hold.                 *)
LEMMA TornCopy ==
  ASSUME NEW db \in Database, NEW d \in Torn(db)
  PROVE  /\ d \in Database
         /\ \A u \in PeersIn(d) : u \in PeersIn(db) /\ d.peers[u] = db.peers[u]
<1>1. PICK ss \in SUBSET Servers, us \in SUBSET UIDs : d = Part(db, ss, us)
  BY DEF Torn
<1>2. /\ db.servers \in [Servers -> Networks \cup {NoServer}]
      /\ db.peers \in [UIDs -> PeerObject \cup {NoPeer}]
  BY DEF Database
<1>3. d \in Database
  BY <1>1, <1>2 DEF Part, Database
<1>4. ASSUME NEW u \in PeersIn(d)
      PROVE  u \in PeersIn(db) /\ d.peers[u] = db.peers[u]
  BY <1>1 DEF Part, PeersIn
<1>5. QED
  BY <1>3, <1>4

(* A command starts with a copy of the object, whole or torn.               *)
LEMMA FetchedCopy ==
  ASSUME NEW a \in Actors, Fetch(a) \/ FetchTorn(a)
  PROVE  /\ \E db \in {remote} \cup Torn(remote) : local' = [local EXCEPT ![a] = db]
         /\ pc[a] = "idle" /\ pc' = [pc EXCEPT ![a] = "opened"]
         /\ UNCHANGED <<remote, now, drawn, todo, reply, links, configs>>
BY DEF Fetch, FetchTorn

LEMMA PeerType ==
  ASSUME NEW db \in Database, NEW u \in UIDs, db.peers[u] # NoPeer
  PROVE  /\ db.peers[u] \in PeerObject
         /\ db.peers[u].spec \in PeerSpec
         /\ db.peers[u].status \in PeerStatus
BY DEF Database, PeerObject

(* A command that ends with a well-typed database and reply keeps TypeOK.   *)
LEMMA CommitType ==
  ASSUME TypeOK, NEW a \in Actors, NEW db \in Database, NEW r \in Reply,
         Commit(a, db, r), drawn' \in 0 .. MaxDrawn
  PROVE  TypeOK'
BY DEF TypeOK, Commit

LEMMA ToIdleType ==
  ASSUME TypeOK, NEW a \in Actors, ToIdle(a)
  PROVE  /\ pc' \in [Actors -> {"idle", "opened", "applying", "syncing"}]
         /\ local' \in [Actors -> Database]
         /\ todo' \in [Actors -> Seq(ManifestEntry)]
         /\ reply' \in [Actors -> Reply]
<1>1. NoReply \in Reply
  BY DEF NoReply, Reply
<1>2. <<>> \in Seq(ManifestEntry)
  OBVIOUS
<1>3. QED
  BY <1>1, <1>2, EmptyDBType DEF TypeOK, ToIdle

LEMMA InitType == Init => TypeOK
<1>1. NoReply \in Reply
  BY DEF NoReply, Reply
<1>2. <<>> \in Seq(ManifestEntry)
  OBVIOUS
<1>3. QED
  BY <1>1, <1>2, EmptyDBType, RegistryAssumption DEF Init, TypeOK

LEMMA ServerCommandType ==
  ASSUME TypeOK, NEW a \in Actors, ServerCommand(a)
  PROVE  TypeOK'
<1>1. PICK s \in Servers :
        \/ \E net \in Networks, override \in BOOLEAN : InitServer(a, s, net, override)
        \/ DeleteServer(a, s)
  BY DEF ServerCommand
<1>2. PICK v \in Networks \cup {NoServer} :
        /\ Commit(a, [local[a] EXCEPT !.servers = [@ EXCEPT ![s] = v]], NoReply)
        /\ UNCHANGED drawn
  BY <1>1 DEF InitServer, DeleteServer
<1> DEFINE db == [local[a] EXCEPT !.servers = [local[a].servers EXCEPT ![s] = v]]
<1>3. local[a] \in Database
  BY DEF TypeOK
<1>4. [local[a].servers EXCEPT ![s] = v] \in [Servers -> Networks \cup {NoServer}]
  BY <1>3 DEF Database
<1>5. db \in Database
  BY <1>3, <1>4 DEF Database
<1>6. NoReply \in Reply
  BY DEF NoReply, Reply
<1>7. Commit(a, db, NoReply)
  BY <1>2, <1>3 DEF Database
<1>8. drawn' \in 0 .. MaxDrawn
  BY <1>2 DEF TypeOK
<1> HIDE DEF db
<1>9. QED
  BY <1>5, <1>6, <1>7, <1>8, CommitType

LEMMA PeerAddType ==
  ASSUME TypeOK, NEW a \in Actors, NEW u \in UIDs, NEW override \in BOOLEAN,
         NEW ip \in Addresses, NEW action \in ExpireActions, NEW key \in Nat,
         PeerAdd(a, u, override, ip, action, key), drawn' \in 0 .. MaxDrawn
  PROVE  TypeOK'
<1> DEFINE spec == [persistent |-> key, ip |-> ip, action |-> action,
                    duration |-> DefaultDuration, blocked |-> FALSE]
           p == [spec |-> spec, status |-> NoStatus,
                 createdAt |-> now, updatedAt |-> now]
<1>1. spec \in PeerSpec
  BY RegistryAssumption DEF PeerSpec
<1>2. NoStatus \in PeerStatus
  BY DEF NoStatus, PeerStatus, NoSecret, NoKey
<1>3. now \in Nat
  BY DEF TypeOK
<1>4. p \in PeerObject
  BY <1>1, <1>2, <1>3 DEF PeerObject
<1>5. local[a] \in Database
  BY DEF TypeOK
<1>6. WithPeer(local[a], u, p) \in Database
  BY <1>3, <1>4, <1>5, WithPeerType
<1>7. NoReply \in Reply
  BY DEF NoReply, Reply
<1>8. Commit(a, WithPeer(local[a], u, p), NoReply)
  BY DEF PeerAdd
<1>9. QED
  BY <1>6, <1>7, <1>8, CommitType

LEMMA SetBlockedType ==
  ASSUME TypeOK, NEW a \in Actors, NEW u \in UIDs, NEW blocked \in BOOLEAN,
         SetBlocked(a, u, blocked)
  PROVE  TypeOK'
<1> DEFINE p == [local[a].peers[u] EXCEPT !.spec.blocked = blocked]
<1>1. local[a] \in Database /\ now \in Nat
  BY DEF TypeOK
<1>2. local[a].peers[u] \in PeerObject /\ local[a].peers[u].spec \in PeerSpec
  BY <1>1, PeerType DEF SetBlocked
<1>3. [local[a].peers[u].spec EXCEPT !.blocked = blocked] \in PeerSpec
  BY <1>2 DEF PeerSpec
<1>4. p \in PeerObject
  BY <1>2, <1>3 DEF PeerObject
<1>5. WithPeer(local[a], u, p) \in Database
  BY <1>1, <1>4, WithPeerType
<1>6. NoReply \in Reply
  BY DEF NoReply, Reply
<1>7. Commit(a, WithPeer(local[a], u, p), NoReply)
  BY DEF SetBlocked
<1>8. drawn' \in 0 .. MaxDrawn
  BY DEF SetBlocked, TypeOK
<1>9. QED
  BY <1>5, <1>6, <1>7, <1>8, CommitType

LEMMA RequestType ==
  ASSUME TypeOK, NEW a \in Actors, Request(a)
  PROVE  TypeOK'
<1>1. PICK u \in UIDs :
        \/ RenewPeer(a, u)
        \/ \E link \in links, vpn \in Servers : DownloadConfig(a, u, link, vpn)
  BY DEF Request
<1>2. local[a] \in Database /\ now \in Nat /\ drawn + 1 \in Nat
  BY RegistryAssumption DEF TypeOK
<1>3. CASE RenewPeer(a, u)
  <2> DEFINE p == [local[a].peers[u] EXCEPT
                     !.createdAt = now,
                     !.status = [secret |-> drawn + 1, pub |-> NoKey]]
             r == [NoReply EXCEPT !.links = {drawn + 1}]
  <2>1. local[a].peers[u] \in PeerObject
    BY <1>2, <1>3, PeerType DEF RenewPeer
  <2>2. [secret |-> drawn + 1, pub |-> NoKey] \in PeerStatus
    BY <1>2 DEF PeerStatus, NoKey
  <2>3. p \in PeerObject
    BY <1>2, <2>1, <2>2 DEF PeerObject
  <2>4. WithPeer(local[a], u, p) \in Database
    BY <1>2, <2>3, WithPeerType
  <2>5. r \in Reply
    BY <1>2 DEF Reply, NoReply
  <2>6. Commit(a, WithPeer(local[a], u, p), r)
    BY <1>3 DEF RenewPeer
  <2>7. drawn' \in 0 .. MaxDrawn
    BY <1>3, RegistryAssumption DEF RenewPeer, TypeOK
  <2>8. QED
    BY <2>4, <2>5, <2>6, <2>7, CommitType
<1>4. CASE \E link \in links, vpn \in Servers : DownloadConfig(a, u, link, vpn)
  <2>1. PICK link \in links, vpn \in Servers : DownloadConfig(a, u, link, vpn)
    BY <1>4
  <2> DEFINE p == [local[a].peers[u] EXCEPT
                     !.status = [secret |-> NoSecret, pub |-> drawn + 1]]
             config == [link |-> link, uid |-> u, key |-> drawn + 1]
             r == [NoReply EXCEPT !.configs = {config}]
  <2>2. local[a].peers[u] \in PeerObject
    BY <1>2, <2>1, PeerType DEF DownloadConfig
  <2>3. [secret |-> NoSecret, pub |-> drawn + 1] \in PeerStatus
    BY <1>2 DEF PeerStatus, NoSecret
  <2>4. p \in PeerObject
    BY <2>2, <2>3 DEF PeerObject
  <2>5. WithPeer(local[a], u, p) \in Database
    BY <1>2, <2>4, WithPeerType
  <2>6. config \in Config
    BY <1>2 DEF Config, TypeOK
  <2>7. r \in Reply
    BY <2>6 DEF Reply, NoReply
  <2>8. Commit(a, WithPeer(local[a], u, p), r)
    BY <2>1 DEF DownloadConfig
  <2>9. drawn' \in 0 .. MaxDrawn
    BY <2>1, RegistryAssumption DEF DownloadConfig, TypeOK
  <2>10. QED
    BY <2>5, <2>7, <2>8, <2>9, CommitType
<1>5. QED
  BY <1>1, <1>3, <1>4

(* A slot in the loop of "peer apply" has an entry to process.              *)
Applying == \A a \in Actors : pc[a] = "applying" => todo[a] # <<>>

TypeInv == TypeOK /\ Applying

LEMMA ApplyEntryType ==
  ASSUME TypeInv, NEW a \in Actors, ApplyEntry(a)
  PROVE  TypeOK'
<1> DEFINE e == Head(todo[a])
           created == [spec |-> e.spec, status |-> e.status,
                       createdAt |-> now, updatedAt |-> now]
           updated == [local[a].peers[e.uid] EXCEPT !.spec = e.spec]
<1>1. /\ local[a] \in Database /\ now \in Nat
      /\ todo[a] \in Seq(ManifestEntry) /\ todo[a] # <<>>
  BY DEF TypeInv, TypeOK, Applying, ApplyEntry
<1>2. e \in ManifestEntry /\ Tail(todo[a]) \in Seq(ManifestEntry)
  BY <1>1
<1>3. e.uid \in UIDs /\ e.spec \in PeerSpec /\ e.status \in PeerStatus
  BY <1>2 DEF ManifestEntry
<1>4. created \in PeerObject
  BY <1>1, <1>3 DEF PeerObject
<1>5. WithPeer(local[a], e.uid, created) \in Database
  BY <1>1, <1>3, <1>4, WithPeerType
<1>6. ASSUME local[a].peers[e.uid] # NoPeer
      PROVE  WithPeer(local[a], e.uid, updated) \in Database
  <2>1. local[a].peers[e.uid] \in PeerObject
    BY <1>1, <1>3, <1>6, PeerType
  <2>2. updated \in PeerObject
    BY <1>3, <2>1 DEF PeerObject
  <2>3. QED
    BY <1>1, <1>3, <2>2, WithPeerType
<1>7. \/ local' = [local EXCEPT ![a] = WithPeer(local[a], e.uid, created)]
      \/ /\ local[a].peers[e.uid] # NoPeer
         /\ local' = [local EXCEPT ![a] = WithPeer(local[a], e.uid, updated)]
      \/ UNCHANGED local
  BY DEF ApplyEntry, ApplyUpdate
<1> HIDE DEF created, updated
<1>8. local' \in [Actors -> Database]
  BY <1>5, <1>6, <1>7 DEF TypeInv, TypeOK
<1>9. QED
  BY <1>2, <1>8 DEF ApplyEntry, TypeInv, TypeOK

LEMMA FrameType ==
  ASSUME TypeInv, NEW a \in Actors, Frame(a)
  PROVE  TypeOK'
<1>1. CASE Fetch(a) \/ FetchTorn(a)
  <2>1. PICK db \in {remote} \cup Torn(remote) : local' = [local EXCEPT ![a] = db]
    BY <1>1, FetchedCopy
  <2>2. db \in Database
    BY TornCopy DEF TypeInv, TypeOK
  <2>3. QED
    BY <1>1, <2>1, <2>2, FetchedCopy DEF TypeInv, TypeOK
<1>3. CASE ApplyEntry(a)
  BY <1>3, ApplyEntryType
<1>4. CASE Upload(a)
  BY <1>4, ToIdleType DEF Upload, TypeInv, TypeOK, Reply
<1>5. CASE UploadUnacknowledged(a)
  BY <1>5, ToIdleType DEF UploadUnacknowledged, TypeInv, TypeOK
<1>6. CASE Abandon(a)
  BY <1>6, ToIdleType DEF Abandon, TypeInv, TypeOK
<1>7. QED
  BY <1>1, <1>3, <1>4, <1>5, <1>6 DEF Frame

LEMMA PeerCommandType ==
  ASSUME TypeOK, NEW a \in Actors, PeerCommand(a)
  PROVE  TypeOK'
<1>1. PICK u \in UIDs :
        \/ \E override \in BOOLEAN, ip \in Addresses, action \in ExpireActions :
             \/ PeerAddGivenKey(a, u, override, ip, action)
             \/ PeerAddClientConfig(a, u, override, ip, action)
        \/ PeerBlock(a, u)
        \/ PeerUnblock(a, u)
  BY DEF PeerCommand
<1>2. ASSUME NEW override \in BOOLEAN, NEW ip \in Addresses, NEW action \in ExpireActions,
             PeerAddGivenKey(a, u, override, ip, action)
      PROVE  TypeOK'
  <2>1. PICK key \in AdminKeys \cup {NoKey} : PeerAdd(a, u, override, ip, action, key)
    BY <1>2 DEF PeerAddGivenKey
  <2>2. key \in Nat
    BY RegistryAssumption DEF NoKey
  <2>3. drawn' \in 0 .. MaxDrawn
    BY <1>2 DEF PeerAddGivenKey, TypeOK
  <2>4. QED
    BY <2>1, <2>2, <2>3, PeerAddType
<1>3. ASSUME NEW override \in BOOLEAN, NEW ip \in Addresses, NEW action \in ExpireActions,
             PeerAddClientConfig(a, u, override, ip, action)
      PROVE  TypeOK'
  <2>1. /\ PeerAdd(a, u, override, ip, action, drawn + 1)
        /\ drawn + 1 \in Nat /\ drawn' \in 0 .. MaxDrawn
    BY <1>3, RegistryAssumption DEF PeerAddClientConfig, TypeOK
  <2>2. QED
    BY <2>1, PeerAddType
<1>4. QED
  BY <1>1, <1>2, <1>3, SetBlockedType DEF PeerBlock, PeerUnblock

LEMMA PeerApplyType ==
  ASSUME TypeOK, NEW a \in Actors, NEW manifest \in Manifests, PeerApply(a, manifest)
  PROVE  TypeOK'
<1>1. manifest \in Seq(ManifestEntry)
  BY RegistryAssumption
<1>2. QED
  BY <1>1 DEF PeerApply, TypeOK

LEMMA NextApplying ==
  ASSUME TypeInv, Next
  PROVE  Applying'
<1> SUFFICES ASSUME NEW b \in Actors, pc'[b] = "applying"
             PROVE  todo'[b] # <<>>
  BY DEF Applying
<1> USE DEF TypeInv, TypeOK, Applying
<1>1. ASSUME NEW a \in Actors, NEW db, NEW r, Commit(a, db, r)
      PROVE  todo'[b] # <<>>
  BY <1>1 DEF Commit
<1>2. ASSUME NEW a \in Actors, ToIdle(a)
      PROVE  todo'[b] # <<>>
  BY <1>2 DEF ToIdle
<1>3. ASSUME NEW a \in Actors, Frame(a)
      PROVE  todo'[b] # <<>>
  <2>1. CASE Fetch(a) \/ FetchTorn(a)
    BY <2>1, FetchedCopy
  <2>2. CASE ApplyEntry(a)
    <3>1. /\ pc' = [pc EXCEPT ![a] = IF Len(todo[a]) = 1 THEN "syncing" ELSE "applying"]
          /\ todo' = [todo EXCEPT ![a] = Tail(@)]
          /\ pc[a] = "applying"
      BY <2>2 DEF ApplyEntry
    <3>2. CASE b # a
      BY <3>1, <3>2
    <3>3. CASE b = a
      <4>1. todo[a] \in Seq(ManifestEntry) /\ todo[a] # <<>> /\ Len(todo[a]) # 1
        BY <3>1, <3>3
      <4>2. Len(Tail(todo[a])) # 0
        BY <4>1
      <4>3. todo'[b] = Tail(todo[a])
        BY <3>1, <3>3
      <4>4. Len(<<>>) = 0
        OBVIOUS
      <4>5. QED
        BY <4>2, <4>3, <4>4
    <3>4. QED
      BY <3>2, <3>3
  <2>3. CASE Upload(a) \/ UploadUnacknowledged(a) \/ Abandon(a)
    BY <1>2, <2>3 DEF Upload, UploadUnacknowledged, Abandon
  <2>4. QED
    BY <1>3, <2>1, <2>2, <2>3 DEF Frame
<1>4. ASSUME NEW a \in Actors, ServerCommand(a)
      PROVE  todo'[b] # <<>>
  BY <1>1, <1>4 DEF ServerCommand, InitServer, DeleteServer
<1>5. ASSUME NEW a \in Actors, PeerCommand(a)
      PROVE  todo'[b] # <<>>
  BY <1>1, <1>5 DEF PeerCommand, PeerAddGivenKey, PeerAddClientConfig, PeerAdd,
                    PeerBlock, PeerUnblock, SetBlocked
<1>6. ASSUME NEW a \in Actors, NEW manifest \in Manifests, PeerApply(a, manifest)
      PROVE  todo'[b] # <<>>
  BY <1>6 DEF PeerApply
<1>7. ASSUME NEW a \in Actors, Request(a)
      PROVE  todo'[b] # <<>>
  BY <1>1, <1>7 DEF Request, RenewPeer, DownloadConfig
<1>8. CASE Tick
  BY <1>8 DEF Tick
<1>9. QED
  BY <1>3, <1>4, <1>5, <1>6, <1>7, <1>8 DEF Next, AdminCommand, Actors

LEMMA NextType ==
  ASSUME TypeInv, [Next]_vars
  PROVE  TypeInv'
<1>1. CASE Tick
  BY <1>1, NextApplying, RegistryAssumption DEF Tick, Next, TypeInv, TypeOK
<1>2. ASSUME NEW a \in Actors, Frame(a)
      PROVE  TypeOK'
  BY <1>2, FrameType
<1>3. ASSUME NEW a \in Admins, AdminCommand(a)
      PROVE  TypeOK'
  BY <1>3, ServerCommandType, PeerCommandType, PeerApplyType
  DEF AdminCommand, Actors, TypeInv
<1>4. ASSUME NEW a \in Handlers, Request(a)
      PROVE  TypeOK'
  BY <1>4, RequestType DEF Actors, TypeInv
<1>5. CASE Next
  BY <1>1, <1>2, <1>3, <1>4, <1>5, NextApplying DEF Next, TypeInv
<1>6. CASE UNCHANGED vars
  BY <1>6 DEF vars, TypeInv, TypeOK, Applying
<1>7. QED
  BY <1>5, <1>6

(* Every reachable state is well typed: in particular no command writes an  *)
(* object of the wrong shape, and "peer apply" never runs past its manifest.*)
THEOREM TypeCorrect == Spec => []TypeOK
<1>1. Init => TypeInv
  BY InitType DEF TypeInv, Applying, Init
<1>2. TypeInv /\ [Next]_vars => TypeInv'
  BY NextType
<1>3. TypeInv => TypeOK
  BY DEF TypeInv
<1>4. QED
  BY <1>1, <1>2, <1>3, PTL DEF Spec

-----------------------------------------------------------------------------
(* What a step can do to the databases, the object in the bucket and the    *)
(* copies: all the safety theorems below rest on this.                      *)

(* The address of a stored peer was free or its own, and its status is its  *)
(* own or one that has a link or a key.                                     *)
ProperEdit(db, u, p) ==
  /\ \/ p.spec.ip \in Available(db, u[1])
     \/ db.peers[u] # NoPeer /\ p.spec.ip = db.peers[u].spec.ip
  /\ \/ ExclusiveStatus(p.status)
     \/ db.peers[u] # NoPeer /\ p.status = db.peers[u].status

Edit(db, new) ==
  \/ new.peers = db.peers
  \/ \E u \in UIDs, p \in PeerObject :
       /\ new.peers = [db.peers EXCEPT ![u] = p]
       /\ ProperEdit(db, u, p)

(* Entries of manifests that are being applied have a proper status.        *)
TodoProper ==
  \A a \in Actors : \A j \in 1 .. Len(todo[a]) : ExclusiveStatus(todo[a][j].status)

LocalStep(a) ==
  local'[a] \in {local[a], EmptyDB, remote} \cup Torn(remote) \/ Edit(local[a], local'[a])

LEMMA WithPeerEdit ==
  ASSUME now \in Nat,
         NEW db \in Database, NEW u \in UIDs, NEW p \in PeerObject, ProperEdit(db, u, p)
  PROVE  Edit(db, WithPeer(db, u, p))
<1> DEFINE q == [p EXCEPT !.updatedAt = now]
<1>1. /\ q \in PeerObject
      /\ q.spec = p.spec /\ q.status = p.status
  BY DEF PeerObject
<1>2. WithPeer(db, u, p).peers = [db.peers EXCEPT ![u] = q]
  BY DEF WithPeer, Database
<1>3. ProperEdit(db, u, q)
  BY <1>1 DEF ProperEdit
<1> HIDE DEF q
<1>4. QED
  BY <1>1, <1>2, <1>3 DEF Edit

(* A command that ends with a proper edit of its copy is a local step.      *)
LEMMA CommitStep ==
  ASSUME TypeOK, NEW a \in Actors, NEW db \in Database, NEW r,
         Commit(a, db, r), Edit(local[a], db), NEW b \in Actors
  PROVE  remote' = remote /\ LocalStep(b)
BY DEF Commit, LocalStep, TypeOK

LEMMA ServerCommandStep ==
  ASSUME TypeOK, NEW a \in Actors, ServerCommand(a), NEW b \in Actors
  PROVE  remote' = remote /\ LocalStep(b)
<1>1. PICK s \in Servers, v \in Networks \cup {NoServer} :
        Commit(a, [local[a] EXCEPT !.servers = [@ EXCEPT ![s] = v]], NoReply)
  BY DEF ServerCommand, InitServer, DeleteServer
<1> DEFINE db == [local[a] EXCEPT !.servers = [@ EXCEPT ![s] = v]]
<1>2. local[a] \in Database
  BY DEF TypeOK
<1>3. db.peers = local[a].peers
  BY <1>2 DEF Database
<1>4. remote' = remote /\ local' = [local EXCEPT ![a] = db]
  BY <1>1 DEF Commit
<1> HIDE DEF db
<1>5. QED
  BY <1>3, <1>4 DEF LocalStep, Edit, TypeOK

LEMMA PeerAddStep ==
  ASSUME TypeOK, NEW a \in Actors, NEW u \in UIDs, NEW override,
         NEW ip \in Addresses, NEW action \in ExpireActions, NEW key \in Nat,
         PeerAdd(a, u, override, ip, action, key), NEW b \in Actors
  PROVE  remote' = remote /\ LocalStep(b)
<1> DEFINE spec == [persistent |-> key, ip |-> ip, action |-> action,
                    duration |-> DefaultDuration, blocked |-> FALSE]
           p == [spec |-> spec, status |-> NoStatus,
                 createdAt |-> now, updatedAt |-> now]
<1>1. spec \in PeerSpec
  BY RegistryAssumption DEF PeerSpec
<1>2. NoStatus \in PeerStatus /\ ExclusiveStatus(NoStatus)
  BY DEF NoStatus, PeerStatus, NoSecret, NoKey, ExclusiveStatus
<1>3. now \in Nat /\ local[a] \in Database
  BY DEF TypeOK
<1>4. p \in PeerObject
  BY <1>1, <1>2, <1>3 DEF PeerObject
<1>5. ProperEdit(local[a], u, p)
  BY <1>2 DEF PeerAdd, ProperEdit
<1>6. Commit(a, WithPeer(local[a], u, p), NoReply)
  BY DEF PeerAdd
<1> HIDE DEF p
<1>7. QED
  BY <1>3, <1>4, <1>5, <1>6, WithPeerEdit, WithPeerType, CommitStep

LEMMA SetBlockedStep ==
  ASSUME TypeOK, NEW a \in Actors, NEW u \in UIDs, NEW blocked \in BOOLEAN,
         SetBlocked(a, u, blocked), NEW b \in Actors
  PROVE  remote' = remote /\ LocalStep(b)
<1> DEFINE old == local[a].peers[u]
           p == [old EXCEPT !.spec.blocked = blocked]
<1>1. local[a] \in Database /\ now \in Nat
  BY DEF TypeOK
<1>2. old \in PeerObject /\ old.spec \in PeerSpec
  BY <1>1, PeerType DEF SetBlocked
<1>3. /\ [old.spec EXCEPT !.blocked = blocked] \in PeerSpec
      /\ [old.spec EXCEPT !.blocked = blocked].ip = old.spec.ip
  BY <1>2 DEF PeerSpec
<1>4. p \in PeerObject /\ p.spec.ip = old.spec.ip /\ p.status = old.status
  BY <1>2, <1>3 DEF PeerObject
<1>5. ProperEdit(local[a], u, p)
  BY <1>4 DEF ProperEdit, SetBlocked
<1>6. Commit(a, WithPeer(local[a], u, p), NoReply)
  BY DEF SetBlocked
<1> HIDE DEF p
<1>7. QED
  BY <1>1, <1>4, <1>5, <1>6, WithPeerEdit, WithPeerType, CommitStep

LEMMA PeerCommandStep ==
  ASSUME TypeOK, NEW a \in Actors, PeerCommand(a), NEW b \in Actors
  PROVE  remote' = remote /\ LocalStep(b)
<1>1. PICK u \in UIDs :
        \/ \E override \in BOOLEAN, ip \in Addresses, action \in ExpireActions :
             \/ PeerAddGivenKey(a, u, override, ip, action)
             \/ PeerAddClientConfig(a, u, override, ip, action)
        \/ PeerBlock(a, u)
        \/ PeerUnblock(a, u)
  BY DEF PeerCommand
<1>2. AdminKeys \cup {NoKey} \subseteq Nat /\ drawn + 1 \in Nat
  BY RegistryAssumption DEF NoKey, TypeOK
<1>3. ASSUME NEW override \in BOOLEAN, NEW ip \in Addresses, NEW action \in ExpireActions,
             PeerAddGivenKey(a, u, override, ip, action)
      PROVE  remote' = remote /\ LocalStep(b)
  BY <1>2, <1>3, PeerAddStep DEF PeerAddGivenKey
<1>4. ASSUME NEW override \in BOOLEAN, NEW ip \in Addresses, NEW action \in ExpireActions,
             PeerAddClientConfig(a, u, override, ip, action)
      PROVE  remote' = remote /\ LocalStep(b)
  BY <1>2, <1>4, PeerAddStep DEF PeerAddClientConfig
<1>5. QED
  BY <1>1, <1>3, <1>4, SetBlockedStep DEF PeerBlock, PeerUnblock

LEMMA RequestStep ==
  ASSUME TypeOK, NEW a \in Actors, Request(a), NEW b \in Actors
  PROVE  remote' = remote /\ LocalStep(b)
<1>1. PICK u \in UIDs :
        \/ RenewPeer(a, u)
        \/ \E link \in links, vpn \in Servers : DownloadConfig(a, u, link, vpn)
  BY DEF Request
<1>2. local[a] \in Database /\ now \in Nat /\ drawn + 1 \in Nat
  BY RegistryAssumption DEF TypeOK
<1> DEFINE old == local[a].peers[u]
<1>3. old # NoPeer
  BY <1>1 DEF RenewPeer, DownloadConfig
<1>4. old \in PeerObject
  BY <1>2, <1>3, PeerType
<1>5. ASSUME NEW p \in PeerObject, NEW r, p.spec = old.spec, ExclusiveStatus(p.status),
             Commit(a, WithPeer(local[a], u, p), r)
      PROVE  remote' = remote /\ LocalStep(b)
  <2>1. ProperEdit(local[a], u, p)
    BY <1>3, <1>5 DEF ProperEdit
  <2>2. QED
    BY <1>2, <1>5, <2>1, WithPeerEdit, WithPeerType, CommitStep
<1>6. CASE RenewPeer(a, u)
  <2> DEFINE status == [secret |-> drawn + 1, pub |-> NoKey]
             p == [old EXCEPT !.createdAt = now, !.status = status]
  <2>1. status \in PeerStatus /\ ExclusiveStatus(status)
    BY <1>2 DEF PeerStatus, NoKey, ExclusiveStatus
  <2>2. p \in PeerObject /\ p.spec = old.spec /\ p.status = status
    BY <1>2, <1>4, <2>1 DEF PeerObject
  <2>3. \E r : Commit(a, WithPeer(local[a], u, p), r)
    BY <1>6 DEF RenewPeer
  <2> HIDE DEF p
  <2>4. QED
    BY <1>5, <2>1, <2>2, <2>3
<1>7. CASE \E link \in links, vpn \in Servers : DownloadConfig(a, u, link, vpn)
  <2> DEFINE status == [secret |-> NoSecret, pub |-> drawn + 1]
             p == [old EXCEPT !.status = status]
  <2>1. status \in PeerStatus /\ ExclusiveStatus(status)
    BY <1>2 DEF PeerStatus, NoSecret, ExclusiveStatus
  <2>2. p \in PeerObject /\ p.spec = old.spec /\ p.status = status
    BY <1>4, <2>1 DEF PeerObject
  <2>3. \E r : Commit(a, WithPeer(local[a], u, p), r)
    BY <1>7 DEF DownloadConfig
  <2> HIDE DEF p
  <2>4. QED
    BY <1>5, <2>1, <2>2, <2>3
<1>8. QED
  BY <1>1, <1>6, <1>7

LEMMA ApplyEntryStep ==
  ASSUME TypeInv, TodoProper, NEW a \in Actors, ApplyEntry(a), NEW b \in Actors
  PROVE  remote' = remote /\ LocalStep(b)
<1> DEFINE e == Head(todo[a])
           old == local[a].peers[e.uid]
           created == [spec |-> e.spec, status |-> e.status,
                       createdAt |-> now, updatedAt |-> now]
           updated == [old EXCEPT !.spec = e.spec]
<1>1. /\ local[a] \in Database /\ now \in Nat
      /\ todo[a] \in Seq(ManifestEntry) /\ todo[a] # <<>>
  BY DEF TypeInv, TypeOK, Applying, ApplyEntry
<1>2. e \in ManifestEntry /\ e = todo[a][1] /\ 1 \in 1 .. Len(todo[a])
  BY <1>1
<1>3. /\ e.uid \in UIDs /\ e.spec \in PeerSpec /\ e.status \in PeerStatus
      /\ ExclusiveStatus(e.status)
  BY <1>2 DEF ManifestEntry, TodoProper
<1>4. remote' = remote
  BY DEF ApplyEntry
<1>5. \/ /\ ApplyCreate(local[a], e.uid, e.spec)
         /\ local' = [local EXCEPT ![a] = WithPeer(local[a], e.uid, created)]
      \/ /\ ApplyUpdate(local[a], e.uid, e.spec)
         /\ local' = [local EXCEPT ![a] = WithPeer(local[a], e.uid, updated)]
      \/ UNCHANGED local
  BY DEF ApplyEntry
<1>6. CASE /\ ApplyCreate(local[a], e.uid, e.spec)
           /\ local' = [local EXCEPT ![a] = WithPeer(local[a], e.uid, created)]
  <2>1. created \in PeerObject
    BY <1>1, <1>3 DEF PeerObject
  <2>2. ProperEdit(local[a], e.uid, created)
    BY <1>3, <1>6 DEF ProperEdit, ApplyCreate
  <2> HIDE DEF created
  <2>3. Edit(local[a], WithPeer(local[a], e.uid, created))
    BY <1>1, <1>3, <2>1, <2>2, WithPeerEdit
  <2>4. QED
    BY <1>4, <1>6, <2>3 DEF LocalStep, TypeInv, TypeOK
<1>7. CASE /\ ApplyUpdate(local[a], e.uid, e.spec)
           /\ local' = [local EXCEPT ![a] = WithPeer(local[a], e.uid, updated)]
  <2>1. old # NoPeer /\ old \in PeerObject
    BY <1>1, <1>3, <1>7, PeerType DEF ApplyUpdate
  <2>2. updated \in PeerObject /\ updated.spec = e.spec /\ updated.status = old.status
    BY <1>3, <2>1 DEF PeerObject
  <2>3. ProperEdit(local[a], e.uid, updated)
    BY <1>7, <2>1, <2>2 DEF ProperEdit, ApplyUpdate
  <2> HIDE DEF updated
  <2>4. Edit(local[a], WithPeer(local[a], e.uid, updated))
    BY <1>1, <1>3, <2>2, <2>3, WithPeerEdit
  <2>5. QED
    BY <1>4, <1>7, <2>4 DEF LocalStep, TypeInv, TypeOK
<1>8. QED
  BY <1>4, <1>5, <1>6, <1>7 DEF LocalStep

(* A step leaves the object or replaces it by a copy, and edits a copy      *)
(* properly, fetches it, whole or torn, empties it or leaves it.            *)
LEMMA NextStep ==
  ASSUME TypeInv, TodoProper, Next
  PROVE  /\ remote' = remote \/ \E a \in Actors : remote' = local[a]
         /\ \A b \in Actors : LocalStep(b)
<1> USE DEF TypeInv
<1>1. CASE Tick
  BY <1>1 DEF Tick, LocalStep
<1>2. ASSUME NEW a \in Actors, Frame(a)
      PROVE  /\ remote' = remote \/ remote' = local[a]
             /\ \A b \in Actors : LocalStep(b)
  <2>1. ASSUME ToIdle(a)
        PROVE  \A b \in Actors : LocalStep(b)
    BY <2>1 DEF ToIdle, LocalStep, TypeOK
  <2>2. CASE Fetch(a) \/ FetchTorn(a)
    BY <2>2, FetchedCopy DEF LocalStep, TypeOK
  <2>3. CASE ApplyEntry(a)
    BY <2>3, ApplyEntryStep
  <2>4. CASE Upload(a) \/ UploadUnacknowledged(a) \/ Abandon(a)
    BY <2>1, <2>4 DEF Upload, UploadUnacknowledged, Abandon
  <2>5. QED
    BY <1>2, <2>2, <2>3, <2>4 DEF Frame
<1>3. ASSUME NEW a \in Admins, AdminCommand(a)
      PROVE  remote' = remote /\ \A b \in Actors : LocalStep(b)
  <2>1. CASE \E manifest \in Manifests : PeerApply(a, manifest)
    BY <2>1 DEF PeerApply, LocalStep
  <2>2. QED
    BY <1>3, <2>1, ServerCommandStep, PeerCommandStep DEF AdminCommand, Actors
<1>4. ASSUME NEW a \in Handlers, Request(a)
      PROVE  remote' = remote /\ \A b \in Actors : LocalStep(b)
  BY <1>4, RequestStep DEF Actors
<1>5. QED
  BY <1>1, <1>2, <1>3, <1>4 DEF Next

(* What is left to do is what was left before, less its first entry, or     *)
(* comes from a manifest.                                                   *)
LEMMA TodoFrom ==
  ASSUME TypeInv, [Next]_vars, NEW b \in Actors
  PROVE  \/ todo'[b] \in Manifests \cup {todo[b], <<>>}
         \/ todo[b] # <<>> /\ todo'[b] = Tail(todo[b])
<1> USE DEF TypeInv, TypeOK
<1>1. ASSUME NEW a \in Actors, Frame(a)
      PROVE  \/ todo'[b] \in {todo[b], <<>>}
             \/ todo[b] # <<>> /\ todo'[b] = Tail(todo[b])
  <2>1. CASE Fetch(a) \/ FetchTorn(a)
    BY <2>1, FetchedCopy
  <2>2. CASE ApplyEntry(a)
    BY <2>2 DEF ApplyEntry, Applying
  <2>3. CASE Upload(a) \/ UploadUnacknowledged(a) \/ Abandon(a)
    BY <2>3 DEF Upload, UploadUnacknowledged, Abandon, ToIdle
  <2>4. QED
    BY <1>1, <2>1, <2>2, <2>3 DEF Frame
<1>2. ASSUME NEW a \in Actors, ServerCommand(a) \/ PeerCommand(a) \/ Request(a)
      PROVE  todo' = todo
  BY <1>2 DEF ServerCommand, InitServer, DeleteServer, PeerCommand, PeerAddGivenKey,
              PeerAddClientConfig, PeerAdd, PeerBlock, PeerUnblock, SetBlocked,
              Request, RenewPeer, DownloadConfig, Commit
<1>3. ASSUME NEW a \in Actors, NEW manifest \in Manifests, PeerApply(a, manifest)
      PROVE  todo'[b] = todo[b] \/ todo'[b] \in Manifests
  BY <1>3 DEF PeerApply
<1>4. CASE Tick \/ UNCHANGED vars
  BY <1>4 DEF Tick, vars
<1>5. QED
  BY <1>1, <1>2, <1>3, <1>4 DEF Next, AdminCommand, Actors

LEMMA EntryFrom ==
  ASSUME TypeInv, [Next]_vars, NEW b \in Actors, NEW j \in 1 .. Len(todo'[b])
  PROVE  \/ \E manifest \in Manifests : \E k \in 1 .. Len(manifest) : todo'[b][j] = manifest[k]
         \/ \E k \in 1 .. Len(todo[b]) : todo'[b][j] = todo[b][k]
<1>1. CASE todo'[b] \in Manifests \cup {todo[b]}
  BY <1>1
<1>2. CASE todo'[b] = <<>>
  BY <1>2
<1>3. CASE todo[b] # <<>> /\ todo'[b] = Tail(todo[b])
  <2>1. todo[b] \in Seq(ManifestEntry)
    BY DEF TypeInv, TypeOK
  <2>2. j + 1 \in 1 .. Len(todo[b]) /\ Tail(todo[b])[j] = todo[b][j + 1]
    BY <1>3, <2>1
  <2>3. QED
    BY <1>3, <2>2
<1>4. QED
  BY <1>1, <1>2, <1>3, TodoFrom

LEMMA TodoStep ==
  ASSUME TypeInv, TodoProper, [Next]_vars
  PROVE  TodoProper'
<1> SUFFICES ASSUME NEW b \in Actors, NEW j \in 1 .. Len(todo'[b])
             PROVE  ExclusiveStatus(todo'[b][j].status)
  BY DEF TodoProper
<1>1. CASE \E manifest \in Manifests : \E k \in 1 .. Len(manifest) : todo'[b][j] = manifest[k]
  BY <1>1, InputAssumption
<1>2. CASE \E k \in 1 .. Len(todo[b]) : todo'[b][j] = todo[b][k]
  BY <1>2 DEF TodoProper
<1>3. QED
  BY <1>1, <1>2, EntryFrom

BaseInv == TypeInv /\ TodoProper

LEMMA BaseInvariant ==
  /\ Init => BaseInv
  /\ BaseInv /\ [Next]_vars => BaseInv'
<1>1. Init => BaseInv
  BY InitType DEF BaseInv, TypeInv, TodoProper, Applying, Init
<1>2. BaseInv /\ [Next]_vars => BaseInv'
  BY NextType, TodoStep DEF BaseInv
<1>3. QED
  BY <1>1, <1>2

LEMMA StutterStep ==
  ASSUME UNCHANGED vars
  PROVE  /\ remote' = remote
         /\ \A b \in Actors : LocalStep(b)
BY DEF vars, LocalStep

-----------------------------------------------------------------------------
(* Addresses.  Peers of a server that nothing shadows are all listed, so a  *)
(* new address is checked against every peer of the copy; and as uploads    *)
(* only replace the object by a copy, it is enough that every copy is sound.*)

NothingShadowed == \A s \in Servers : Shadows[s] = {}

LEMMA EditUnique ==
  ASSUME NothingShadowed,
         NEW db \in Database, NEW new \in Database,
         AddressesUnique(db), Edit(db, new)
  PROVE  AddressesUnique(new)
<1>1. CASE new.peers = db.peers
  BY <1>1 DEF AddressesUnique, PeersIn
<1>2. CASE \E u \in UIDs, p \in PeerObject :
             new.peers = [db.peers EXCEPT ![u] = p] /\ ProperEdit(db, u, p)
  <2>1. PICK u \in UIDs, p \in PeerObject :
          new.peers = [db.peers EXCEPT ![u] = p] /\ ProperEdit(db, u, p)
    BY <1>2
  <2>2. db.peers \in [UIDs -> PeerObject \cup {NoPeer}]
    BY DEF Database
  <2>3. ASSUME NEW v \in PeersIn(db), v # u, v[1] = u[1]
        PROVE  db.peers[v].spec.ip # p.spec.ip
    <3>1. v \in ListByServer(db, u[1])
      <4>1. u[1] \in Servers
        BY DEF UIDs
      <4>2. Shadows[u[1]] = {}
        BY <4>1 DEF NothingShadowed
      <4>3. QED
        BY <2>3, <4>2 DEF ListByServer
    <3>2. CASE p.spec.ip \in Available(db, u[1])
      BY <3>1, <3>2 DEF Available
    <3>3. CASE db.peers[u] # NoPeer /\ p.spec.ip = db.peers[u].spec.ip
      BY <2>3, <3>3 DEF AddressesUnique, PeersIn
    <3>4. QED
      BY <2>1, <3>2, <3>3 DEF ProperEdit
  <2>4. SUFFICES ASSUME NEW v \in PeersIn(new), NEW w \in PeersIn(new),
                        v # w, v[1] = w[1]
                 PROVE  new.peers[v].spec.ip # new.peers[w].spec.ip
    BY DEF AddressesUnique
  <2>5. \A x \in PeersIn(new) : x # u => x \in PeersIn(db) /\ new.peers[x] = db.peers[x]
    BY <2>1, <2>2 DEF PeersIn
  <2>6. new.peers[u] = p
    BY <2>1, <2>2
  <2>7. CASE v = u
    BY <2>3, <2>4, <2>5, <2>6, <2>7
  <2>8. CASE w = u
    BY <2>3, <2>4, <2>5, <2>6, <2>8
  <2>9. CASE v # u /\ w # u
    BY <2>4, <2>5, <2>9 DEF AddressesUnique
  <2>10. QED
    BY <2>7, <2>8, <2>9
<1>3. QED
  BY <1>1, <1>2 DEF Edit

AllUnique == AddressesUnique(remote) /\ \A a \in Actors : AddressesUnique(local[a])

LEMMA NextUnique ==
  ASSUME NothingShadowed, BaseInv, AllUnique, [Next]_vars
  PROVE  AllUnique'
<1>1. /\ remote' = remote \/ \E a \in Actors : remote' = local[a]
      /\ \A b \in Actors : LocalStep(b)
  BY NextStep, StutterStep DEF BaseInv
<1>2. \A b \in Actors : local[b] \in Database /\ local'[b] \in Database
  BY BaseInvariant DEF BaseInv, TypeInv, TypeOK
<1>3. /\ AddressesUnique(EmptyDB)
      /\ \A d \in Torn(remote) : AddressesUnique(d)
  <2>1. AddressesUnique(EmptyDB)
    BY DEF AddressesUnique, PeersIn, EmptyDB
  <2>2. remote \in Database
    BY DEF BaseInv, TypeInv, TypeOK
  <2>3. ASSUME NEW d \in Torn(remote)
        PROVE  AddressesUnique(d)
    BY <2>2, TornCopy DEF AllUnique, AddressesUnique
  <2>4. QED
    BY <2>1, <2>3
<1>4. AddressesUnique(remote)'
  BY <1>1 DEF AllUnique, AddressesUnique, PeersIn
<1>5. ASSUME NEW b \in Actors
      PROVE  AddressesUnique(local'[b])
  <2>1. CASE local'[b] \in {local[b], EmptyDB, remote} \cup Torn(remote)
    BY <1>3, <2>1 DEF AllUnique
  <2>2. CASE Edit(local[b], local'[b])
    BY <1>2, <2>2, EditUnique DEF AllUnique
  <2>3. QED
    BY <1>1, <2>1, <2>2 DEF LocalStep
<1>6. QED
  BY <1>4, <1>5 DEF AllUnique, AddressesUnique, PeersIn

(* If no server's name is extended by another's, no two peers of a server   *)
(* ever hold the same address, however many commands and requests overlap,  *)
(* fail half-way or overwrite each other.                                   *)
THEOREM AddressesNeverShared == NothingShadowed => (Spec => []UniqueAddresses)
<1> SUFFICES ASSUME NothingShadowed
             PROVE  Spec => []UniqueAddresses
  OBVIOUS
<1> DEFINE IInv == BaseInv /\ AllUnique
<1>1. Init => IInv
  <2> SUFFICES ASSUME Init PROVE AllUnique
    BY BaseInvariant
  <2>1. AddressesUnique(remote)
    BY InputAssumption DEF Init
  <2>2. AddressesUnique(EmptyDB)
    BY DEF AddressesUnique, PeersIn, EmptyDB
  <2>3. \A a \in Actors : local[a] = EmptyDB
    BY DEF Init
  <2>4. QED
    BY <2>1, <2>2, <2>3 DEF AllUnique
<1>2. IInv /\ [Next]_vars => IInv'
  BY BaseInvariant, NextUnique
<1>3. IInv => UniqueAddresses
  BY DEF AllUnique, UniqueAddresses
<1> HIDE DEF IInv
<1>4. QED
  BY <1>1, <1>2, <1>3, PTL DEF Spec

-----------------------------------------------------------------------------
(* Links and keys.                                                          *)

LEMMA EditExclusive ==
  ASSUME NEW db \in Database, NEW new \in Database,
         LinksExcludeKeys(db), Edit(db, new)
  PROVE  LinksExcludeKeys(new)
<1>1. CASE new.peers = db.peers
  BY <1>1 DEF LinksExcludeKeys, PeersIn
<1>2. CASE \E u \in UIDs, p \in PeerObject :
             new.peers = [db.peers EXCEPT ![u] = p] /\ ProperEdit(db, u, p)
  <2>1. PICK u \in UIDs, p \in PeerObject :
          new.peers = [db.peers EXCEPT ![u] = p] /\ ProperEdit(db, u, p)
    BY <1>2
  <2>2. db.peers \in [UIDs -> PeerObject \cup {NoPeer}]
    BY DEF Database
  <2>3. ExclusiveStatus(p.status)
    BY <2>1 DEF ProperEdit, LinksExcludeKeys, PeersIn
  <2>4. ASSUME NEW v \in PeersIn(new)
        PROVE  ExclusiveStatus(new.peers[v].status)
    BY <2>1, <2>2, <2>3 DEF LinksExcludeKeys, PeersIn
  <2>5. QED
    BY <2>4 DEF LinksExcludeKeys
<1>3. QED
  BY <1>1, <1>2 DEF Edit

AllExclusive == LinksExcludeKeys(remote) /\ \A a \in Actors : LinksExcludeKeys(local[a])

LEMMA NextExclusive ==
  ASSUME BaseInv, AllExclusive, [Next]_vars
  PROVE  AllExclusive'
<1>1. /\ remote' = remote \/ \E a \in Actors : remote' = local[a]
      /\ \A b \in Actors : LocalStep(b)
  BY NextStep, StutterStep DEF BaseInv
<1>2. \A b \in Actors : local[b] \in Database /\ local'[b] \in Database
  BY BaseInvariant DEF BaseInv, TypeInv, TypeOK
<1>3. /\ LinksExcludeKeys(EmptyDB)
      /\ \A d \in Torn(remote) : LinksExcludeKeys(d)
  <2>1. LinksExcludeKeys(EmptyDB)
    BY DEF LinksExcludeKeys, PeersIn, EmptyDB
  <2>2. remote \in Database
    BY DEF BaseInv, TypeInv, TypeOK
  <2>3. ASSUME NEW d \in Torn(remote)
        PROVE  LinksExcludeKeys(d)
    BY <2>2, TornCopy DEF AllExclusive, LinksExcludeKeys
  <2>4. QED
    BY <2>1, <2>3
<1>4. LinksExcludeKeys(remote)'
  BY <1>1 DEF AllExclusive, LinksExcludeKeys, PeersIn
<1>5. ASSUME NEW b \in Actors
      PROVE  LinksExcludeKeys(local'[b])
  <2>1. CASE local'[b] \in {local[b], EmptyDB, remote} \cup Torn(remote)
    BY <1>3, <2>1 DEF AllExclusive
  <2>2. CASE Edit(local[b], local'[b])
    BY <1>2, <2>2, EditExclusive DEF AllExclusive
  <2>3. QED
    BY <1>1, <2>1, <2>2 DEF LocalStep
<1>6. QED
  BY <1>4, <1>5 DEF AllExclusive, LinksExcludeKeys, PeersIn

(* In the object in the bucket no peer has both a link to download a config *)
(* and a downloaded key, whichever of several overlapping POSTs, GETs and   *)
(* edits of the administrators uploads last.                                *)
THEOREM LinksExcludeKeysAlways == Spec => []LinkExcludesKey
<1> DEFINE IInv == BaseInv /\ AllExclusive
<1>1. Init => IInv
  <2> SUFFICES ASSUME Init PROVE AllExclusive
    BY BaseInvariant
  <2>1. LinksExcludeKeys(remote)
    BY InputAssumption DEF Init
  <2>2. LinksExcludeKeys(EmptyDB)
    BY DEF LinksExcludeKeys, PeersIn, EmptyDB
  <2>3. \A a \in Actors : local[a] = EmptyDB
    BY DEF Init
  <2>4. QED
    BY <2>1, <2>2, <2>3 DEF AllExclusive
<1>2. IInv /\ [Next]_vars => IInv'
  BY BaseInvariant, NextExclusive
<1>3. IInv => LinkExcludesKey
  BY DEF AllExclusive, LinkExcludesKey
<1> HIDE DEF IInv
<1>4. QED
  BY <1>1, <1>2, <1>3, PTL DEF Spec

-----------------------------------------------------------------------------
(* Configs.                                                                 *)

Stored(db, c) ==
  /\ db.peers[c.uid] # NoPeer
  /\ db.peers[c.uid].status = [secret |-> NoSecret, pub |-> c.key]

(* A config that waits for its upload is one the copy knows about.          *)
ReplyStored ==
  \A a \in Actors : \A c \in reply[a].configs : pc[a] = "syncing" /\ Stored(local[a], c)

LEMMA SilentCommitStored ==
  ASSUME TypeOK, ReplyStored, NEW a \in Actors, NEW db, Commit(a, db, NoReply)
  PROVE  ReplyStored' /\ configs' = configs
BY DEF Commit, ReplyStored, TypeOK, NoReply, Stored

LEMMA RequestStored ==
  ASSUME TypeOK, ReplyStored, NEW a \in Actors, Request(a)
  PROVE  ReplyStored' /\ configs' = configs
<1>1. PICK u \in UIDs :
        \/ RenewPeer(a, u)
        \/ \E link \in links, vpn \in Servers : DownloadConfig(a, u, link, vpn)
  BY DEF Request
<1>2. local[a] \in Database /\ now \in Nat /\ drawn + 1 \in Nat
  BY RegistryAssumption DEF TypeOK
<1>3. CASE RenewPeer(a, u)
  <2>1. PICK db, r : Commit(a, db, r) /\ r.configs = {}
    BY <1>3 DEF RenewPeer, NoReply
  <2>2. QED
    BY <2>1 DEF Commit, ReplyStored, TypeOK, Stored
<1>4. CASE \E link \in links, vpn \in Servers : DownloadConfig(a, u, link, vpn)
  <2>1. PICK link \in links, vpn \in Servers : DownloadConfig(a, u, link, vpn)
    BY <1>4
  <2> DEFINE status == [secret |-> NoSecret, pub |-> drawn + 1]
             p == [local[a].peers[u] EXCEPT !.status = status]
             config == [link |-> link, uid |-> u, key |-> drawn + 1]
             r == [NoReply EXCEPT !.configs = {config}]
             db == WithPeer(local[a], u, p)
  <2>2. local[a].peers[u] \in PeerObject
    BY <1>2, <2>1, PeerType DEF DownloadConfig
  <2>3. status \in PeerStatus
    BY <1>2 DEF PeerStatus, NoSecret
  <2>4. p \in PeerObject /\ p.status = status
    BY <2>2, <2>3 DEF PeerObject
  <2>5. db \in Database
    BY <1>2, <2>4, WithPeerType
  <2>6. db.peers[u] = [p EXCEPT !.updatedAt = now]
    BY <1>2 DEF WithPeer, Database
  <2>7. db.peers[u].status = status /\ db.peers[u] # NoPeer
    <3>1. [p EXCEPT !.updatedAt = now] \in PeerObject
      BY <1>2, <2>4 DEF PeerObject
    <3>2. [p EXCEPT !.updatedAt = now].status = status
      BY <2>4 DEF PeerObject
    <3>3. QED
      BY <2>6, <3>1, <3>2, RegistryAssumption
  <2>8. r.configs = {config} /\ config.uid = u /\ config.key = drawn + 1
    BY DEF NoReply
  <2>9. Commit(a, db, r)
    BY <2>1 DEF DownloadConfig
  <2>10. \A c \in r.configs : Stored(db, c)
    BY <2>7, <2>8 DEF Stored
  <2> HIDE DEF db, r
  <2>11. QED
    BY <2>9, <2>10 DEF Commit, ReplyStored, TypeOK, Stored
<1>5. QED
  BY <1>1, <1>3, <1>4

LEMMA NextStored ==
  ASSUME TypeInv, ReplyStored, [Next]_vars
  PROVE  /\ ReplyStored'
         /\ \A c \in configs' \ configs : Stored(remote', c)
<1> USE DEF TypeInv
<1>1. ASSUME NEW a \in Actors, Frame(a)
      PROVE  /\ ReplyStored'
             /\ \A c \in configs' \ configs : Stored(remote', c)
  <2>1. ASSUME ToIdle(a)
        PROVE  ReplyStored'
    BY <2>1 DEF ToIdle, ReplyStored, TypeOK, NoReply, Stored
  <2>2. CASE Fetch(a) \/ FetchTorn(a)
    <3>1. /\ \A b \in Actors : b # a => local'[b] = local[b] /\ pc'[b] = pc[b]
          /\ pc[a] = "idle" /\ reply' = reply /\ configs' = configs
      BY <2>2, FetchedCopy DEF TypeOK
    <3>2. reply[a].configs = {}
      BY <3>1 DEF ReplyStored
    <3>3. QED
      BY <3>1, <3>2 DEF ReplyStored, Stored
  <2>3. CASE ApplyEntry(a)
    <3>1. \A b \in Actors : b # a => local'[b] = local[b]
      BY <2>3 DEF ApplyEntry, TypeOK
    <3>2. pc[a] # "syncing"
      BY <2>3 DEF ApplyEntry
    <3>3. \A b \in Actors : b # a => pc'[b] = pc[b]
      BY <2>3 DEF ApplyEntry, TypeOK
    <3>4. reply' = reply /\ configs' = configs
      BY <2>3 DEF ApplyEntry
    <3>5. QED
      BY <3>1, <3>2, <3>3, <3>4 DEF ReplyStored, Stored
  <2>4. CASE Upload(a)
    BY <2>1, <2>4 DEF Upload, ReplyStored
  <2>5. CASE UploadUnacknowledged(a) \/ Abandon(a)
    BY <2>1, <2>5 DEF UploadUnacknowledged, Abandon
  <2>6. QED
    BY <1>1, <2>2, <2>3, <2>4, <2>5 DEF Frame
<1>2. ASSUME NEW a \in Actors, ServerCommand(a) \/ PeerCommand(a)
      PROVE  ReplyStored' /\ configs' = configs
  BY <1>2, SilentCommitStored
  DEF ServerCommand, InitServer, DeleteServer, PeerCommand, PeerAddGivenKey,
      PeerAddClientConfig, PeerAdd, PeerBlock, PeerUnblock, SetBlocked
<1>3. ASSUME NEW a \in Actors, NEW manifest \in Manifests, PeerApply(a, manifest)
      PROVE  ReplyStored' /\ configs' = configs
  BY <1>3 DEF PeerApply, ReplyStored, TypeOK, Stored
<1>4. CASE Tick \/ UNCHANGED vars
  BY <1>4 DEF Tick, vars, ReplyStored, Stored
<1>5. QED
  BY <1>1, <1>2, <1>3, <1>4, RequestStored DEF Next, AdminCommand, Actors

(* Whoever receives a config can use it: the upload that precedes the       *)
(* answer to a GET stores the public key of that very config for the peer   *)
(* and takes the link out of the object.                                    *)
THEOREM ConfigsAreStored == Spec => ConfigIsStored
<1> DEFINE IInv == TypeInv /\ ReplyStored
<1>1. Init => IInv
  BY InitType DEF Init, TypeInv, Applying, ReplyStored, NoReply
<1>2. IInv /\ [Next]_vars => IInv'
  BY NextType, NextStored
<1>3. IInv /\ [Next]_vars =>
        [\A c \in configs' \ configs :
           /\ remote'.peers[c.uid] # NoPeer
           /\ remote'.peers[c.uid].status = [secret |-> NoSecret, pub |-> c.key]]_vars
  BY NextStored DEF Stored
<1> HIDE DEF IInv
<1>4. QED
  BY <1>1, <1>2, <1>3, PTL DEF Spec, ConfigIsStored

-----------------------------------------------------------------------------
(* The registry implements CopyStore.  Its steps are sorted by what they do *)
(* to the copies: a command opens one, edits its own, drops it, or puts it  *)
(* in the place of the object.                                              *)

(* Nothing happens to the copies and places of the slots other than a.      *)
OthersAsTheyWere(a) ==
  \A b \in Actors \ {a} : pc'[b] = pc[b] /\ local'[b] = local[b]

LEMMA FetchOpens ==
  ASSUME TypeOK, NEW a \in Actors, Fetch(a) \/ FetchTorn(a)
  PROVE  Copies!Open(a)
<1> DEFINE copy == [b \in Actors |-> IF pc[b] = "idle" THEN NoPeer ELSE local[b]]
           after == [b \in Actors |-> IF pc'[b] = "idle" THEN NoPeer ELSE local'[b]]
<1>1. PICK db \in {remote} \cup Torn(remote) :
        /\ pc[a] = "idle" /\ remote' = remote
        /\ pc' = [pc EXCEPT ![a] = "opened"]
        /\ local' = [local EXCEPT ![a] = db]
  BY FetchedCopy
<1>2. copy[a] = NoPeer
  BY <1>1
<1>3. after = [copy EXCEPT ![a] = db]
  BY <1>1 DEF TypeOK
<1>4. QED
  BY <1>1, <1>2, <1>3 DEF Copies!Open

LEMMA EditIsEdit ==
  ASSUME TypeOK, TypeOK', NEW a \in Actors, OthersAsTheyWere(a),
         pc[a] # "idle", pc'[a] # "idle", remote' = remote
  PROVE  Copies!Edit(a)
<1> DEFINE copy == [b \in Actors |-> IF pc[b] = "idle" THEN NoPeer ELSE local[b]]
           after == [b \in Actors |-> IF pc'[b] = "idle" THEN NoPeer ELSE local'[b]]
<1>1. copy[a] \in Database
  BY DEF TypeOK
<1>2. after[a] \in Database
  BY DEF TypeOK
<1>3. after = [copy EXCEPT ![a] = after[a]]
  BY DEF OthersAsTheyWere
<1>4. QED
  BY <1>1, <1>2, <1>3 DEF Copies!Edit

LEMMA ToIdleDrops ==
  ASSUME TypeOK, NEW a \in Actors, ToIdle(a), pc[a] # "idle"
  PROVE  /\ remote' = remote => Copies!Drop(a)
         /\ remote' = local[a] => Copies!Upload(a)
<1> DEFINE copy == [b \in Actors |-> IF pc[b] = "idle" THEN NoPeer ELSE local[b]]
           after == [b \in Actors |-> IF pc'[b] = "idle" THEN NoPeer ELSE local'[b]]
<1>1. after = [copy EXCEPT ![a] = NoPeer]
  BY DEF ToIdle, TypeOK
<1>2. copy[a] = local[a] /\ copy[a] # NoPeer
  BY RegistryAssumption DEF TypeOK
<1>3. QED
  BY <1>1, <1>2 DEF Copies!Drop, Copies!Upload

(* Every edit of a command or request is one of its own copy.               *)
LEMMA CommitEdits ==
  ASSUME TypeOK, NEW a \in Actors,
         ServerCommand(a) \/ PeerCommand(a) \/ Request(a)
  PROVE  /\ OthersAsTheyWere(a)
         /\ pc[a] # "idle" /\ pc'[a] # "idle" /\ remote' = remote
<1>1. PICK db, r : Commit(a, db, r)
  BY DEF ServerCommand, InitServer, DeleteServer, PeerCommand, PeerAddGivenKey,
         PeerAddClientConfig, PeerAdd, PeerBlock, PeerUnblock, SetBlocked,
         Request, RenewPeer, DownloadConfig
<1>2. QED
  BY <1>1 DEF Commit, OthersAsTheyWere, TypeOK

LEMMA NextIsCopyStep ==
  ASSUME TypeInv, [Next]_vars
  PROVE  [Copies!Next]_(Copies!vars)
<1> USE DEF TypeInv
<1>1. TypeOK'
  BY NextType
<1>2. ASSUME NEW a \in Actors, Frame(a)
      PROVE  Copies!Next
  <2>1. CASE Fetch(a) \/ FetchTorn(a)
    BY <2>1, FetchOpens DEF Copies!Next
  <2>2. CASE ApplyEntry(a)
    <3>1. /\ OthersAsTheyWere(a)
          /\ pc[a] # "idle" /\ pc'[a] # "idle" /\ remote' = remote
      BY <2>2 DEF ApplyEntry, OthersAsTheyWere, TypeOK
    <3>2. QED
      BY <1>1, <3>1, EditIsEdit DEF Copies!Next
  <2>3. CASE Upload(a) \/ UploadUnacknowledged(a) \/ Abandon(a)
    <3>1. ToIdle(a) /\ pc[a] # "idle" /\ remote' \in {remote, local[a]}
      BY <2>3 DEF Upload, UploadUnacknowledged, Abandon
    <3>2. QED
      BY <3>1, ToIdleDrops DEF Copies!Next
  <2>4. QED
    BY <1>2, <2>1, <2>2, <2>3 DEF Frame
<1>3. ASSUME NEW a \in Actors, ServerCommand(a) \/ PeerCommand(a) \/ Request(a)
      PROVE  Copies!Next
  BY <1>1, <1>3, CommitEdits, EditIsEdit DEF Copies!Next
<1>4. ASSUME NEW a \in Actors, NEW manifest \in Manifests, PeerApply(a, manifest)
      PROVE  Copies!Next
  <2>1. /\ OthersAsTheyWere(a)
        /\ pc[a] # "idle" /\ pc'[a] # "idle" /\ remote' = remote
    BY <1>4 DEF PeerApply, OthersAsTheyWere, TypeOK
  <2>2. QED
    BY <1>1, <2>1, EditIsEdit DEF Copies!Next
<1>5. CASE Tick \/ UNCHANGED vars
  BY <1>5 DEF Tick, vars, Copies!vars
<1>6. QED
  BY <1>2, <1>3, <1>4, <1>5 DEF Next, AdminCommand, Actors

(* A command or a request, with all it does and every way it can fail, is a *)
(* client of a store that hands out copies: it sees the object as it was    *)
(* when it downloaded it, disturbs nobody while it edits, and replaces the  *)
(* whole object or nothing.                                                 *)
THEOREM RegistryIsCopyStore == Spec => WorksOnCopies
<1>1. Init => Copies!Init
  BY RegistryAssumption DEF Init, Copies!Init
<1>2. Init => TypeInv
  BY InitType DEF TypeInv, Applying, Init
<1>3. TypeInv /\ [Next]_vars => TypeInv'
  BY NextType
<1>4. TypeInv /\ [Next]_vars => [Copies!Next]_(Copies!vars)
  BY NextIsCopyStep
<1>5. QED
  BY <1>1, <1>2, <1>3, <1>4, PTL DEF Spec, WorksOnCopies, Copies!Spec

-----------------------------------------------------------------------------
(* What becomes of random values.  Links and keys are drawn once; a command *)
(* can only pass them on, with the time their lease began, or drop them.    *)

(* No manifest carries a status, as one written by hand does not: the       *)
(* output of "peer get -o yaml" does, and applying it to an object without  *)
(* the peer brings its link back, or its key with a new lease.              *)
NewManifests ==
  \A manifest \in Manifests : \A j \in 1 .. Len(manifest) :
    manifest[j].status = NoStatus

(* The object at the start has no value that is still to be drawn.          *)
NewDraws ==
  \A u \in PeersIn(InitialDB) :
    /\ InitialDB.peers[u].status.secret \notin 1 .. MaxDrawn
    /\ InitialDB.peers[u].status.pub \notin 1 .. MaxDrawn

(* There is one slot: commands and requests come one after the other.       *)
OneAtATime == \A a, b \in Actors : a = b

TodoNew ==
  \A a \in Actors : \A j \in 1 .. Len(todo[a]) : todo[a][j].status = NoStatus

(* A link or a config waits in its slot for the upload, and only there.     *)
ReplyWaits == \A a \in Actors : pc[a] # "syncing" => reply[a] = NoReply

Dbs == {remote} \cup {local[a] : a \in Actors}

(* The value n is not still to be drawn.                                    *)
Past(n) == n <= drawn \/ n > MaxDrawn

StatusPast ==
  \A db \in Dbs : \A u \in PeersIn(db) :
    Past(db.peers[u].status.secret) /\ Past(db.peers[u].status.pub)

(* However old two versions of a peer are, if they have the same key then   *)
(* their leases began together.                                             *)
OneLease ==
  \A d, e \in Dbs : \A u \in PeersIn(d) \cap PeersIn(e) :
    /\ d.peers[u].status.pub = e.peers[u].status.pub
    /\ d.peers[u].status.pub # NoKey
    => d.peers[u].createdAt = e.peers[u].createdAt

SecretsOnce ==
  \A db \in Dbs : \A u, v \in PeersIn(db) :
    /\ db.peers[u].status.secret = db.peers[v].status.secret
    /\ db.peers[u].status.secret \in 1 .. drawn
    => u = v

LinksDrawn == \A a \in Actors : links \cup reply[a].links \subseteq 1 .. drawn

ConfigsDrawn == \A a \in Actors : \A c \in configs \cup reply[a].configs : c.link \in 1 .. drawn

SpentIsGone ==
  \A c \in configs : \A db \in Dbs : \A u \in PeersIn(db) :
    db.peers[u].status.secret # c.link

(* The config that waits for its upload is the first for its link, which    *)
(* the copy to be uploaded no longer has.                                   *)
WaitingIsFirst ==
  \A a \in Actors : \A c \in reply[a].configs :
    /\ \A d \in reply[a].configs : c = d
    /\ \A d \in configs : c.link # d.link
    /\ \A u \in PeersIn(local[a]) : local[a].peers[u].status.secret # c.link

-----------------------------------------------------------------------------
(* The steps again, sorted by what they do to links, keys and leases.       *)

SameLease(p, q) == q.status = p.status /\ q.createdAt = p.createdAt

(* An edit that hands out nothing keeps the status of the peer and the      *)
(* start of its lease, or forgets the status.                               *)
QuietEdit(db, new) ==
  \/ new.peers = db.peers
  \/ \E u \in UIDs, q \in PeerObject :
       /\ new.peers = [db.peers EXCEPT ![u] = q]
       /\ \/ q.status = NoStatus
          \/ db.peers[u] # NoPeer /\ SameLease(db.peers[u], q)

Opens(a) ==
  /\ pc[a] = "idle" /\ pc' = [pc EXCEPT ![a] = "opened"]
  /\ \E db \in {remote} \cup Torn(remote) : local' = [local EXCEPT ![a] = db]
  /\ UNCHANGED <<remote, now, drawn, reply, links, configs>>

Works(a) ==
  /\ pc[a] \in {"opened", "applying"}
  /\ \E place \in {"applying", "syncing"} : pc' = [pc EXCEPT ![a] = place]
  /\ local' = [local EXCEPT ![a] = local'[a]]
  /\ \E r \in {reply[a], NoReply} : reply' = [reply EXCEPT ![a] = r]
  /\ drawn' \in {drawn, drawn + 1}
  /\ UNCHANGED <<remote, now, links, configs>>
  /\ TodoNew => QuietEdit(local[a], local'[a])

(* A request draws a new link or key for the peer u of the copy.            *)
Draws(a, u, q, r) ==
  /\ local[a].peers[u] # NoPeer
  /\ drawn < MaxDrawn /\ drawn' = drawn + 1
  /\ local'[a].peers = [local[a].peers EXCEPT ![u] = q]
  /\ Commit(a, local'[a], r)

Renews(a) ==
  \E u \in UIDs, q \in PeerObject :
    /\ q.status = [secret |-> drawn + 1, pub |-> NoKey]
    /\ Draws(a, u, q, [links |-> {drawn + 1}, configs |-> {}])

Downloads(a) ==
  \E u \in UIDs, q \in PeerObject, link \in links :
    LET old == local[a].peers[u]
        config == [link |-> link, uid |-> u, key |-> drawn + 1]
    IN /\ ~old.spec.blocked /\ old.status.secret = link
       /\ q.status = [secret |-> NoSecret, pub |-> drawn + 1]
       /\ q.createdAt = old.createdAt
       /\ Draws(a, u, q, [links |-> {}, configs |-> {config}])

Ends(a) ==
  /\ ToIdle(a)
  /\ \/ UNCHANGED <<remote, links, configs>>
     \/ /\ pc[a] = "syncing" /\ remote' = local[a]
        /\ \/ UNCHANGED <<links, configs>>
           \/ /\ links' = links \cup reply[a].links
              /\ configs' = configs \cup reply[a].configs
  /\ UNCHANGED <<now, drawn>>

LEMMA QuietCommit ==
  ASSUME TypeOK, NEW a \in Actors, NEW db \in Database, Commit(a, db, NoReply),
         QuietEdit(local[a], db), drawn' \in {drawn, drawn + 1}
  PROVE  Works(a)
<1>1. local'[a] = db /\ local' = [local EXCEPT ![a] = db]
  BY DEF Commit, TypeOK
<1>2. QED
  BY <1>1 DEF Commit, Works

Stamped(p) == [p EXCEPT !.updatedAt = now]

LEMMA StoredPeer ==
  ASSUME now \in Nat, NEW db \in Database, NEW u \in UIDs, NEW p \in PeerObject
  PROVE  /\ Stamped(p) \in PeerObject
         /\ Stamped(p).spec = p.spec /\ SameLease(p, Stamped(p))
         /\ WithPeer(db, u, p).peers = [db.peers EXCEPT ![u] = Stamped(p)]
BY DEF Stamped, SameLease, PeerObject, WithPeer, Database

(* A command that stores a peer without changing its lease is quiet.        *)
LEMMA QuietPeerCommit ==
  ASSUME TypeOK, NEW a \in Actors, NEW u \in UIDs, NEW p \in PeerObject,
         Commit(a, WithPeer(local[a], u, p), NoReply), drawn' \in {drawn, drawn + 1},
         \/ p.status = NoStatus
         \/ local[a].peers[u] # NoPeer /\ SameLease(local[a].peers[u], p)
  PROVE  Works(a)
<1>1. now \in Nat /\ local[a] \in Database
  BY DEF TypeOK
<1>2. QuietEdit(local[a], WithPeer(local[a], u, p))
  <2> DEFINE q == Stamped(p)
  <2>1. /\ q \in PeerObject /\ SameLease(p, q)
        /\ WithPeer(local[a], u, p).peers = [local[a].peers EXCEPT ![u] = q]
    BY <1>1, StoredPeer
  <2> HIDE DEF q
  <2>2. \/ q.status = NoStatus
        \/ local[a].peers[u] # NoPeer /\ SameLease(local[a].peers[u], q)
    BY <2>1 DEF SameLease
  <2>3. QED
    BY <2>1, <2>2 DEF QuietEdit
<1>3. WithPeer(local[a], u, p) \in Database
  BY <1>1, WithPeerType
<1>4. QED
  BY <1>2, <1>3, QuietCommit

LEMMA ServerCommandWorks ==
  ASSUME TypeOK, TypeOK', NEW a \in Actors, ServerCommand(a)
  PROVE  Works(a)
<1>1. PICK db : /\ Commit(a, db, NoReply) /\ UNCHANGED drawn
                /\ \E s \in Servers, v \in Networks \cup {NoServer} :
                     db = [local[a] EXCEPT !.servers = [@ EXCEPT ![s] = v]]
  BY DEF ServerCommand, InitServer, DeleteServer
<1>2. local[a] \in Database
  BY DEF TypeOK
<1>3. db.peers = local[a].peers
  BY <1>1, <1>2 DEF Database
<1>4. db \in Database
  BY <1>1 DEF TypeOK, Commit
<1>5. QED
  BY <1>1, <1>3, <1>4, QuietCommit DEF QuietEdit

LEMMA PeerAddWorks ==
  ASSUME TypeOK, NEW a \in Actors, NEW u \in UIDs, NEW override,
         NEW ip \in Addresses, NEW action \in ExpireActions, NEW key \in Nat,
         PeerAdd(a, u, override, ip, action, key), drawn' \in {drawn, drawn + 1}
  PROVE  Works(a)
<1> DEFINE spec == [persistent |-> key, ip |-> ip, action |-> action,
                    duration |-> DefaultDuration, blocked |-> FALSE]
           p == [spec |-> spec, status |-> NoStatus,
                 createdAt |-> now, updatedAt |-> now]
<1>1. spec \in PeerSpec
  BY RegistryAssumption DEF PeerSpec
<1>2. NoStatus \in PeerStatus /\ now \in Nat
  BY DEF NoStatus, PeerStatus, NoSecret, NoKey, TypeOK
<1>3. p \in PeerObject /\ p.status = NoStatus
  BY <1>1, <1>2 DEF PeerObject
<1>4. Commit(a, WithPeer(local[a], u, p), NoReply)
  BY DEF PeerAdd
<1> HIDE DEF p
<1>5. QED
  BY <1>3, <1>4, QuietPeerCommit

LEMMA SetBlockedWorks ==
  ASSUME TypeOK, NEW a \in Actors, NEW u \in UIDs, NEW blocked \in BOOLEAN,
         SetBlocked(a, u, blocked)
  PROVE  Works(a)
<1> DEFINE old == local[a].peers[u]
           p == [old EXCEPT !.spec.blocked = blocked]
<1>1. old # NoPeer /\ old \in PeerObject /\ old.spec \in PeerSpec
  BY PeerType DEF SetBlocked, TypeOK
<1>2. [old.spec EXCEPT !.blocked = blocked] \in PeerSpec
  BY <1>1 DEF PeerSpec
<1>3. p \in PeerObject /\ SameLease(old, p)
  BY <1>1, <1>2 DEF PeerObject, SameLease
<1>4. Commit(a, WithPeer(local[a], u, p), NoReply) /\ drawn' = drawn
  BY DEF SetBlocked
<1> HIDE DEF p
<1>5. QED
  BY <1>1, <1>3, <1>4, QuietPeerCommit

LEMMA PeerCommandWorks ==
  ASSUME TypeOK, NEW a \in Actors, PeerCommand(a)
  PROVE  Works(a)
<1>1. AdminKeys \cup {NoKey} \subseteq Nat /\ drawn + 1 \in Nat
  BY RegistryAssumption DEF NoKey, TypeOK
<1>2. ASSUME NEW u \in UIDs, NEW override \in BOOLEAN, NEW ip \in Addresses,
             NEW action \in ExpireActions, PeerAddGivenKey(a, u, override, ip, action)
      PROVE  Works(a)
  BY <1>1, <1>2, PeerAddWorks DEF PeerAddGivenKey
<1>3. ASSUME NEW u \in UIDs, NEW override \in BOOLEAN, NEW ip \in Addresses,
             NEW action \in ExpireActions, PeerAddClientConfig(a, u, override, ip, action)
      PROVE  Works(a)
  BY <1>1, <1>3, PeerAddWorks DEF PeerAddClientConfig
<1>4. QED
  BY <1>2, <1>3, SetBlockedWorks DEF PeerCommand, PeerBlock, PeerUnblock

LEMMA ApplyEntryWorks ==
  ASSUME TypeInv, TypeOK', NEW a \in Actors, ApplyEntry(a)
  PROVE  Works(a)
<1> DEFINE e == Head(todo[a])
           old == local[a].peers[e.uid]
           created == [spec |-> e.spec, status |-> e.status,
                       createdAt |-> now, updatedAt |-> now]
           updated == [old EXCEPT !.spec = e.spec]
<1>1. /\ local[a] \in Database /\ now \in Nat /\ local \in [Actors -> Database]
      /\ todo[a] \in Seq(ManifestEntry) /\ todo[a] # <<>>
  BY DEF TypeInv, TypeOK, Applying, ApplyEntry
<1>2. e \in ManifestEntry /\ e = todo[a][1] /\ 1 \in 1 .. Len(todo[a])
  BY <1>1
<1>3. e.uid \in UIDs /\ e.spec \in PeerSpec /\ e.status \in PeerStatus
  BY <1>2 DEF ManifestEntry
<1>4. /\ pc[a] = "applying"
      /\ \E place \in {"applying", "syncing"} : pc' = [pc EXCEPT ![a] = place]
      /\ UNCHANGED <<remote, now, drawn, reply, links, configs>>
  BY DEF ApplyEntry
<1>5. reply' = [reply EXCEPT ![a] = reply[a]]
  BY <1>4 DEF TypeInv, TypeOK
<1>6. \/ /\ ApplyCreate(local[a], e.uid, e.spec)
         /\ local' = [local EXCEPT ![a] = WithPeer(local[a], e.uid, created)]
      \/ /\ ApplyUpdate(local[a], e.uid, e.spec)
         /\ local' = [local EXCEPT ![a] = WithPeer(local[a], e.uid, updated)]
      \/ UNCHANGED local
  BY DEF ApplyEntry
<1>7. local' = [local EXCEPT ![a] = local'[a]]
  BY <1>1, <1>6
<1>8. ASSUME TodoNew
      PROVE  QuietEdit(local[a], local'[a])
  <2>1. e.status = NoStatus
    BY <1>2, <1>8 DEF TodoNew
  <2>2. ASSUME NEW p \in PeerObject,
               local'[a] = WithPeer(local[a], e.uid, p),
               \/ p.status = NoStatus
               \/ old # NoPeer /\ SameLease(old, p)
        PROVE  QuietEdit(local[a], local'[a])
    <3> DEFINE q == Stamped(p)
    <3>1. /\ q \in PeerObject /\ SameLease(p, q)
          /\ WithPeer(local[a], e.uid, p).peers = [local[a].peers EXCEPT ![e.uid] = q]
      BY <1>1, <1>3, StoredPeer
    <3> HIDE DEF q
    <3>2. \/ q.status = NoStatus
          \/ old # NoPeer /\ SameLease(old, q)
      BY <2>2, <3>1 DEF SameLease
    <3>3. QED
      BY <1>3, <2>2, <3>1, <3>2 DEF QuietEdit
  <2>3. CASE local' = [local EXCEPT ![a] = WithPeer(local[a], e.uid, created)]
    <3>1. created \in PeerObject /\ created.status = NoStatus
      BY <1>1, <1>3, <2>1 DEF PeerObject
    <3> HIDE DEF created
    <3>2. QED
      BY <1>1, <2>2, <2>3, <3>1
  <2>4. CASE /\ ApplyUpdate(local[a], e.uid, e.spec)
             /\ local' = [local EXCEPT ![a] = WithPeer(local[a], e.uid, updated)]
    <3>1. old # NoPeer /\ old \in PeerObject
      BY <1>1, <1>3, <2>4, PeerType DEF ApplyUpdate
    <3>2. updated \in PeerObject /\ SameLease(old, updated)
      BY <1>3, <3>1 DEF PeerObject, SameLease
    <3> HIDE DEF updated
    <3>3. QED
      BY <1>1, <2>2, <2>4, <3>1, <3>2
  <2>5. CASE UNCHANGED local
    BY <2>5 DEF QuietEdit
  <2>6. QED
    BY <1>6, <2>3, <2>4, <2>5
<1>9. QED
  BY <1>4, <1>5, <1>7, <1>8 DEF Works

LEMMA PeerApplyWorks ==
  ASSUME TypeOK, NEW a \in Actors, NEW manifest \in Manifests, PeerApply(a, manifest)
  PROVE  Works(a)
<1>1. /\ pc[a] = "opened"
      /\ \E place \in {"applying", "syncing"} : pc' = [pc EXCEPT ![a] = place]
      /\ UNCHANGED <<remote, now, drawn, local, reply, links, configs>>
  BY DEF PeerApply
<1>2. local' = [local EXCEPT ![a] = local'[a]] /\ reply' = [reply EXCEPT ![a] = reply[a]]
  BY <1>1 DEF TypeOK
<1>3. QuietEdit(local[a], local'[a])
  BY <1>1 DEF QuietEdit
<1>4. QED
  BY <1>1, <1>2, <1>3 DEF Works

LEMMA RenewPeerRenews ==
  ASSUME TypeOK, NEW a \in Actors, NEW u \in UIDs, RenewPeer(a, u)
  PROVE  Renews(a)
<1> DEFINE status == [secret |-> drawn + 1, pub |-> NoKey]
           p == [local[a].peers[u] EXCEPT !.createdAt = now, !.status = status]
           r == [NoReply EXCEPT !.links = {drawn + 1}]
<1>1. local[a] \in Database /\ now \in Nat /\ drawn + 1 \in Nat
  BY RegistryAssumption DEF TypeOK
<1>2. local[a].peers[u] # NoPeer /\ local[a].peers[u] \in PeerObject
  BY <1>1, PeerType DEF RenewPeer
<1>3. status \in PeerStatus
  BY <1>1 DEF PeerStatus, NoKey
<1>4. p \in PeerObject /\ p.status = status
  BY <1>1, <1>2, <1>3 DEF PeerObject
<1>5. /\ Commit(a, WithPeer(local[a], u, p), r)
      /\ drawn < MaxDrawn /\ drawn' = drawn + 1
  BY DEF RenewPeer
<1>6. r = [links |-> {drawn + 1}, configs |-> {}]
  BY DEF NoReply
<1> HIDE DEF p, r
<1> DEFINE q == Stamped(p)
<1>7. /\ WithPeer(local[a], u, p).peers = [local[a].peers EXCEPT ![u] = q]
      /\ q \in PeerObject /\ q.status = status
  BY <1>1, <1>4, StoredPeer DEF SameLease
<1> HIDE DEF q
<1>8. local'[a] = WithPeer(local[a], u, p)
  BY <1>5 DEF Commit, TypeOK
<1>9. Draws(a, u, q, r)
  BY <1>2, <1>5, <1>7, <1>8 DEF Draws
<1>10. QED
  BY <1>6, <1>7, <1>9 DEF Renews

LEMMA DownloadConfigDownloads ==
  ASSUME TypeOK, NEW a \in Actors, NEW u \in UIDs, NEW link \in links,
         NEW vpn \in Servers, DownloadConfig(a, u, link, vpn)
  PROVE  Downloads(a)
<1> DEFINE old == local[a].peers[u]
           status == [secret |-> NoSecret, pub |-> drawn + 1]
           p == [old EXCEPT !.status = status]
           config == [link |-> link, uid |-> u, key |-> drawn + 1]
           r == [NoReply EXCEPT !.configs = {config}]
<1>1. local[a] \in Database /\ now \in Nat /\ drawn + 1 \in Nat
  BY RegistryAssumption DEF TypeOK
<1>2. old # NoPeer /\ old \in PeerObject
  BY <1>1, PeerType DEF DownloadConfig
<1>3. status \in PeerStatus
  BY <1>1 DEF PeerStatus, NoSecret
<1>4. p \in PeerObject /\ p.status = status /\ p.createdAt = old.createdAt
  BY <1>2, <1>3 DEF PeerObject
<1>5. /\ Commit(a, WithPeer(local[a], u, p), r)
      /\ drawn < MaxDrawn /\ drawn' = drawn + 1
      /\ old.status.secret = link /\ ~old.spec.blocked
  BY DEF DownloadConfig
<1>6. r = [links |-> {}, configs |-> {config}]
  BY DEF NoReply
<1> HIDE DEF p, r
<1> DEFINE q == Stamped(p)
<1>7. /\ WithPeer(local[a], u, p).peers = [local[a].peers EXCEPT ![u] = q]
      /\ q \in PeerObject /\ q.status = status /\ q.createdAt = old.createdAt
  BY <1>1, <1>4, StoredPeer DEF SameLease
<1> HIDE DEF q
<1>8. local'[a] = WithPeer(local[a], u, p)
  BY <1>5 DEF Commit, TypeOK
<1>9. Draws(a, u, q, r)
  BY <1>2, <1>5, <1>7, <1>8 DEF Draws
<1>10. QED
  BY <1>5, <1>6, <1>7, <1>9 DEF Downloads

LEMMA FrameEnds ==
  ASSUME TypeOK, NEW a \in Actors, Upload(a) \/ UploadUnacknowledged(a) \/ Abandon(a)
  PROVE  Ends(a)
BY DEF Upload, UploadUnacknowledged, Abandon, Ends

(* Time passes or one slot makes a step of one of five kinds.               *)
LEMMA NextSorted ==
  ASSUME TypeInv, Next
  PROVE  \/ Tick
         \/ \E a \in Actors : Opens(a) \/ Works(a) \/ Renews(a) \/ Downloads(a) \/ Ends(a)
<1>1. TypeOK /\ TypeOK'
  BY NextType DEF TypeInv
<1>2. ASSUME NEW a \in Actors, Frame(a)
      PROVE  Opens(a) \/ Works(a) \/ Ends(a)
  <2>1. CASE Fetch(a) \/ FetchTorn(a)
    BY <2>1, FetchedCopy DEF Opens
  <2>2. QED
    BY <1>1, <1>2, <2>1, ApplyEntryWorks, FrameEnds DEF Frame
<1>3. ASSUME NEW a \in Actors, AdminCommand(a)
      PROVE  Works(a)
  BY <1>1, <1>3, ServerCommandWorks, PeerCommandWorks, PeerApplyWorks DEF AdminCommand
<1>4. ASSUME NEW a \in Actors, Request(a)
      PROVE  Renews(a) \/ Downloads(a)
  BY <1>1, <1>4, RenewPeerRenews, DownloadConfigDownloads DEF Request
<1>5. QED
  BY <1>2, <1>3, <1>4 DEF Next, Actors

LEMMA TodoNewStep ==
  ASSUME NewManifests, TypeInv, TodoNew, [Next]_vars
  PROVE  TodoNew'
<1> SUFFICES ASSUME NEW b \in Actors, NEW j \in 1 .. Len(todo'[b])
             PROVE  todo'[b][j].status = NoStatus
  BY DEF TodoNew
<1>1. CASE \E manifest \in Manifests : \E k \in 1 .. Len(manifest) : todo'[b][j] = manifest[k]
  BY <1>1 DEF NewManifests
<1>2. CASE \E k \in 1 .. Len(todo[b]) : todo'[b][j] = todo[b][k]
  BY <1>2 DEF TodoNew
<1>3. QED
  BY <1>1, <1>2, EntryFrom

LEMMA ReplyWaitsStep ==
  ASSUME TypeInv, ReplyWaits, [Next]_vars
  PROVE  ReplyWaits'
<1> USE DEF TypeInv, TypeOK
<1>1. CASE UNCHANGED vars
  BY <1>1 DEF vars, ReplyWaits
<1>2. CASE Tick
  BY <1>2 DEF Tick, ReplyWaits
<1>3. ASSUME NEW a \in Actors, Opens(a) \/ Works(a)
      PROVE  ReplyWaits'
  BY <1>3 DEF Opens, Works, ReplyWaits
<1>4. ASSUME NEW a \in Actors, Renews(a) \/ Downloads(a)
      PROVE  ReplyWaits'
  BY <1>4 DEF Renews, Downloads, Draws, Commit, ReplyWaits
<1>5. ASSUME NEW a \in Actors, Ends(a)
      PROVE  ReplyWaits'
  BY <1>5 DEF Ends, ToIdle, ReplyWaits
<1>6. QED
  BY <1>1, <1>2, <1>3, <1>4, <1>5, NextSorted

(* A database after a step is one from before, whole, torn or empty, or one *)
(* that the step has edited.                                                     *)
LEMMA QuietDbs ==
  ASSUME TypeOK, TodoNew, NEW a \in Actors, Opens(a) \/ Works(a) \/ Ends(a), NEW d \in Dbs'
  PROVE  \/ d \in Dbs \cup {EmptyDB} \cup Torn(remote)
         \/ \E e \in Dbs : QuietEdit(e, d)
<1> USE DEF TypeOK
<1>1. d = remote' \/ \E b \in Actors : d = local'[b]
  BY DEF Dbs
<1>2. CASE Opens(a)
  BY <1>1, <1>2 DEF Opens, Dbs
<1>3. CASE Works(a)
  BY <1>1, <1>3 DEF Works, Dbs
<1>4. CASE Ends(a)
  BY <1>1, <1>4 DEF Ends, ToIdle, Dbs
<1>5. QED
  BY <1>2, <1>3, <1>4

LEMMA EditDbs ==
  ASSUME TypeOK, NEW a \in Actors, Works(a) \/ Renews(a) \/ Downloads(a), NEW d \in Dbs'
  PROVE  d \in Dbs \/ d = local'[a]
<1>1. d = remote' \/ \E b \in Actors : d = local'[b]
  BY DEF Dbs
<1>2. ASSUME Renews(a) \/ Downloads(a)
      PROVE  \E r : Commit(a, local'[a], r)
  BY <1>2 DEF Renews, Downloads, Draws
<1>3. remote' = remote /\ local' = [local EXCEPT ![a] = local'[a]]
  BY <1>2 DEF Works, Commit
<1>4. \A b \in Actors \ {a} : local'[b] = local[b]
  BY <1>3 DEF TypeOK
<1>5. QED
  BY <1>1, <1>3, <1>4 DEF Dbs

LEMMA DbsType ==
  ASSUME TypeOK
  PROVE  Dbs \subseteq Database
BY DEF TypeOK, Dbs

(* What a step that draws nothing leaves of a peer was there before.        *)
LEMMA QuietPeers ==
  ASSUME TypeOK, TodoNew, NEW a \in Actors, Opens(a) \/ Works(a) \/ Ends(a),
         NEW d \in Dbs', NEW u \in PeersIn(d)
  PROVE  \/ d.peers[u].status = NoStatus
         \/ \E e \in Dbs : u \in PeersIn(e) /\ SameLease(e.peers[u], d.peers[u])
<1>1. d # EmptyDB
  BY DEF EmptyDB, PeersIn
<1>2. CASE d \in Dbs \cup Torn(remote)
  <2>1. CASE d \in Dbs
    BY <2>1 DEF SameLease
  <2>2. CASE d \in Torn(remote)
    BY <2>2, TornCopy DEF SameLease, Dbs, TypeOK
  <2>3. QED
    BY <1>2, <2>1, <2>2
<1>3. ASSUME NEW e \in Dbs, QuietEdit(e, d)
      PROVE  \/ d.peers[u].status = NoStatus
             \/ u \in PeersIn(e) /\ SameLease(e.peers[u], d.peers[u])
  <2>1. CASE d.peers = e.peers
    BY <2>1 DEF PeersIn, SameLease
  <2>2. ASSUME NEW v \in UIDs, NEW q \in PeerObject,
               d.peers = [e.peers EXCEPT ![v] = q],
               \/ q.status = NoStatus
               \/ e.peers[v] # NoPeer /\ SameLease(e.peers[v], q)
        PROVE  \/ d.peers[u].status = NoStatus
               \/ u \in PeersIn(e) /\ SameLease(e.peers[u], d.peers[u])
    <3>1. e.peers \in [UIDs -> PeerObject \cup {NoPeer}]
      BY DbsType DEF Database
    <3>2. CASE u = v
      BY <2>2, <3>1, <3>2 DEF PeersIn
    <3>3. CASE u # v
      BY <2>2, <3>1, <3>3 DEF PeersIn, SameLease
    <3>4. QED
      BY <3>2, <3>3
  <2>3. QED
    BY <1>3, <2>1, <2>2 DEF QuietEdit
<1>4. QED
  BY <1>1, <1>2, <1>3, QuietDbs

(* What a step that draws a value leaves of a peer was there before, or is  *)
(* in the copy just edited and has that value.                              *)
LEMMA DrawPeers ==
  ASSUME TypeOK, NEW a \in Actors, Renews(a) \/ Downloads(a),
         NEW d \in Dbs', NEW u \in PeersIn(d)
  PROVE  \/ \E e \in Dbs : u \in PeersIn(e) /\ SameLease(e.peers[u], d.peers[u])
         \/ /\ d = local'[a]
            /\ d.peers[u].status \in {[secret |-> drawn + 1, pub |-> NoKey],
                                      [secret |-> NoSecret, pub |-> drawn + 1]}
<1>1. CASE d \in Dbs
  BY <1>1 DEF SameLease
<1>2. CASE d = local'[a]
  <2>1. PICK v \in UIDs, q \in PeerObject :
          /\ q.status \in {[secret |-> drawn + 1, pub |-> NoKey],
                           [secret |-> NoSecret, pub |-> drawn + 1]}
          /\ d.peers = [local[a].peers EXCEPT ![v] = q]
    BY <1>2 DEF Renews, Downloads, Draws
  <2>2. local[a] \in Dbs /\ local[a].peers \in [UIDs -> PeerObject \cup {NoPeer}]
    BY DEF TypeOK, Dbs, Database
  <2>3. CASE u = v
    BY <1>2, <2>1, <2>2, <2>3
  <2>4. CASE u # v
    BY <2>1, <2>2, <2>4 DEF PeersIn, SameLease
  <2>5. QED
    BY <2>3, <2>4
<1>3. QED
  BY <1>1, <1>2, EditDbs

LEMMA StatusPastStep ==
  ASSUME TypeInv, TodoNew, StatusPast, [Next]_vars
  PROVE  StatusPast'
<1>1. drawn \in Nat /\ MaxDrawn \in Nat /\ TypeOK
  BY RegistryAssumption DEF TypeInv, TypeOK
<1>2. drawn' = drawn \/ drawn' = drawn + 1
  BY NextSorted DEF Tick, Opens, Works, Renews, Downloads, Draws, Ends, vars
<1>3. ASSUME NEW n \in Nat, Past(n)
      PROVE  Past(n)'
  BY <1>1, <1>2, <1>3 DEF Past
<1>4. Past(0)' /\ Past(drawn)'
  BY <1>1, <1>2 DEF Past
<1> SUFFICES ASSUME NEW d \in Dbs', NEW u \in PeersIn(d)
             PROVE  Past(d.peers[u].status.secret)' /\ Past(d.peers[u].status.pub)'
  BY DEF StatusPast, PeersIn
<1>5. ASSUME NEW e \in Dbs, u \in PeersIn(e), SameLease(e.peers[u], d.peers[u])
      PROVE  Past(d.peers[u].status.secret)' /\ Past(d.peers[u].status.pub)'
  <2>1. e.peers[u].status \in PeerStatus
    BY <1>1, <1>5, DbsType, PeerType DEF PeersIn
  <2>2. d.peers[u].status = e.peers[u].status
    BY <1>5 DEF SameLease
  <2>3. QED
    BY <1>3, <1>5, <2>1, <2>2 DEF StatusPast, PeerStatus
<1>6. CASE d.peers[u].status = NoStatus
  BY <1>4, <1>6 DEF NoStatus, NoSecret, NoKey
<1>7. CASE UNCHANGED vars \/ Tick
  BY <1>5, <1>7 DEF vars, Tick, Dbs, SameLease
<1>8. ASSUME NEW a \in Actors, Opens(a) \/ Works(a) \/ Ends(a)
      PROVE  \/ d.peers[u].status = NoStatus
             \/ \E e \in Dbs : u \in PeersIn(e) /\ SameLease(e.peers[u], d.peers[u])
  BY <1>1, <1>8, QuietPeers
<1>9. ASSUME NEW a \in Actors, Renews(a) \/ Downloads(a),
             d.peers[u].status \in {[secret |-> drawn + 1, pub |-> NoKey],
                                    [secret |-> NoSecret, pub |-> drawn + 1]}
      PROVE  Past(d.peers[u].status.secret)' /\ Past(d.peers[u].status.pub)'
  <2>1. drawn' = drawn + 1
    BY <1>9 DEF Renews, Downloads, Draws
  <2>2. QED
    BY <1>4, <1>9, <2>1 DEF NoSecret, NoKey
<1>10. QED
  BY <1>1, <1>5, <1>6, <1>7, <1>8, <1>9, DrawPeers, NextSorted

LEMMA OneLeaseStep ==
  ASSUME TypeInv, TodoNew, StatusPast, OneLease, [Next]_vars
  PROVE  OneLease'
<1>1. TypeOK /\ drawn \in Nat /\ MaxDrawn \in Nat
  BY RegistryAssumption DEF TypeInv, TypeOK
<1> DEFINE Old(d, u) == \E e \in Dbs : u \in PeersIn(e) /\ SameLease(e.peers[u], d.peers[u])
<1> SUFFICES ASSUME NEW d \in Dbs', NEW e \in Dbs', NEW u \in PeersIn(d) \cap PeersIn(e),
                    d.peers[u].status.pub = e.peers[u].status.pub,
                    d.peers[u].status.pub # NoKey
             PROVE  d.peers[u].createdAt = e.peers[u].createdAt
  BY DEF OneLease, PeersIn
<1>2. CASE Old(d, u) /\ Old(e, u)
  BY <1>2 DEF OneLease, SameLease
<1>3. CASE UNCHANGED vars \/ Tick
  BY <1>2, <1>3 DEF vars, Tick, Dbs, SameLease
<1>4. ASSUME NEW a \in Actors, Opens(a) \/ Works(a) \/ Ends(a)
      PROVE  Old(d, u) /\ Old(e, u)
  BY <1>1, <1>4, QuietPeers DEF NoStatus
<1>5. ASSUME NEW a \in Actors, Renews(a) \/ Downloads(a)
      PROVE  d.peers[u].createdAt = e.peers[u].createdAt
  <2>0. drawn < MaxDrawn
    BY <1>5 DEF Renews, Downloads, Draws
  <2>1. ~Past(drawn + 1)
    BY <1>1, <2>0 DEF Past
  <2>2. ASSUME NEW x \in Dbs', u \in PeersIn(x), x.peers[u].status.pub = d.peers[u].status.pub
        PROVE  \/ Old(x, u) /\ d.peers[u].status.pub # drawn + 1
               \/ x = local'[a] /\ d.peers[u].status.pub = drawn + 1
    <3>1. CASE Old(x, u)
      BY <2>1, <2>2, <3>1 DEF StatusPast, SameLease
    <3>2. CASE /\ x = local'[a]
               /\ x.peers[u].status \in {[secret |-> drawn + 1, pub |-> NoKey],
                                         [secret |-> NoSecret, pub |-> drawn + 1]}
      BY <2>2, <3>2
    <3>3. QED
      BY <1>1, <1>5, <2>2, <3>1, <3>2, DrawPeers
  <2> HIDE DEF Old
  <2>3. QED
    BY <1>2, <2>2
<1>6. QED
  BY <1>2, <1>3, <1>4, <1>5, NextSorted

DrawInv == TypeInv /\ TodoNew /\ ReplyWaits /\ StatusPast

LEMMA DrawInvariant ==
  ASSUME NewManifests, NewDraws
  PROVE  /\ Init => DrawInv /\ OneLease
         /\ DrawInv /\ [Next]_vars => DrawInv'
<1>1. ASSUME Init
      PROVE  DrawInv /\ OneLease
  <2>1. TypeInv /\ TodoNew /\ ReplyWaits
    BY <1>1, InitType DEF Init, TypeInv, Applying, TodoNew, ReplyWaits
  <2>2. \A d \in Dbs : d = InitialDB \/ d = EmptyDB
    BY <1>1 DEF Init, Dbs
  <2>3. PeersIn(EmptyDB) = {}
    BY DEF EmptyDB, PeersIn
  <2>4. StatusPast
    <3>1. ASSUME NEW n \in Nat, n \notin 1 .. MaxDrawn
          PROVE  Past(n)
      BY <1>1, <3>1, RegistryAssumption DEF Past, Init
    <3>2. \A u \in PeersIn(InitialDB) : InitialDB.peers[u].status \in PeerStatus
      BY PeerType, RegistryAssumption DEF PeersIn
    <3>3. QED
      BY <2>2, <2>3, <3>1, <3>2 DEF StatusPast, NewDraws, PeerStatus
  <2>5. OneLease
    BY <2>2, <2>3 DEF OneLease
  <2>6. QED
    BY <2>1, <2>4, <2>5 DEF DrawInv
<1>2. DrawInv /\ [Next]_vars => DrawInv'
  BY NextType, TodoNewStep, ReplyWaitsStep, StatusPastStep DEF DrawInv
<1>3. QED
  BY <1>1, <1>2

-----------------------------------------------------------------------------
(* Leases.                                                                  *)

(* RoundTime rounds to nothing what is shorter than half a second.          *)
LEMMA RoundsToNothing ==
  ASSUME NEW d \in Int, NEW r \in Nat \ {0}
  PROVE  RoundTime(d, r) <= 0 <=> 2 * d < r
<1> DEFINE abs == IF d < 0 THEN -d ELSE d
           m == abs % r
           rounded == IF m + m < r THEN abs - m ELSE abs + r - m
<1>1. abs \in Nat /\ (d < 0 => abs = -d) /\ (~(d < 0) => abs = d)
  OBVIOUS
<1>2. RoundTime(d, r) = IF d < 0 THEN -rounded ELSE rounded
  BY DEF RoundTime
<1> HIDE DEF abs
<1>3. m \in 0 .. r - 1 /\ m <= abs /\ (abs < r => m = abs)
  BY <1>1
<1> HIDE DEF m
<1>4. /\ rounded \in Nat
      /\ m + m < r => rounded = abs - m
      /\ ~(m + m < r) => rounded = abs + r - m
  BY <1>1, <1>3
<1> HIDE DEF rounded
<1>5. QED
  BY <1>1, <1>2, <1>3, <1>4

(* A lease that has run out has run out later, too.                         *)
LEMMA ExpiredLater ==
  ASSUME NEW p \in PeerObject, NEW q \in PeerObject,
         NEW s \in Nat, NEW t \in Nat, s <= t,
         p.spec.action = ResetOnExpire, q.spec = p.spec,
         q.status.pub = p.status.pub, q.createdAt = p.createdAt,
         GetStatus(p, s) = "expired"
  PROVE  GetStatus(q, t) = "expired"
<1> DEFINE Rest(x) == p.spec.duration - (x - p.createdAt)
<1>1. /\ p.spec.duration \in Nat /\ p.createdAt \in Nat
      /\ Resolution \in Nat \ {0} /\ ZeroTime < 0
  BY TimeAssumption DEF PeerObject, PeerSpec
<1>2. /\ ~p.spec.blocked /\ GetPublicKey(p) # NoKey /\ p.spec.persistent = NoKey
      /\ IsExpired(p, s)
  BY DEF GetStatus
<1>3. GetPublicKey(q) = GetPublicKey(p)
  BY DEF GetPublicKey
<1>4. LeaseStart(p) = p.createdAt /\ LeaseStart(q) = p.createdAt
  BY DEF LeaseStart, ResetOnExpire, BlockOnExpire
<1>5. ~Overflows(p) /\ ~Overflows(q)
  BY <1>1, <1>4, TimeAssumption DEF Overflows
<1>6. /\ GetExpirationDuration(p, s) = RoundTime(Rest(s), Resolution)
      /\ GetExpirationDuration(q, t) = RoundTime(Rest(t), Resolution)
  BY <1>2, <1>3, <1>4, <1>5 DEF GetExpirationDuration
<1>7. Rest(s) \in Int /\ Rest(t) \in Int /\ Rest(t) <= Rest(s)
  BY <1>1
<1>8. 2 * Rest(s) < Resolution
  BY <1>1, <1>2, <1>6, <1>7, RoundsToNothing DEF IsExpired
<1>9. 2 * Rest(t) < Resolution
  <2> HIDE DEF Rest
  <2>1. QED
    BY <1>1, <1>7, <1>8
<1>10. IsExpired(q, t)
  BY <1>1, <1>6, <1>7, <1>9, RoundsToNothing DEF IsExpired
<1>11. QED
  BY <1>2, <1>3, <1>10 DEF GetStatus, ResetOnExpire, NeverExpire

(* If manifests carry no status and random values are new, a key of a       *)
(* "reset" peer that has expired in the object never counts as active       *)
(* again: every version of the peer with that key, however stale, has the   *)
(* same start of the lease.                                                 *)
THEOREM ExpiredIsFinal == NewManifests /\ NewDraws => (Spec => ExpiredStaysExpired)
<1> SUFFICES ASSUME NewManifests, NewDraws
             PROVE  Spec => ExpiredStaysExpired
  OBVIOUS
<1> DEFINE IInv == DrawInv /\ OneLease
<1>1. Init => IInv
  BY DrawInvariant
<1>2. IInv /\ [Next]_vars => IInv'
  BY DrawInvariant, OneLeaseStep DEF DrawInv
<1>3. ASSUME IInv, [Next]_vars,
             NEW u \in PeersIn(remote), u \in PeersIn(remote'),
             GetStatus(remote.peers[u], now) = "expired",
             remote.peers[u].spec.action = ResetOnExpire,
             remote'.peers[u].status.pub = remote.peers[u].status.pub,
             remote'.peers[u].spec = remote.peers[u].spec
      PROVE  GetStatus(remote'.peers[u], now') = "expired"
  <2> DEFINE p == remote.peers[u]
             q == remote'.peers[u]
  <2>1. TypeOK /\ TypeOK'
    BY <1>3, NextType DEF DrawInv, TypeInv
  <2>2. p \in PeerObject /\ q \in PeerObject
    BY <1>3, <2>1, PeerType DEF PeersIn, TypeOK
  <2>3. now \in Nat /\ now' \in Nat /\ now <= now'
    <3>1. now \in Nat
      BY <2>1, RegistryAssumption DEF TypeOK
    <3>2. now' = now \/ now' = now + 1
      BY <1>3, NextSorted
      DEF DrawInv, Tick, Opens, Works, Renews, Downloads, Draws, Commit, Ends, vars
    <3>3. QED
      BY <3>1, <3>2
  <2>4. remote' \in Dbs
    BY <1>3, NextSorted, <2>1
    DEF DrawInv, Dbs, Tick, Opens, Works, Renews, Downloads, Draws, Commit, Ends, vars
  <2>5. p.status.pub # NoKey
    BY <1>3 DEF GetStatus, GetPublicKey
  <2>6. q.createdAt = p.createdAt
    BY <1>3, <2>4, <2>5 DEF OneLease, Dbs
  <2> HIDE DEF p, q
  <2>7. QED
    BY <1>3, <2>2, <2>3, <2>6, ExpiredLater DEF p, q
<1>4. IInv /\ [Next]_vars =>
        [\A u \in PeersIn(remote) \cap PeersIn(remote)' :
           LET p == remote.peers[u]
               q == remote'.peers[u]
           IN /\ GetStatus(p, now) = "expired"
              /\ p.spec.action = ResetOnExpire
              /\ q.status.pub = p.status.pub
              /\ q.spec = p.spec
              => GetStatus(q, now') = "expired"]_vars
  BY <1>3 DEF PeersIn
<1> HIDE DEF IInv
<1>5. QED
  BY <1>1, <1>2, <1>4, PTL DEF Spec, ExpiredStaysExpired

-----------------------------------------------------------------------------
(* One slot.                                                                *)

Secret(db, u) == db.peers[u].status.secret

(* Working on a copy keeps the link of every peer but one, which loses its  *)
(* own or gets a new one.                                                   *)
LEMMA OneChanges ==
  ASSUME TypeOK, TodoNew, NEW a \in Actors, Works(a) \/ Renews(a) \/ Downloads(a)
  PROVE  \E v : \A u \in PeersIn(local'[a]) :
           \/ u \in PeersIn(local[a]) /\ Secret(local'[a], u) = Secret(local[a], u)
           \/ Secret(local'[a], u) = NoSecret
           \/ u = v /\ Secret(local'[a], u) = drawn + 1 /\ drawn' = drawn + 1
<1>1. local[a].peers \in [UIDs -> PeerObject \cup {NoPeer}]
  BY DEF TypeOK, Database
<1>2. CASE local'[a].peers = local[a].peers
  BY <1>2 DEF PeersIn, Secret
<1>3. ASSUME NEW v \in UIDs, NEW q \in PeerObject,
             local'[a].peers = [local[a].peers EXCEPT ![v] = q],
             \/ q.status = NoStatus
             \/ local[a].peers[v] # NoPeer /\ SameLease(local[a].peers[v], q)
             \/ q.status.secret = NoSecret
             \/ q.status.secret = drawn + 1 /\ drawn' = drawn + 1
      PROVE  \A u \in PeersIn(local'[a]) :
               \/ u \in PeersIn(local[a]) /\ Secret(local'[a], u) = Secret(local[a], u)
               \/ Secret(local'[a], u) = NoSecret
               \/ u = v /\ Secret(local'[a], u) = drawn + 1 /\ drawn' = drawn + 1
  BY <1>1, <1>3 DEF PeersIn, Secret, SameLease, NoStatus
<1>4. CASE Works(a)
  <2>1. QuietEdit(local[a], local'[a])
    BY <1>4 DEF Works
  <2>2. CASE \E v \in UIDs, q \in PeerObject :
               /\ local'[a].peers = [local[a].peers EXCEPT ![v] = q]
               /\ \/ q.status = NoStatus
                  \/ local[a].peers[v] # NoPeer /\ SameLease(local[a].peers[v], q)
    <3>1. PICK v \in UIDs, q \in PeerObject :
            /\ local'[a].peers = [local[a].peers EXCEPT ![v] = q]
            /\ \/ q.status = NoStatus
               \/ local[a].peers[v] # NoPeer /\ SameLease(local[a].peers[v], q)
      BY <2>2
    <3>2. QED
      BY <1>3, <3>1
  <2>3. QED
    BY <1>2, <2>1, <2>2 DEF QuietEdit
<1>5. CASE Renews(a)
  <2>1. PICK v \in UIDs, q \in PeerObject :
          /\ q.status = [secret |-> drawn + 1, pub |-> NoKey]
          /\ drawn' = drawn + 1
          /\ local'[a].peers = [local[a].peers EXCEPT ![v] = q]
    BY <1>5 DEF Renews, Draws
  <2>2. QED
    BY <1>3, <2>1
<1>6. CASE Downloads(a)
  <2>1. PICK v \in UIDs, q \in PeerObject :
          /\ q.status = [secret |-> NoSecret, pub |-> drawn + 1]
          /\ local'[a].peers = [local[a].peers EXCEPT ![v] = q]
    BY <1>6 DEF Downloads, Draws
  <2>2. QED
    BY <1>3, <2>1
<1>7. QED
  BY <1>4, <1>5, <1>6

(* A download takes its link from the only peer of the copy that has it.    *)
LEMMA DownloadSpends ==
  ASSUME TypeOK, SecretsOnce, LinksDrawn, NEW a \in Actors, Downloads(a)
  PROVE  \E c \in Config :
           /\ reply' = [reply EXCEPT ![a] = [links |-> {}, configs |-> {c}]]
           /\ c.link \in links
           /\ c.uid \in PeersIn(local[a]) /\ Secret(local[a], c.uid) = c.link
           /\ ~local[a].peers[c.uid].spec.blocked
           /\ \A u \in PeersIn(local'[a]) : Secret(local'[a], u) # c.link
<1>1. PICK v \in UIDs, q \in PeerObject, link \in links :
        /\ ~local[a].peers[v].spec.blocked /\ Secret(local[a], v) = link
        /\ q.status = [secret |-> NoSecret, pub |-> drawn + 1]
        /\ Draws(a, v, q, [links |-> {},
                           configs |-> {[link |-> link, uid |-> v, key |-> drawn + 1]}])
  BY DEF Downloads, Secret
<1> DEFINE c == [link |-> link, uid |-> v, key |-> drawn + 1]
<1>2. link \in 1 .. drawn /\ link \in Nat /\ drawn + 1 \in Nat
  <2>1. link \in 1 .. drawn
    BY DEF LinksDrawn
  <2>2. QED
    BY <2>1, RegistryAssumption DEF TypeOK
<1>3. c \in Config /\ c.link = link /\ c.uid = v
  BY <1>2 DEF Config
<1>4. /\ local[a].peers \in [UIDs -> PeerObject \cup {NoPeer}]
      /\ v \in PeersIn(local[a]) /\ local[a] \in Dbs
      /\ local'[a].peers = [local[a].peers EXCEPT ![v] = q]
      /\ reply' = [reply EXCEPT ![a] = [links |-> {}, configs |-> {c}]]
  BY <1>1 DEF TypeOK, Database, Draws, Commit, PeersIn, Dbs
<1> HIDE DEF c
<1>5. ASSUME NEW u \in PeersIn(local'[a])
      PROVE  Secret(local'[a], u) # link
  <2>1. CASE u = v
    BY <1>1, <1>2, <1>4, <2>1 DEF Secret, NoSecret
  <2>2. CASE u # v
    <3>1. u \in PeersIn(local[a]) /\ local'[a].peers[u] = local[a].peers[u]
      BY <1>4, <2>2 DEF PeersIn
    <3>2. QED
      BY <1>1, <1>2, <1>4, <2>2, <3>1 DEF SecretsOnce, Secret
  <2>3. QED
    BY <2>1, <2>2
<1>6. QED
  BY <1>1, <1>3, <1>4, <1>5

LEMMA SecretsOnceStep ==
  ASSUME DrawInv, SecretsOnce, [Next]_vars
  PROVE  SecretsOnce'
<1>1. TypeOK /\ TodoNew /\ drawn \in Nat
  BY DEF DrawInv, TypeInv, TypeOK
<1> SUFFICES ASSUME NEW d \in Dbs', NEW u \in PeersIn(d), NEW v \in PeersIn(d),
                    Secret(d, u) = Secret(d, v), Secret(d, u) \in 1 .. drawn'
             PROVE  u = v
  BY DEF SecretsOnce, Secret, PeersIn
<1>2. ASSUME drawn' = drawn, d \in Dbs
      PROVE  u = v
  BY <1>2 DEF SecretsOnce, Secret
<1>3. d # EmptyDB
  BY DEF EmptyDB, PeersIn
<1>4. CASE UNCHANGED vars \/ Tick
  BY <1>2, <1>4 DEF vars, Tick, Dbs
<1>5. ASSUME NEW a \in Actors, Opens(a) \/ Ends(a)
      PROVE  u = v
  <2>1. drawn' = drawn
    BY <1>5 DEF Opens, Ends
  <2>2. d \in Dbs \cup {EmptyDB} \cup Torn(remote)
    BY <1>1, <1>5 DEF TypeOK, Opens, Ends, ToIdle, Dbs
  <2>3. CASE d \in Torn(remote)
    <3>1. /\ remote \in Dbs
          /\ \A x \in {u, v} : x \in PeersIn(remote) /\ Secret(remote, x) = Secret(d, x)
      BY <1>1, <2>3, TornCopy DEF TypeOK, Dbs, Secret
    <3>2. QED
      BY <2>1, <3>1 DEF SecretsOnce, Secret
  <2>4. QED
    BY <1>2, <1>3, <2>1, <2>2, <2>3
<1>6. ASSUME NEW a \in Actors, Works(a) \/ Renews(a) \/ Downloads(a)
      PROVE  u = v
  <2>1. /\ drawn' \in Nat
        /\ \/ drawn' = drawn
           \/ drawn' = drawn + 1 /\ drawn < MaxDrawn
    <3>1. drawn' = drawn \/ drawn' = drawn + 1
      BY <1>6 DEF Works, Renews, Downloads, Draws
    <3>2. drawn' <= MaxDrawn
      BY NextType, RegistryAssumption DEF DrawInv, TypeInv, TypeOK
    <3>3. QED
      BY <1>1, <3>1, <3>2, RegistryAssumption
  <2>2. ASSUME NEW e \in Dbs, NEW x \in PeersIn(e), Secret(e, x) \in 1 .. drawn'
        PROVE  Secret(e, x) \in 1 .. drawn
    <3>1. Past(Secret(e, x))
      BY DEF DrawInv, StatusPast, Secret
    <3>2. QED
      BY <1>1, <2>1, <2>2, <3>1, RegistryAssumption DEF Past
  <2>3. CASE d \in Dbs
    BY <2>2, <2>3 DEF SecretsOnce, Secret
  <2>4. CASE d = local'[a]
    <3>1. local[a] \in Dbs
      BY DEF Dbs
    <3>2. PICK w : \A x \in PeersIn(d) :
            \/ x \in PeersIn(local[a]) /\ Secret(d, x) = Secret(local[a], x)
            \/ Secret(d, x) = NoSecret
            \/ x = w /\ Secret(d, x) = drawn + 1 /\ drawn' = drawn + 1
      BY <1>1, <1>6, <2>4, OneChanges
    <3>3. \A x \in {u, v} : \/ x \in PeersIn(local[a]) /\ Secret(d, x) = Secret(local[a], x)
                            \/ x = w /\ Secret(d, x) = drawn + 1
      BY <3>2, <2>1 DEF NoSecret
    <3>4. \A x \in {u, v} : x \in PeersIn(local[a]) /\ Secret(d, x) = Secret(local[a], x)
                              => Secret(d, x) \in 1 .. drawn
      BY <2>2, <3>1
    <3>5. drawn + 1 \notin 1 .. drawn
      BY <1>1
    <3>6. QED
      BY <3>1, <3>3, <3>4, <3>5 DEF SecretsOnce, Secret
  <2>5. QED
    BY <1>1, <1>6, <2>3, <2>4, EditDbs
<1>7. QED
  BY <1>4, <1>5, <1>6, NextSorted DEF DrawInv

LEMMA QuietReply ==
  ASSUME TypeOK, ReplyWaits, NEW a \in Actors, Opens(a) \/ Works(a)
  PROVE  /\ reply[a] = NoReply /\ reply' = reply
         /\ \A b \in Actors \ {a} : local'[b] = local[b]
<1>1. reply[a] = NoReply
  BY DEF Opens, Works, ReplyWaits
<1>2. reply' = reply
  BY <1>1 DEF Opens, Works, TypeOK
<1>3. \A b \in Actors \ {a} : local'[b] = local[b]
  BY DEF Opens, Works, TypeOK
<1>4. QED
  BY <1>1, <1>2, <1>3

(* Links and configs, handed out or waiting, carry values that were drawn.  *)
LEMMA DrawnStep ==
  ASSUME DrawInv, SecretsOnce, LinksDrawn, ConfigsDrawn, [Next]_vars
  PROVE  LinksDrawn' /\ ConfigsDrawn'
<1>1. TypeOK /\ ReplyWaits /\ drawn \in Nat
  BY DEF DrawInv, TypeInv, TypeOK
<1>2. drawn' = drawn \/ drawn' = drawn + 1
  BY NextSorted DEF DrawInv, Tick, Opens, Works, Renews, Downloads, Draws, Ends, vars
<1>3. 1 .. drawn \subseteq 1 .. drawn'
  BY <1>1, <1>2
<1>4. ASSUME links' = links, configs' = configs, reply' = reply
      PROVE  LinksDrawn' /\ ConfigsDrawn'
  BY <1>3, <1>4 DEF LinksDrawn, ConfigsDrawn
<1>5. CASE UNCHANGED vars \/ Tick
  BY <1>4, <1>5 DEF vars, Tick
<1>6. ASSUME NEW a \in Actors, Opens(a) \/ Works(a)
      PROVE  LinksDrawn' /\ ConfigsDrawn'
  BY <1>1, <1>4, <1>6, QuietReply DEF Opens, Works
<1>7. ASSUME NEW a \in Actors, NEW r,
             reply' = [reply EXCEPT ![a] = r], links' = links, configs' = configs,
             r.links \subseteq 1 .. drawn', \A c \in r.configs : c.link \in 1 .. drawn'
      PROVE  LinksDrawn' /\ ConfigsDrawn'
  BY <1>1, <1>3, <1>7 DEF LinksDrawn, ConfigsDrawn, TypeOK
<1>8. ASSUME NEW a \in Actors, Renews(a)
      PROVE  LinksDrawn' /\ ConfigsDrawn'
  <2> DEFINE r == [links |-> {drawn + 1}, configs |-> {}]
  <2>1. /\ reply' = [reply EXCEPT ![a] = r]
        /\ links' = links /\ configs' = configs /\ drawn' = drawn + 1
    BY <1>8 DEF Renews, Draws, Commit
  <2>2. r.links \subseteq 1 .. drawn' /\ r.configs = {}
    BY <1>1, <2>1
  <2> HIDE DEF r
  <2>3. QED
    BY <1>7, <2>1, <2>2
<1>9. ASSUME NEW a \in Actors, Downloads(a)
      PROVE  LinksDrawn' /\ ConfigsDrawn'
  <2>1. PICK c : /\ reply' = [reply EXCEPT ![a] = [links |-> {}, configs |-> {c}]]
                 /\ c.link \in links
    BY <1>1, <1>9, DownloadSpends
  <2>2. links' = links /\ configs' = configs
    BY <1>9 DEF Downloads, Draws, Commit
  <2>3. c.link \in 1 .. drawn'
    BY <1>3, <1>9, <2>1 DEF LinksDrawn
  <2> DEFINE r == [links |-> {}, configs |-> {c}]
  <2>4. /\ reply' = [reply EXCEPT ![a] = r]
        /\ r.links \subseteq 1 .. drawn' /\ \A d \in r.configs : d.link \in 1 .. drawn'
    BY <2>1, <2>3
  <2> HIDE DEF r
  <2>5. QED
    BY <1>7, <2>2, <2>4
<1>10. ASSUME NEW a \in Actors, Ends(a)
       PROVE  LinksDrawn' /\ ConfigsDrawn'
  <2>1. /\ links' \subseteq links \cup reply[a].links
        /\ configs' \subseteq configs \cup reply[a].configs
    BY <1>10 DEF Ends
  <2>2. \A b \in Actors : reply'[b] = IF b = a THEN NoReply ELSE reply[b]
    BY <1>1, <1>10 DEF Ends, ToIdle, TypeOK
  <2>3. NoReply.links = {} /\ NoReply.configs = {}
    BY DEF NoReply
  <2>4. QED
    BY <1>3, <1>10, <2>1, <2>2, <2>3 DEF LinksDrawn, ConfigsDrawn
<1>11. QED
  BY <1>5, <1>6, <1>8, <1>9, <1>10, NextSorted DEF DrawInv

(* No link comes back once a config was handed out for it: with one slot    *)
(* there is no other copy that still has it.                                *)
LEMMA SpentIsGoneStep ==
  ASSUME OneAtATime, DrawInv, ConfigsDrawn, SpentIsGone, WaitingIsFirst, [Next]_vars
  PROVE  SpentIsGone'
<1>1. TypeOK /\ TodoNew /\ drawn \in Nat
  BY DEF DrawInv, TypeInv, TypeOK
<1> SUFFICES ASSUME NEW c \in configs', NEW d \in Dbs', NEW u \in PeersIn(d)
             PROVE  Secret(d, u) # c.link
  BY DEF SpentIsGone, Secret, PeersIn
<1>2. d # EmptyDB
  BY DEF EmptyDB, PeersIn
<1>3. CASE c \in configs /\ d \in Dbs
  BY <1>3 DEF SpentIsGone, Secret
<1>4. CASE UNCHANGED vars \/ Tick
  BY <1>3, <1>4 DEF vars, Tick, Dbs
<1>5. ASSUME NEW a \in Actors, Opens(a)
      PROVE  Secret(d, u) # c.link
  <2>1. c \in configs /\ d \in Dbs \cup Torn(remote)
    BY <1>1, <1>5 DEF Opens, TypeOK, Dbs
  <2>2. CASE d \in Torn(remote)
    <3>1. remote \in Dbs /\ u \in PeersIn(remote) /\ Secret(remote, u) = Secret(d, u)
      BY <1>1, <2>2, TornCopy DEF TypeOK, Dbs, Secret
    <3>2. QED
      BY <2>1, <3>1 DEF SpentIsGone, Secret
  <2>3. QED
    BY <1>3, <2>1, <2>2
<1>6. ASSUME NEW a \in Actors, Works(a) \/ Renews(a) \/ Downloads(a)
      PROVE  Secret(d, u) # c.link
  <2>1. c \in configs /\ c.link \in 1 .. drawn
    BY <1>6 DEF Works, Renews, Downloads, Draws, Commit, ConfigsDrawn
  <2>2. CASE d = local'[a]
    <3>1. \/ u \in PeersIn(local[a]) /\ Secret(d, u) = Secret(local[a], u)
          \/ Secret(d, u) \in {NoSecret, drawn + 1}
      BY <1>1, <1>6, <2>2, OneChanges
    <3>2. NoSecret # c.link /\ drawn + 1 # c.link
      BY <1>1, <2>1 DEF NoSecret
    <3>3. QED
      BY <2>1, <3>1, <3>2 DEF SpentIsGone, Secret, Dbs
  <2>3. QED
    BY <1>1, <1>3, <1>6, <2>1, <2>2, EditDbs
<1>7. ASSUME NEW a \in Actors, Ends(a)
      PROVE  Secret(d, u) # c.link
  <2>1. \A b \in Actors : local'[b] = EmptyDB
    BY <1>1, <1>7 DEF OneAtATime, Ends, ToIdle, TypeOK
  <2>2. d = remote'
    BY <1>2, <2>1 DEF Dbs
  <2>3. CASE c \in configs
    BY <1>3, <1>7, <2>2, <2>3 DEF Ends, Dbs
  <2>4. CASE c \notin configs
    <3>1. c \in reply[a].configs /\ d = local[a]
      BY <1>7, <2>2, <2>4 DEF Ends
    <3>2. QED
      BY <3>1 DEF WaitingIsFirst, Secret
  <2>5. QED
    BY <2>3, <2>4
<1>8. QED
  BY <1>3, <1>4, <1>5, <1>6, <1>7, NextSorted DEF DrawInv

LEMMA WaitingIsFirstStep ==
  ASSUME OneAtATime, DrawInv, SecretsOnce, LinksDrawn, SpentIsGone, WaitingIsFirst,
         OneConfigPerLink, [Next]_vars
  PROVE  WaitingIsFirst' /\ OneConfigPerLink'
<1>1. TypeOK /\ ReplyWaits
  BY DEF DrawInv, TypeInv
<1>2. ASSUME configs' = configs
      PROVE  OneConfigPerLink'
  BY <1>2 DEF OneConfigPerLink
<1>3. ASSUME NEW a \in Actors, reply'[a].configs = {}
      PROVE  WaitingIsFirst'
  BY <1>3 DEF OneAtATime, WaitingIsFirst
<1>4. CASE UNCHANGED vars \/ Tick
  BY <1>2, <1>4 DEF vars, Tick, WaitingIsFirst, PeersIn
<1>5. ASSUME NEW a \in Actors, Opens(a) \/ Works(a)
      PROVE  WaitingIsFirst' /\ OneConfigPerLink'
  <2>1. configs' = configs
    BY <1>5 DEF Opens, Works
  <2>2. reply'[a].configs = {}
    BY <1>1, <1>5, QuietReply DEF NoReply
  <2>3. QED
    BY <1>2, <1>3, <2>1, <2>2
<1>6. ASSUME NEW a \in Actors, Renews(a)
      PROVE  WaitingIsFirst' /\ OneConfigPerLink'
  <2>1. /\ configs' = configs
        /\ reply' = [reply EXCEPT ![a] = [links |-> {drawn + 1}, configs |-> {}]]
    BY <1>6 DEF Renews, Draws, Commit
  <2>2. reply'[a].configs = {}
    BY <1>1, <2>1 DEF TypeOK
  <2>3. QED
    BY <1>2, <1>3, <2>1, <2>2
<1>7. ASSUME NEW a \in Actors, Downloads(a)
      PROVE  WaitingIsFirst' /\ OneConfigPerLink'
  <2>1. PICK c : /\ reply' = [reply EXCEPT ![a] = [links |-> {}, configs |-> {c}]]
                 /\ c.uid \in PeersIn(local[a]) /\ Secret(local[a], c.uid) = c.link
                 /\ \A u \in PeersIn(local'[a]) : Secret(local'[a], u) # c.link
    BY <1>1, <1>7, DownloadSpends
  <2>2. configs' = configs
    BY <1>7 DEF Downloads, Draws, Commit
  <2>3. reply'[a].configs = {c}
    BY <1>1, <2>1 DEF TypeOK
  <2>4. \A d \in configs : c.link # d.link
    BY <2>1 DEF SpentIsGone, Secret, Dbs
  <2>5. WaitingIsFirst'
    BY <2>1, <2>2, <2>3, <2>4 DEF OneAtATime, WaitingIsFirst, Secret, PeersIn
  <2>6. QED
    BY <1>2, <2>2, <2>5
<1>8. ASSUME NEW a \in Actors, Ends(a)
      PROVE  WaitingIsFirst' /\ OneConfigPerLink'
  <2>1. reply'[a].configs = {}
    BY <1>1, <1>8 DEF Ends, ToIdle, TypeOK, NoReply
  <2>2. configs' \subseteq configs \cup reply[a].configs
    BY <1>8 DEF Ends
  <2>3. OneConfigPerLink'
    BY <2>2 DEF OneConfigPerLink, WaitingIsFirst
  <2>4. QED
    BY <1>3, <2>1, <2>3
<1>9. QED
  BY <1>4, <1>5, <1>6, <1>7, <1>8, NextSorted DEF DrawInv

(* If requests and commands come one after the other, manifests carry no    *)
(* status and random values are new, then a link buys one config: also when *)
(* an upload fails, takes effect without an answer, or replaces the object  *)
(* by what a torn download left of it.                                      *)
THEOREM LinkBuysOneConfig ==
  NewManifests /\ NewDraws /\ OneAtATime => (Spec => []OneConfigPerLink)
<1> SUFFICES ASSUME NewManifests, NewDraws, OneAtATime
             PROVE  Spec => []OneConfigPerLink
  OBVIOUS
<1> DEFINE IInv == /\ DrawInv /\ SecretsOnce /\ LinksDrawn /\ ConfigsDrawn
                   /\ SpentIsGone /\ WaitingIsFirst /\ OneConfigPerLink
<1>1. Init => IInv
  <2> SUFFICES ASSUME Init
               PROVE  /\ SecretsOnce /\ LinksDrawn /\ ConfigsDrawn
                      /\ SpentIsGone /\ WaitingIsFirst /\ OneConfigPerLink
    BY DrawInvariant
  <2>1. links = {} /\ configs = {} /\ drawn = 0 /\ \A a \in Actors : reply[a] = NoReply
    BY DEF Init
  <2>2. NoReply.links = {} /\ NoReply.configs = {}
    BY DEF NoReply
  <2>3. \A n : n \notin 1 .. drawn
    BY <2>1
  <2>4. SecretsOnce
    BY <2>3 DEF SecretsOnce
  <2>5. QED
    BY <2>1, <2>2, <2>4
    DEF LinksDrawn, ConfigsDrawn, SpentIsGone, WaitingIsFirst, OneConfigPerLink
<1>2. IInv /\ [Next]_vars => IInv'
  BY DrawInvariant, SecretsOnceStep, DrawnStep, SpentIsGoneStep, WaitingIsFirstStep
<1>3. IInv => OneConfigPerLink
  OBVIOUS
<1> HIDE DEF IInv
<1>4. QED
  BY <1>1, <1>2, <1>3, PTL DEF Spec
=============================================================================
