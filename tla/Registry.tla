------------------------------ MODULE Registry ------------------------------
(***************************************************************************)
(* The shared registry of servers and peers, and everybody who edits it.    *)
(*                                                                          *)
(* The whole database is one object in a GCS bucket.  A command of the CLI, *)
(* like a request to the web application, downloads the object into a local *)
(* file (FetchFromGCS), reads and edits that copy, and uploads the copy     *)
(* (SyncRemote).  Nothing is checked when uploading: the last writer wins.  *)
(* Admins are concurrent invocations of the CLI, handlers are concurrent    *)
(* requests to /peers/; a name in both sets is a slot that runs either, one *)
(* at a time.  Each slot has a local file of its own.                       *)
(*                                                                          *)
(* A step that fails a check of the code has no successor here: the slot    *)
(* can then only Abandon, which discards the copy as an early return, a     *)
(* failed upload or a killed process does.                                  *)
(***************************************************************************)
EXTENDS Peer, Sequences

CONSTANTS
  Servers, Users,     \* a peer is named <<server, e-mail of its user>>
  Admins, Handlers,   \* slots for CLI commands and for web requests
  Networks,           \* the values of --address: a server address and its hosts
  AdminKeys,          \* public keys an administrator may type in
  Manifests,          \* the files "peer apply -f" is given, sorted by UID
  Shadows,            \* Shadows[s]: servers whose keys sort before those of s
                      \* although they extend its name, as "vpn-a" does "vpn"
  DefaultDuration,    \* the 24h every "peer add" stores
  SecretLife,         \* the 15 minutes a download link lives
  NoPeer, NoServer,   \* absence of a key in the database
  InitialDB,          \* the object in the bucket at the start
  MaxTime, MaxDrawn   \* bounds: clock ticks and random values drawn

UIDs == Servers \X Users
Actors == Admins \cup Handlers
Database == [servers : [Servers -> Networks \cup {NoServer}],
             peers : [UIDs -> PeerObject \cup {NoPeer}]]
EmptyDB == [servers |-> [s \in Servers |-> NoServer],
            peers |-> [u \in UIDs |-> NoPeer]]
PeersIn(db) == {u \in UIDs : db.peers[u] # NoPeer}

(* What opens of an object whose download broke off midway: the keys of the *)
(* pages that came.  Any of the others may be missing.                      *)
Part(db, ss, us) ==
  [servers |-> [s \in Servers |-> IF s \in ss THEN db.servers[s] ELSE NoServer],
   peers |-> [u \in UIDs |-> IF u \in us THEN db.peers[u] ELSE NoPeer]]
Torn(db) == {Part(db, ss, us) : ss \in SUBSET Servers, us \in SUBSET UIDs}
ManifestEntry == [uid : UIDs, spec : PeerSpec, status : PeerStatus]

(* What a request shows to the outside once its upload has succeeded: the   *)
(* link of a redirect, or a client config made for a link.                  *)
Config == [link : Nat, uid : UIDs, key : Nat]
Reply == [links : SUBSET Nat, configs : SUBSET Config]
NoReply == [links |-> {}, configs |-> {}]

ASSUME RegistryAssumption ==
  /\ Networks \subseteq [address : Addresses, hosts : SUBSET Addresses]
  /\ NoServer \notin Networks /\ NoPeer \notin PeerObject \cup Database
  /\ AdminKeys \subseteq Nat \ {NoKey}
  /\ Manifests \subseteq Seq(ManifestEntry)
  /\ Shadows \in [Servers -> SUBSET Servers]
  /\ DefaultDuration \in Durations /\ SecretLife \in Nat
  /\ InitialDB \in Database
  /\ MaxTime \in Nat /\ MaxDrawn \in Nat

AddressesUnique(db) ==
  \A u, v \in PeersIn(db) :
    u # v /\ u[1] = v[1] => db.peers[u].spec.ip # db.peers[v].spec.ip

ExclusiveStatus(status) == status.secret # NoSecret => status.pub = NoKey

LinksExcludeKeys(db) == \A u \in PeersIn(db) : ExclusiveStatus(db.peers[u].status)

(* The object at the start is one the commands could have made, and         *)
(* manifests carry no status but one that "peer get -o yaml" printed.       *)
ASSUME InputAssumption ==
  /\ AddressesUnique(InitialDB)
  /\ LinksExcludeKeys(InitialDB)
  /\ \A manifest \in Manifests : \A j \in 1 .. Len(manifest) :
       ExclusiveStatus(manifest[j].status)

VARIABLES
  remote,    \* the database object in the bucket
  now,       \* the clock every process reads
  drawn,     \* random values drawn so far: secrets and private keys
  pc,        \* where each slot is in its command
  local,     \* each slot's copy of the database
  todo,      \* entries a "peer apply" has still to process
  reply,     \* what each slot will show when its upload succeeds
  links,     \* history: the download links handed to users
  configs    \* history: the client configs handed to users

vars == <<remote, now, drawn, pc, local, todo, reply, links, configs>>

Init ==
  /\ remote = InitialDB
  /\ now = 0
  /\ drawn = 0
  /\ pc = [a \in Actors |-> "idle"]
  /\ local = [a \in Actors |-> EmptyDB]
  /\ todo = [a \in Actors |-> <<>>]
  /\ reply = [a \in Actors |-> NoReply]
  /\ links = {}
  /\ configs = {}

-----------------------------------------------------------------------------
(* Reading a database.  Here and below, an operator commented "Slip" is not *)
(* part of the model: it is the operator after it with a mistake that the   *)
(* code could well have, and shows that a property notices it.              *)

(* The cursor walks the keys that start with "/peers/<s>" and stops at the  *)
(* first one without "<s>/": one key of a shadowing server hides them all.  *)
ListByServer(db, s) ==
  IF \E u \in PeersIn(db) : u[1] \in Shadows[s]
    THEN {}
    ELSE {u \in PeersIn(db) : u[1] = s}

(* The addresses buildIPMap leaves for new peers of s.                      *)
Available(db, s) ==
  db.servers[s].hosts
    \ ({db.servers[s].address}
         \cup {db.peers[u].spec.ip : u \in ListByServer(db, s)})

(* Slip: a timestamp that does not parse reads as the zero time.            *)
WithUnparsedStamp(db, u, p) ==
  [db EXCEPT !.peers = [@ EXCEPT ![u] = [p EXCEPT !.updatedAt = ZeroTime]]]

(* Peer().Update: stamps the object and stores it under its UID.            *)
WithPeer(db, u, p) ==
  [db EXCEPT !.peers = [@ EXCEPT ![u] = [p EXCEPT !.updatedAt = now]]]

-----------------------------------------------------------------------------
(* The frame of every command: fetch, edit the copy, upload.                *)

Fetch(a) ==
  /\ pc[a] = "idle"
  /\ pc' = [pc EXCEPT ![a] = "opened"]
  /\ local' = [local EXCEPT ![a] = remote]
  /\ UNCHANGED <<remote, now, drawn, todo, reply, links, configs>>

(* ReadAll fails midway, its error is overwritten by that of os.Create, and *)
(* bolt opens what came; an empty file it initialises as a new database.    *)
(* A command that needs a page that did not come dies of it: Abandon.       *)
FetchTorn(a) ==
  /\ pc[a] = "idle"
  /\ pc' = [pc EXCEPT ![a] = "opened"]
  /\ local' \in {[local EXCEPT ![a] = db] : db \in Torn(remote)}
  /\ UNCHANGED <<remote, now, drawn, todo, reply, links, configs>>

(* Slip: the object is edited, and not the copy alone.                      *)
CommitRemote(a, db, r) ==
  /\ pc[a] = "opened"
  /\ pc' = [pc EXCEPT ![a] = "syncing"]
  /\ local' = [local EXCEPT ![a] = db]
  /\ remote' = db
  /\ reply' = [reply EXCEPT ![a] = r]
  /\ UNCHANGED <<now, todo, links, configs>>

(* The command is done with its copy db and goes on to SyncRemote.          *)
Commit(a, db, r) ==
  /\ pc[a] = "opened"
  /\ pc' = [pc EXCEPT ![a] = "syncing"]
  /\ local' = [local EXCEPT ![a] = db]
  /\ reply' = [reply EXCEPT ![a] = r]
  /\ UNCHANGED <<remote, now, todo, links, configs>>

ToIdle(a) ==
  /\ pc' = [pc EXCEPT ![a] = "idle"]
  /\ local' = [local EXCEPT ![a] = EmptyDB]
  /\ todo' = [todo EXCEPT ![a] = <<>>]
  /\ reply' = [reply EXCEPT ![a] = NoReply]

(* Slip: the error of SyncRemote is not looked at.                          *)
AbandonButReply(a) ==
  /\ pc[a] # "idle"
  /\ links' = links \cup reply[a].links
  /\ configs' = configs \cup reply[a].configs
  /\ ToIdle(a)
  /\ UNCHANGED <<remote, now, drawn>>

Abandon(a) ==
  /\ pc[a] # "idle"
  /\ ToIdle(a)
  /\ UNCHANGED <<remote, now, drawn, links, configs>>

Upload(a) ==
  /\ pc[a] = "syncing"
  /\ remote' = local[a]
  /\ links' = links \cup reply[a].links
  /\ configs' = configs \cup reply[a].configs
  /\ ToIdle(a)
  /\ UNCHANGED <<now, drawn>>

(* The object is replaced but the caller sees an error, or dies before it   *)
(* answers: nothing is handed out.                                          *)
UploadUnacknowledged(a) ==
  /\ pc[a] = "syncing"
  /\ remote' = local[a]
  /\ ToIdle(a)
  /\ UNCHANGED <<now, drawn, links, configs>>

-----------------------------------------------------------------------------
(* Commands of the CLI.                                                     *)

InitServer(a, s, net, override) ==
  /\ local[a].servers[s] # NoServer => override
  /\ Commit(a, [local[a] EXCEPT !.servers = [@ EXCEPT ![s] = net]], NoReply)
  /\ UNCHANGED drawn

DeleteServer(a, s) ==
  /\ Commit(a, [local[a] EXCEPT !.servers = [@ EXCEPT ![s] = NoServer]], NoReply)
  /\ UNCHANGED drawn

(* --address names a free host or is left out, and then Pop takes any; the  *)
(* expire action is stored as given and the duration is always 24h.         *)
PeerAdd(a, u, override, ip, action, key) ==
  /\ local[a].peers[u] # NoPeer => override
  /\ local[a].servers[u[1]] # NoServer
  /\ ip \in Available(local[a], u[1])
  /\ LET spec == [persistent |-> key, ip |-> ip, action |-> action,
                  duration |-> DefaultDuration, blocked |-> FALSE]
         p == [spec |-> spec, status |-> NoStatus,
               createdAt |-> now, updatedAt |-> now]
     IN Commit(a, WithPeer(local[a], u, p), NoReply)

(* No key, or one the administrator already has.                            *)
PeerAddGivenKey(a, u, override, ip, action) ==
  /\ \E key \in AdminKeys \cup {NoKey} : PeerAdd(a, u, override, ip, action, key)
  /\ UNCHANGED drawn

(* --client-config generates the key pair.                                  *)
PeerAddClientConfig(a, u, override, ip, action) ==
  /\ drawn < MaxDrawn
  /\ drawn' = drawn + 1
  /\ PeerAdd(a, u, override, ip, action, drawn + 1)

SetBlocked(a, u, blocked) ==
  /\ local[a].peers[u] # NoPeer
  /\ LET p == local[a].peers[u]
     IN Commit(a, WithPeer(local[a], u, [p EXCEPT !.spec.blocked = blocked]), NoReply)
  /\ UNCHANGED drawn

PeerBlock(a, u) == SetBlocked(a, u, TRUE)
PeerUnblock(a, u) == SetBlocked(a, u, FALSE)

PeerApply(a, manifest) ==
  /\ pc[a] = "opened"
  /\ pc' = [pc EXCEPT ![a] = IF manifest = <<>> THEN "syncing" ELSE "applying"]
  /\ todo' = [todo EXCEPT ![a] = manifest]
  /\ UNCHANGED <<remote, now, drawn, local, reply, links, configs>>

(* validatePeer, which only a peer that does not exist yet goes through.    *)
ValidPeer(spec) == spec.action \in {NeverExpire, ResetOnExpire, BlockOnExpire}

ApplyCreate(db, u, spec) ==
  /\ db.peers[u] = NoPeer
  /\ ValidPeer(spec)
  /\ spec.ip \in Available(db, u[1])

(* Slip: an update does not ask whether its address is free.                *)
ApplyUpdateUnchecked(db, u, spec) ==
  /\ db.peers[u] # NoPeer
  /\ db.peers[u].spec # spec

ApplyUpdate(db, u, spec) ==
  /\ db.peers[u] # NoPeer
  /\ db.peers[u].spec # spec
  /\ db.peers[u].spec.ip # spec.ip => spec.ip \in Available(db, u[1])

ApplyUnchanged(db, u, spec) == db.peers[u] # NoPeer /\ db.peers[u].spec = spec

(* One round of the loop over the manifest.  A new peer keeps the status    *)
(* its entry may carry, an old one keeps its own.                           *)
ApplyEntry(a) ==
  /\ pc[a] = "applying"
  /\ LET db == local[a]
         u == Head(todo[a]).uid
         spec == Head(todo[a]).spec
         created == [spec |-> spec, status |-> Head(todo[a]).status,
                     createdAt |-> now, updatedAt |-> now]
     IN /\ db.servers[u[1]] # NoServer
        /\ \/ /\ ApplyCreate(db, u, spec)
              /\ local' = [local EXCEPT ![a] = WithPeer(db, u, created)]
           \/ /\ ApplyUpdate(db, u, spec)
              /\ local' = [local EXCEPT ![a] =
                             WithPeer(db, u, [db.peers[u] EXCEPT !.spec = spec])]
           \/ /\ ApplyUnchanged(db, u, spec)
              /\ UNCHANGED local
  /\ todo' = [todo EXCEPT ![a] = Tail(@)]
  /\ pc' = [pc EXCEPT ![a] = IF Len(todo[a]) = 1 THEN "syncing" ELSE "applying"]
  /\ UNCHANGED <<remote, now, drawn, reply, links, configs>>

-----------------------------------------------------------------------------
(* Requests to /peers/ from the user u[2].                                  *)

(* Slip: the key is not forgotten.                                          *)
RenewKeepsKey(a, u) ==
  /\ local[a].peers[u] # NoPeer
  /\ ~local[a].peers[u].spec.blocked
  /\ local[a].peers[u].spec.persistent = NoKey
  /\ drawn < MaxDrawn
  /\ drawn' = drawn + 1
  /\ LET p == [local[a].peers[u] EXCEPT !.createdAt = now, !.status.secret = drawn + 1]
     IN Commit(a, WithPeer(local[a], u, p), [NoReply EXCEPT !.links = {drawn + 1}])

(* POST: forget the key, issue a new download link.                         *)
RenewPeer(a, u) ==
  /\ local[a].peers[u] # NoPeer
  /\ ~local[a].peers[u].spec.blocked
  /\ local[a].peers[u].spec.persistent = NoKey
  /\ drawn < MaxDrawn
  /\ drawn' = drawn + 1
  /\ LET p == [local[a].peers[u] EXCEPT
                 !.createdAt = now,
                 !.status = [secret |-> drawn + 1, pub |-> NoKey]]
     IN Commit(a, WithPeer(local[a], u, p), [NoReply EXCEPT !.links = {drawn + 1}])

(* Slip: the link is not spent.                                             *)
DownloadKeepsLink(a, u, link, vpn) ==
  /\ local[a].peers[u] # NoPeer
  /\ local[a].peers[u].status.secret = link
  /\ ~local[a].peers[u].spec.blocked
  /\ local[a].peers[u].updatedAt + SecretLife >= now
  /\ local[a].servers[vpn] # NoServer
  /\ drawn < MaxDrawn
  /\ drawn' = drawn + 1
  /\ LET p == [local[a].peers[u] EXCEPT
                 !.status.pub = drawn + 1]
         config == [link |-> link, uid |-> u, key |-> drawn + 1]
     IN Commit(a, WithPeer(local[a], u, p), [NoReply EXCEPT !.configs = {config}])

(* GET: spend the link on a new key pair and answer with the client config. *)
(* The server is the "vpn" of the query, whatever server the peer is of.    *)
DownloadConfig(a, u, link, vpn) ==
  /\ local[a].peers[u] # NoPeer
  /\ local[a].peers[u].status.secret = link
  /\ ~local[a].peers[u].spec.blocked
  /\ local[a].peers[u].updatedAt + SecretLife >= now
  /\ local[a].servers[vpn] # NoServer
  /\ drawn < MaxDrawn
  /\ drawn' = drawn + 1
  /\ LET p == [local[a].peers[u] EXCEPT
                 !.status = [secret |-> NoSecret, pub |-> drawn + 1]]
         config == [link |-> link, uid |-> u, key |-> drawn + 1]
     IN Commit(a, WithPeer(local[a], u, p), [NoReply EXCEPT !.configs = {config}])

-----------------------------------------------------------------------------
Tick ==
  /\ now < MaxTime
  /\ now' = now + 1
  /\ UNCHANGED <<remote, drawn, pc, local, todo, reply, links, configs>>

ServerCommand(a) ==
  \E s \in Servers :
    \/ \E net \in Networks, override \in BOOLEAN : InitServer(a, s, net, override)
    \/ DeleteServer(a, s)

PeerCommand(a) ==
  \E u \in UIDs :
    \/ \E override \in BOOLEAN, ip \in Addresses, action \in ExpireActions :
         \/ PeerAddGivenKey(a, u, override, ip, action)
         \/ PeerAddClientConfig(a, u, override, ip, action)
    \/ PeerBlock(a, u)
    \/ PeerUnblock(a, u)

AdminCommand(a) ==
  \/ ServerCommand(a)
  \/ PeerCommand(a)
  \/ \E manifest \in Manifests : PeerApply(a, manifest)

Request(a) ==
  \E u \in UIDs :
    \/ RenewPeer(a, u)
    \/ \E link \in links, vpn \in Servers : DownloadConfig(a, u, link, vpn)

Frame(a) ==
  \/ Fetch(a) \/ FetchTorn(a) \/ ApplyEntry(a)
  \/ Upload(a) \/ UploadUnacknowledged(a) \/ Abandon(a)

Next ==
  \/ Tick
  \/ \E a \in Actors : Frame(a)
  \/ \E a \in Admins : AdminCommand(a)
  \/ \E a \in Handlers : Request(a)

Spec == Init /\ [][Next]_vars
-----------------------------------------------------------------------------
TypeOK ==
  /\ remote \in Database
  /\ now \in 0 .. MaxTime
  /\ drawn \in 0 .. MaxDrawn
  /\ pc \in [Actors -> {"idle", "opened", "applying", "syncing"}]
  /\ local \in [Actors -> Database]
  /\ todo \in [Actors -> Seq(ManifestEntry)]
  /\ reply \in [Actors -> Reply]
  /\ links \subseteq Nat
  /\ configs \subseteq Config

(* "The address of the peer, must not overlap with other peers": no two     *)
(* peers of a server hold the same address, although "peer add" and "peer   *)
(* apply" only look at their copy and uploads overwrite each other.         *)
UniqueAddresses == AddressesUnique(remote)

(* A peer has a link to download a config or the key of the config that was *)
(* downloaded, never both: POST drops the key, GET spends the link.         *)
LinkExcludesKey == LinksExcludeKeys(remote)

(* Expiring is final for a downloaded key whose action is "reset": unless   *)
(* its owner asks for a new config or the spec is edited, no upload, stale  *)
(* or not, makes the same key count as active again.                        *)
ExpiredStaysExpired ==
  [][\A u \in PeersIn(remote) \cap PeersIn(remote)' :
       LET p == remote.peers[u]
           q == remote'.peers[u]
       IN /\ GetStatus(p, now) = "expired"
          /\ p.spec.action = ResetOnExpire
          /\ q.status.pub = p.status.pub
          /\ q.spec = p.spec
          => GetStatus(q, now') = "expired"]_vars

(* Answering a GET: the config handed out is the one whose key that very    *)
(* upload stores for the peer, and its link is no longer in the object.     *)
ConfigIsStored ==
  [][\A c \in configs' \ configs :
       /\ remote'.peers[c.uid] # NoPeer
       /\ remote'.peers[c.uid].status = [secret |-> NoSecret, pub |-> c.key]]_vars

(* Whatever commands and requests do to the object is what CopyStore says:  *)
(* it only ever becomes the whole copy of one of them, opened and edited    *)
(* without the others noticing.                                             *)
Copies == INSTANCE CopyStore WITH
  Clients <- Actors,
  Databases <- Database,
  Torn <- Torn,
  NoCopy <- NoPeer,
  object <- remote,
  copy <- [a \in Actors |-> IF pc[a] = "idle" THEN NoPeer ELSE local[a]]
WorksOnCopies == Copies!Spec

(* "It's important to let the client to download the configuration only     *)
(* once": a link buys one config.                                           *)
OneConfigPerLink ==
  \A c, d \in configs : c.link = d.link => c = d
=============================================================================
