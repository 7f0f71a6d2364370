----------------------------- MODULE MCRegistry -----------------------------
(* Small instances of Registry.  Addresses are numbers; the server takes    *)
(* the first one and two or three hosts are left for peers.                 *)
EXTENDS Registry, TLC

CONSTANTS s1, s2, alice, bob, ann, ben, web1, web2, both

Net == [address |-> 1, hosts |-> 1 .. 3]

PendingPeer(ip, action) ==
  [spec |-> [persistent |-> NoKey, ip |-> ip, action |-> action,
             duration |-> DefaultDuration, blocked |-> FALSE],
   status |-> NoStatus, createdAt |-> 0, updatedAt |-> 0]

OnePeer ==
  [EmptyDB EXCEPT
     !.servers = [s \in Servers |-> Net],
     !.peers = [u \in UIDs |->
        IF u = <<s1, alice>> THEN PendingPeer(2, ResetOnExpire) ELSE NoPeer]]

(* The peer was downloaded before; its key is none that the run draws.      *)
OneActivePeer ==
  [OnePeer EXCEPT !.peers = [@ EXCEPT ![<<s1, alice>>].status.pub = 9]]

Entry(u, ip, action) ==
  [uid |-> u, spec |-> [persistent |-> NoKey, ip |-> ip, action |-> action,
                        duration |-> DefaultDuration, blocked |-> FALSE],
   status |-> NoStatus]

(* Two peers that exchange their addresses: the first entry finds its       *)
(* address still taken if the other peer exists.                            *)
SwapManifest ==
  <<Entry(<<s1, alice>>, 3, ResetOnExpire),
    Entry(<<s1, bob>>, 2, ResetOnExpire)>>
NeverManifest == <<Entry(<<s1, alice>>, 2, NeverExpire)>>
MoveManifest == <<Entry(<<s1, alice>>, 3, ResetOnExpire)>>

NoManifests == {}
AllManifests == {SwapManifest, MoveManifest, NeverManifest}

(* Two servers with one range of addresses, as of two networks that only    *)
(* differ in the rest: the name of the second extends that of the first.    *)
ShadowedByS2 == [s \in Servers |-> IF s = s1 THEN {s2} ELSE {}]
PeerOfS2 ==
  [OnePeer EXCEPT !.peers =
     [u \in UIDs |-> IF u = <<s2, alice>> THEN PendingPeer(2, ResetOnExpire) ELSE @[u]]]

(* A bound.  TLC explores two stories: an administrator, a request and the  *)
(* clock about one peer; and two administrators about the addresses of two. *)
Stored == {remote} \cup {local[a] : a \in Actors}
OnePeerInTime ==
  /\ \E a \in Admins : \A b \in Admins \ {a} : pc[b] = "idle"
  /\ \A db \in Stored : \A u \in PeersIn(db) : u[2] = alice /\ db.peers[u].spec.ip = 2
  /\ \A a \in Actors : \A j \in 1 .. Len(todo[a]) : todo[a][j].uid[2] = alice
TwoPeersAtOnce ==
  /\ now = 0 /\ drawn = 0 /\ pc[web1] = "idle"
  /\ \A db \in Stored : \A u \in PeersIn(db) : db.peers[u].spec.action = ResetOnExpire
TimeOrAddresses == OnePeerInTime \/ TwoPeersAtOnce

(* Administrators are all alike.                                            *)
Alike == Permutations(Admins)

Networks1 == {Net}
MCZeroTime == -1000
NoShadows == [s \in Servers |-> {}]
=============================================================================
