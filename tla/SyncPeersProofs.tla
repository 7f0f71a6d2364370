--------------------------- MODULE SyncPeersProofs ---------------------------
(* What a pass of sync-peers achieves, for every set of keys and listings   *)
(* and any amount of interference.                                          *)
EXTENDS SyncPeers, TLAPS

(* What is read of a listing is a listing, also if it was cut off.          *)
LEMMA TornListing ==
  ASSUME NEW l \in Listings, NEW n \in 0 .. Len(l)
  PROVE  /\ SubSeq(l, 1, n) \in Seq(PeerObject)
         /\ Len(SubSeq(l, 1, n)) = n
         /\ \A j \in 1 .. n : SubSeq(l, 1, n)[j] = l[j] /\ j \in 1 .. Len(l)
<1>1. l \in Seq(PeerObject) /\ Len(l) \in Nat
  BY SyncPeersAssumption
<1>2. \A j \in 1 .. n : j \in 1 .. Len(l)
  BY <1>1
<1>3. QED
  BY <1>1, <1>2

LEMMA ListingType ==
  ASSUME NEW l \in Downloads
  PROVE  /\ l \in Seq(PeerObject)
         /\ \A j \in 1 .. Len(l) : GetPublicKey(l[j]) \in Keys \cup {NoKey}
<1>1. ASSUME NEW m \in Listings, NEW n \in 0 .. Len(m), l = SubSeq(m, 1, n)
      PROVE  /\ l \in Seq(PeerObject)
             /\ \A j \in 1 .. Len(l) : GetPublicKey(l[j]) \in Keys \cup {NoKey}
  <2>1. \A j \in 1 .. Len(m) : GetPublicKey(m[j]) \in Keys \cup {NoKey}
    BY SyncPeersAssumption
  <2>2. QED
    BY <1>1, <2>1, TornListing
<1>2. CASE l = <<>>
  BY <1>2
<1>3. QED
  BY <1>1, <1>2 DEF Downloads, Torn

LEMMA WholeListing ==
  ASSUME NEW l \in Listings
  PROVE  l \in Torn(l) /\ Torn(l) \subseteq Downloads
<1>1. l \in Seq(PeerObject) /\ Len(l) \in Nat
  BY SyncPeersAssumption
<1>2. l = SubSeq(l, 1, Len(l)) /\ Len(l) \in 0 .. Len(l)
  BY <1>1
<1>3. QED
  BY <1>2 DEF Torn, Downloads

-----------------------------------------------------------------------------
(* Types.                                                                   *)

LEMMA InitType == Init => TypeOK
<1> SUFFICES ASSUME Init PROVE TypeOK
  OBVIOUS
<1>1. budget \in [{"changes", "refetches", "errors", "bounces", "crashes"} -> Nat]
  BY SyncPeersAssumption DEF Init
<1>2. up \in BOOLEAN /\ dirty \in BOOLEAN /\ quiet \in BOOLEAN
  BY DEF Init
<1>3. now \in 0 .. MaxTime /\ i \in 1 .. Len(desired) + 1
  BY SyncPeersAssumption DEF Init
<1>4. <<>> \in Downloads
  BY DEF Downloads
<1>5. QED
  BY <1>1, <1>2, <1>3, <1>4 DEF Init, TypeOK, None

LEMMA SpendType ==
  ASSUME TypeOK, NEW what \in {"changes", "refetches", "errors", "bounces", "crashes"},
         Spend(what)
  PROVE  budget' \in [{"changes", "refetches", "errors", "bounces", "crashes"} -> Nat]
<1>1. budget \in [{"changes", "refetches", "errors", "bounces", "crashes"} -> Nat]
  BY DEF TypeOK
<1>2. budget[what] - 1 \in Nat
  <2>1. budget[what] \in Nat
    BY <1>1
  <2>2. QED
    BY <2>1 DEF Spend
<1>3. QED
  BY <1>1, <1>2 DEF Spend

LEMMA BeginType ==
  ASSUME TypeOK, NEW l \in Downloads, NEW b \in BOOLEAN, Begin(l, b),
         budget' \in [{"changes", "refetches", "errors", "bounces", "crashes"} -> Nat]
  PROVE  TypeOK'
<1>1. Len(l) \in Nat
  BY ListingType
<1>2. i' \in 1 .. Len(desired') + 1
  BY <1>1 DEF Begin
<1>3. up' \in BOOLEAN /\ dirty' \in BOOLEAN /\ quiet' \in BOOLEAN
  BY DEF TypeOK, Begin, outside
<1>4. desired' \in Downloads /\ dbfile' \in Downloads
  BY DEF Begin
<1>5. remote' \in Listings /\ now' \in 0 .. MaxTime
  BY DEF TypeOK, Begin, outside
<1>6. iface' \in [Keys -> Addresses \cup {NoAddress, Absent}] /\ current' \subseteq Keys
  BY DEF TypeOK, Begin
<1>7. pc' \in {"sleep", "revoke", "show", "prune", "show again", "add", "done"}
  BY DEF Begin
<1>8. QED
  BY <1>2, <1>3, <1>4, <1>5, <1>6, <1>7 DEF TypeOK

LEMMA IndexType ==
  ASSUME TypeOK
  PROVE  Len(desired) \in Nat /\ i \in Nat /\ 1 <= i /\ i <= Len(desired) + 1
<1>1. desired \in Downloads /\ i \in 1 .. Len(desired) + 1
  BY DEF TypeOK
<1>2. Len(desired) \in Nat
  BY <1>1, ListingType
<1>3. QED
  BY <1>1, <1>2

LEMMA NextPeerType ==
  ASSUME TypeOK, Left, NextPeer, dirty' \in BOOLEAN,
         iface' \in [Keys -> Addresses \cup {NoAddress, Absent}]
  PROVE  TypeOK'
<1>1. Len(desired) \in Nat /\ i \in Nat /\ 1 <= i /\ i <= Len(desired)
  BY IndexType DEF Left
<1>2. UNCHANGED <<remote, dbfile, now, up, pc, desired, current, quiet, budget>>
  BY DEF NextPeer, world, outside
<1>3. i' \in 1 .. Len(desired') + 1
  BY <1>1, <1>2 DEF NextPeer
<1>4. up' \in BOOLEAN /\ quiet' \in BOOLEAN
  BY <1>2 DEF TypeOK
<1>5. QED
  BY <1>2, <1>3, <1>4 DEF TypeOK

(* The peer that is next, and its key.                                      *)
LEMMA ThisPeerType ==
  ASSUME TypeOK, Left
  PROVE  /\ i \in 1 .. Len(desired)
         /\ ThisPeer \in PeerObject
         /\ GetPublicKey(ThisPeer) \in Keys \cup {NoKey}
         /\ ThisPeer.spec.ip \in Addresses
<1>1. desired \in Downloads
  BY DEF TypeOK
<1>2. i \in 1 .. Len(desired)
  BY IndexType DEF Left
<1>3. ThisPeer \in PeerObject
  BY <1>1, <1>2, ListingType DEF ThisPeer
<1>4. ThisPeer.spec.ip \in Addresses
  BY <1>3 DEF PeerObject, PeerSpec
<1>5. GetPublicKey(ThisPeer) \in Keys \cup {NoKey}
  BY <1>1, <1>2, ListingType DEF ThisPeer
<1>6. QED
  BY <1>2, <1>3, <1>4, <1>5

LEMMA EndPassType ==
  ASSUME TypeOK, EndPass,
         budget' \in [{"changes", "refetches", "errors", "bounces", "crashes"} -> Nat]
  PROVE  TypeOK'
<1>1. i' \in 1 .. Len(desired') + 1
  <2>1. i' = 1 /\ desired' = desired
    BY DEF EndPass
  <2>2. QED
    BY <2>1, IndexType
<1>2. current' \subseteq Keys /\ quiet' \in BOOLEAN /\ dirty' \in BOOLEAN /\ up' \in BOOLEAN
  BY DEF EndPass, TypeOK, outside
<1>3. QED
  BY <1>1, <1>2 DEF EndPass, TypeOK, outside

LEMMA PassType ==
  ASSUME TypeOK, Pass
  PROVE  TypeOK'
<1>1. remote \in Downloads
  BY WholeListing DEF TypeOK
<1>2. CASE FetchPeers
  <2>1. budget' \in [{"changes", "refetches", "errors", "bounces", "crashes"} -> Nat]
    BY <1>2 DEF FetchPeers, TypeOK
  <2>2. QED
    BY <1>1, <1>2, <2>1, BeginType DEF FetchPeers
<1>3. CASE KeepPeer \/ SkipPeer
  BY <1>3, NextPeerType DEF KeepPeer, SkipPeer, TypeOK
<1>4. CASE RevokePeer
  BY <1>4, NextPeerType DEF RevokePeer, TypeOK
<1>5. CASE RevokeFails \/ AddFails
  BY <1>5, NextPeerType DEF RevokeFails, AddFails, CommandFails, TypeOK
<1>6. CASE AddPeer
  <2>1. iface' \in [Keys -> Addresses \cup {NoAddress, Absent}]
    BY <1>6, ThisPeerType DEF AddPeer, TypeOK
  <2>2. QED
    BY <1>6, <2>1, NextPeerType DEF AddPeer, TypeOK
<1>7. CASE RevokeDone \/ PruneDone \/ AddDone
  BY <1>7 DEF RevokeDone, PruneDone, AddDone, TypeOK, world, outside
<1>0. CASE PassEnds \/ NoInterface
  BY <1>0, EndPassType DEF PassEnds, NoInterface, TypeOK
<1>8. CASE ShowToPrune \/ ShowToAdd
  <2>1. i' \in 1 .. Len(desired') + 1
    <3>1. i' = 1 /\ desired' = desired
      BY <1>8 DEF ShowToPrune, ShowToAdd, ShowPeers
    <3>2. QED
      BY <3>1, IndexType
  <2>2. current' \subseteq Keys
    BY <1>8 DEF ShowToPrune, ShowToAdd, ShowPeers, OnInterface
  <2>3. /\ UNCHANGED <<remote, dbfile, now, up, iface, desired, dirty, quiet, budget>>
        /\ pc' \in {"prune", "add"}
    BY <1>8 DEF ShowToPrune, ShowToAdd, ShowPeers, world, outside
  <2>4. up' \in BOOLEAN /\ dirty' \in BOOLEAN /\ quiet' \in BOOLEAN
    BY <2>3 DEF TypeOK
  <2>5. QED
    BY <2>1, <2>2, <2>3, <2>4 DEF TypeOK
<1>9. ASSUME NEW k \in Keys, KeepKey(k) \/ RemoveKey(k) \/ RemoveKeyFails(k)
      PROVE  TypeOK'
  BY <1>9 DEF KeepKey, RemoveKey, RemoveKeyFails, PruneKey, CommandFails, TypeOK, world, outside
<1>10. QED
  BY <1>0, <1>2, <1>3, <1>4, <1>5, <1>6, <1>7, <1>8, <1>9 DEF Pass

LEMMA NextType ==
  ASSUME TypeOK, [Next]_vars
  PROVE  TypeOK'
<1>1. CASE Pass
  BY <1>1, PassType
<1>2. CASE FetchTorn
  <2>1. PICK l \in Torn(remote) : Begin(l, FALSE) /\ Spend("errors")
    BY <1>2 DEF FetchTorn
  <2>2. l \in Downloads
    BY WholeListing DEF TypeOK
  <2>3. QED
    BY <2>1, <2>2, SpendType, BeginType
<1>3. CASE GiveUp
  BY <1>3, SpendType, EndPassType DEF GiveUp
<1>4. CASE ChangeRemote
  BY <1>4, SpendType DEF ChangeRemote, TypeOK
<1>5. CASE Tick
  <2>1. now' \in 0 .. MaxTime
    <3>1. now \in 0 .. MaxTime
      BY DEF TypeOK
    <3>2. QED
      BY <1>5, <3>1, SyncPeersAssumption DEF Tick
  <2>2. quiet' \in BOOLEAN
    BY <1>5 DEF Tick
  <2>3. QED
    BY <1>5, <2>1, <2>2 DEF Tick, TypeOK
<1>6. CASE Refetch
  <2>1. quiet' \in BOOLEAN
    BY <1>6 DEF Refetch
  <2>2. Torn(remote) \subseteq Downloads
    BY WholeListing DEF TypeOK
  <2>3. QED
    BY <1>6, <2>1, <2>2, SpendType DEF Refetch, TypeOK
<1>7. CASE InterfaceDown
  BY <1>7, SpendType DEF InterfaceDown, TypeOK, None
<1>8. CASE InterfaceUp
  BY <1>8 DEF InterfaceUp, TypeOK
<1>9. CASE Crash
  <2>1. i' \in 1 .. Len(desired') + 1
    BY <1>9 DEF Crash
  <2>2. dirty' \in BOOLEAN /\ quiet' \in BOOLEAN
    BY <1>9 DEF Crash
  <2>3. desired' \in Downloads
    BY <1>9 DEF Crash, Downloads
  <2>4. QED
    BY <1>9, <2>1, <2>2, <2>3, SpendType DEF Crash, TypeOK
<1>10. CASE UNCHANGED vars
  BY <1>10 DEF vars, TypeOK
<1>11. QED
  BY <1>1, <1>2, <1>3, <1>4, <1>5, <1>6, <1>7, <1>8, <1>9, <1>10 DEF Next

(* Every reachable state is well typed: the index never leaves the listing  *)
(* and the interface never holds an address that no peer may have.          *)
THEOREM TypeCorrect == Spec => []TypeOK
BY InitType, NextType, PTL DEF Spec

-----------------------------------------------------------------------------
(* What the steps do to the interface.                                      *)

LEMMA ActiveHasKey ==
  ASSUME NEW p, NEW t, GetStatus(p, t) = "active"
  PROVE  GetPublicKey(p) # NoKey /\ ~p.spec.blocked
BY DEF GetStatus

LEMMA BlockedStatus ==
  ASSUME NEW p, NEW t, p.spec.blocked
  PROVE  GetStatus(p, t) = "blocked"
BY DEF GetStatus

LEMMA RemoveOne ==
  ASSUME TypeOK, NEW k \in Keys, iface' = [iface EXCEPT ![k] = Absent]
  PROVE  OnInterface' = OnInterface \ {k}
<1>1. iface \in [Keys -> Addresses \cup {NoAddress, Absent}]
  BY DEF TypeOK
<1>2. QED
  BY <1>1 DEF OnInterface

LEMMA AddOne ==
  ASSUME TypeOK, AddPeer
  PROVE  /\ GetPublicKey(ThisPeer) \in Keys
         /\ OnInterface' = OnInterface \cup {GetPublicKey(ThisPeer)}
<1>1. GetPublicKey(ThisPeer) # NoKey
  BY ActiveHasKey DEF AddPeer, MustAdd, IsServed
<1>2. GetPublicKey(ThisPeer) \in Keys /\ ThisPeer.spec.ip \in Addresses
  BY <1>1, ThisPeerType DEF AddPeer
<1>3. ThisPeer.spec.ip # Absent /\ NoAddress # Absent
  BY <1>2, SyncPeersAssumption
<1>4. iface' = [k \in Keys |->
                  IF k = GetPublicKey(ThisPeer) THEN ThisPeer.spec.ip
                  ELSE IF iface[k] = ThisPeer.spec.ip THEN NoAddress
                  ELSE iface[k]]
  BY DEF AddPeer
<1>5. QED
  BY <1>2, <1>3, <1>4 DEF OnInterface

LEMMA RemoveThis ==
  ASSUME TypeOK, RevokePeer
  PROVE  OnInterface' = OnInterface \ {GetPublicKey(ThisPeer)}
<1>1. GetPublicKey(ThisPeer) \in Keys
  BY ThisPeerType DEF RevokePeer
<1>2. QED
  BY <1>1, RemoveOne DEF RevokePeer

-----------------------------------------------------------------------------
(* A key read as blocked is gone.                                           *)

LEMMA BlockedKey ==
  ASSUME NEW l \in Downloads, NEW k
  PROVE  k \in BlockedKeys(l) <=>
           /\ \E j \in 1 .. Len(l) : l[j].spec.blocked /\ GetPublicKey(l[j]) = k
           /\ \A j \in 1 .. Len(l) : GetPublicKey(l[j]) = k => l[j].spec.blocked
BY DEF BlockedKeys, Peers

(* The revoking loop has reached i.                                         *)
RevokedSoFar ==
  pc = "revoke" /\ ~dirty =>
    \A j \in 1 .. Len(desired) :
      j < i /\ desired[j].spec.blocked => GetPublicKey(desired[j]) \notin OnInterface

RevokedInv == TypeOK /\ RevokedSoFar /\ RevokedIsGone

LEMMA InitRevoked == Init => RevokedInv
BY InitType DEF Init, RevokedInv, RevokedSoFar, RevokedIsGone, OnInterface, None

LEMMA NextRevoked ==
  ASSUME RevokedInv, [Next]_vars
  PROVE  RevokedInv'
<1>1. TypeOK /\ TypeOK'
  BY NextType DEF RevokedInv
<1>2. desired \in Downloads /\ i \in Nat /\ Len(desired) \in Nat
  BY <1>1, IndexType DEF TypeOK
<1>3. RevokedSoFar'
  <2> SUFFICES ASSUME pc' = "revoke", ~dirty', NEW j \in 1 .. Len(desired'), j < i',
                      desired'[j].spec.blocked
               PROVE  GetPublicKey(desired'[j]) \notin OnInterface'
    BY DEF RevokedSoFar
  <2>1. CASE FetchPeers \/ FetchTorn
    BY <2>1 DEF FetchPeers, FetchTorn, Begin
  <2>2. CASE KeepPeer
    <3>1. ~ThisPeer.spec.blocked
      BY <2>2, BlockedStatus DEF KeepPeer, MustRevoke
    <3>2. /\ pc = "revoke" /\ ~dirty /\ i' = i + 1
          /\ desired' = desired /\ iface' = iface
      BY <2>2 DEF KeepPeer, NextPeer
    <3>3. QED
      BY <1>2, <3>1, <3>2 DEF RevokedInv, RevokedSoFar, ThisPeer, OnInterface
  <2>3. CASE RevokePeer
    <3>1. pc = "revoke" /\ ~dirty /\ i' = i + 1 /\ desired' = desired
      BY <2>3 DEF RevokePeer, NextPeer
    <3>2. OnInterface' = OnInterface \ {GetPublicKey(ThisPeer)}
      BY <1>1, <2>3, RemoveThis
    <3>3. QED
      BY <1>2, <3>1, <3>2 DEF RevokedInv, RevokedSoFar, ThisPeer
  <2>4. CASE RevokeFails \/ AddFails \/ \E k \in Keys : RemoveKeyFails(k)
    BY <2>4 DEF RevokeFails, AddFails, RemoveKeyFails, CommandFails
  <2>5. CASE \/ RevokeDone \/ PruneDone \/ AddDone \/ PassEnds \/ NoInterface \/ GiveUp
             \/ ShowToPrune \/ ShowToAdd \/ Crash
    BY <2>5 DEF RevokeDone, PruneDone, AddDone, PassEnds, NoInterface, EndPass, GiveUp,
                ShowToPrune, ShowToAdd, ShowPeers, Crash
  <2>6. CASE SkipPeer \/ AddPeer \/ \E k \in Keys : KeepKey(k) \/ RemoveKey(k)
    BY <2>6 DEF SkipPeer, AddPeer, NextPeer, KeepKey, RemoveKey, PruneKey
  <2>7. CASE InterfaceDown
    BY <2>7 DEF InterfaceDown, None, OnInterface
  <2>8. CASE ChangeRemote \/ Tick \/ Refetch \/ InterfaceUp \/ UNCHANGED vars
    <3>1. UNCHANGED <<pc, dirty, i, desired, iface>>
      BY <2>8 DEF ChangeRemote, Tick, Refetch, InterfaceUp, vars
    <3>2. QED
      BY <3>1 DEF RevokedInv, RevokedSoFar, OnInterface
  <2>9. QED
    BY <2>1, <2>2, <2>3, <2>4, <2>5, <2>6, <2>7, <2>8 DEF Next, Pass
<1>4. RevokedIsGone'
  <2> SUFFICES ASSUME pc' # "revoke", ~dirty'
               PROVE  OnInterface' \cap BlockedKeys(desired)' = {}
    BY DEF RevokedIsGone
  <2>1. CASE FetchPeers \/ FetchTorn
    BY <2>1 DEF FetchPeers, FetchTorn, Begin
  <2>2. CASE KeepPeer \/ RevokePeer
    BY <2>2 DEF KeepPeer, RevokePeer, NextPeer
  <2>3. CASE RevokeDone
    <3>1. /\ pc = "revoke" /\ ~dirty /\ i > Len(desired)
          /\ desired' = desired /\ iface' = iface
      BY <1>2, <2>3 DEF RevokeDone, Left
    <3>2. \A j \in 1 .. Len(desired) :
            desired[j].spec.blocked => GetPublicKey(desired[j]) \notin OnInterface
      BY <1>2, <3>1 DEF RevokedInv, RevokedSoFar
    <3>3. \A k \in BlockedKeys(desired) : k \notin OnInterface
      BY <1>2, <3>2, BlockedKey
    <3>4. BlockedKeys(desired)' = BlockedKeys(desired) /\ OnInterface' = OnInterface
      BY <3>1 DEF BlockedKeys, Peers, OnInterface
    <3>5. QED
      BY <3>3, <3>4
  <2>4. CASE RevokeFails \/ AddFails \/ \E k \in Keys : RemoveKeyFails(k)
    BY <2>4 DEF RevokeFails, AddFails, RemoveKeyFails, CommandFails
  <2>5. CASE Crash
    <3>1. BlockedKeys(desired)' = {}
      BY <2>5 DEF Crash, BlockedKeys, Peers
    <3>2. QED
      BY <3>1
  <2>6. CASE AddPeer
    <3>1. pc # "revoke" /\ ~dirty /\ desired' = desired
      BY <2>6 DEF AddPeer, NextPeer
    <3>2. OnInterface' = OnInterface \cup {GetPublicKey(ThisPeer)}
      BY <1>1, <2>6, AddOne
    <3>3. ~ThisPeer.spec.blocked
      BY <2>6, ActiveHasKey DEF AddPeer, MustAdd, IsServed
    <3>4. GetPublicKey(ThisPeer) \notin BlockedKeys(desired)
      <4>1. i \in 1 .. Len(desired)
        BY <1>1, <2>6, ThisPeerType DEF AddPeer
      <4>2. QED
        BY <1>2, <3>3, <4>1, BlockedKey DEF ThisPeer
    <3>5. BlockedKeys(desired)' = BlockedKeys(desired)
      BY <3>1 DEF BlockedKeys, Peers
    <3>6. QED
      BY <3>1, <3>2, <3>4, <3>5 DEF RevokedInv, RevokedIsGone
  <2>7. ASSUME pc # "revoke", ~dirty, desired' = desired, OnInterface' \subseteq OnInterface
        PROVE  OnInterface' \cap BlockedKeys(desired)' = {}
    <3>1. BlockedKeys(desired)' = BlockedKeys(desired)
      BY <2>7 DEF BlockedKeys, Peers
    <3>2. QED
      BY <2>7, <3>1 DEF RevokedInv, RevokedIsGone
  <2>8. ASSUME NEW k \in Keys, RemoveKey(k)
        PROVE  OnInterface' \cap BlockedKeys(desired)' = {}
    <3>1. OnInterface' \subseteq OnInterface
      BY <1>1, <2>8, RemoveOne DEF RemoveKey
    <3>2. QED
      BY <2>7, <2>8, <3>1 DEF RemoveKey, PruneKey
  <2>9. CASE InterfaceDown
    <3>1. OnInterface' = {}
      BY <2>9 DEF InterfaceDown, None, OnInterface
    <3>2. QED
      BY <3>1
  <2>10. CASE \/ PruneDone \/ AddDone \/ PassEnds \/ NoInterface \/ GiveUp
              \/ ShowToPrune \/ ShowToAdd \/ SkipPeer
              \/ \E k \in Keys : KeepKey(k)
              \/ ChangeRemote \/ Tick \/ Refetch \/ InterfaceUp \/ UNCHANGED vars
    <3>1. UNCHANGED <<dirty, desired, iface>>
      BY <2>10 DEF PruneDone, AddDone, PassEnds, NoInterface, EndPass, GiveUp, ShowToPrune,
                   ShowToAdd, ShowPeers, SkipPeer, NextPeer, KeepKey, PruneKey,
                   ChangeRemote, Tick, Refetch, InterfaceUp, vars
    <3>2. pc # "revoke"
      BY <2>10 DEF PruneDone, AddDone, PassEnds, NoInterface, EndPass, GiveUp, ShowToPrune,
                   ShowToAdd, ShowPeers, SkipPeer, KeepKey, PruneKey,
                   ChangeRemote, Tick, Refetch, InterfaceUp, vars
    <3>3. OnInterface' = OnInterface
      BY <3>1 DEF OnInterface
    <3>4. QED
      BY <2>7, <3>1, <3>2, <3>3
  <2>11. QED
    BY <2>1, <2>2, <2>3, <2>4, <2>5, <2>6, <2>8, <2>9, <2>10 DEF Next, Pass
<1>5. QED
  BY <1>1, <1>3, <1>4 DEF RevokedInv

(* After a pass that read a peer as blocked and saw no command fail, the    *)
(* key is off the interface and stays off until the next pass, whatever the *)
(* registry, the clock, sync-servers and the listing of other peers do.     *)
THEOREM RevokedStaysGone == Spec => []RevokedIsGone
<1>1. RevokedInv => RevokedIsGone
  BY DEF RevokedInv
<1>2. QED
  BY <1>1, InitRevoked, NextRevoked, PTL DEF Spec

-----------------------------------------------------------------------------
(* An undisturbed pass without failures.                                    *)

LEMMA ServedKey ==
  ASSUME NEW l \in Downloads, NEW k
  PROVE  k \in ServedKeys(l) <=>
           \E j \in 1 .. Len(l) : IsServed(l[j], now) /\ GetPublicKey(l[j]) = k
BY DEF ServedKeys, Peers

(* All three readings are those of the registry.                            *)
Fresh == quiet => desired = remote /\ dbfile = remote

(* Once the revoking loop has passed a peer, its key is gone.               *)
Revoked ==
  \A j \in 1 .. Len(desired) :
    /\ pc \in {"revoke", "show", "prune", "show again"}
    /\ pc = "revoke" => j < i
    /\ MustRevoke(desired[j])
    => GetPublicKey(desired[j]) \notin OnInterface

(* The pruning loop leaves only keys of active peers behind.                *)
Pruned ==
  \A k \in OnInterface :
    /\ pc \in {"prune", "show again"}
    /\ pc = "prune" => k \notin current
    => SearchByPubKey(dbfile, k) # {}

(* From then on only served keys are on the interface.                      *)
Listed == pc \in {"add", "done"} => OnInterface \subseteq ServedKeys(desired)

(* Once the adding loop has passed a served peer, its key is there.         *)
Added ==
  /\ pc = "add" => current \subseteq OnInterface
  /\ \A j \in 1 .. Len(desired) :
       /\ pc \in {"add", "done"}
       /\ pc = "add" => j < i
       /\ IsServed(desired[j], now)
       => GetPublicKey(desired[j]) \in OnInterface

Exact == quiet /\ ~dirty => Revoked /\ Pruned /\ Listed /\ Added

ExactInv == TypeOK /\ Fresh /\ Exact

LEMMA InitExact == Init => ExactInv
BY InitType DEF Init, ExactInv, Fresh, Exact

LEMMA NextFresh ==
  ASSUME Fresh, [Next]_vars
  PROVE  Fresh'
<1>1. CASE FetchPeers
  BY <1>1 DEF FetchPeers, Begin, outside, Fresh
<1>2. CASE FetchTorn
  BY <1>2 DEF FetchTorn, Begin, Fresh
<1>3. CASE Refetch
  BY <1>3 DEF Refetch, Fresh
<1>4. CASE ChangeRemote \/ Tick \/ InterfaceDown \/ InterfaceUp \/ Crash
  BY <1>4 DEF ChangeRemote, Tick, InterfaceDown, InterfaceUp, Crash, Fresh
<1>5. CASE GiveUp \/ UNCHANGED vars
  BY <1>5 DEF GiveUp, EndPass, outside, vars, Fresh
<1>6. CASE \/ KeepPeer \/ RevokePeer \/ RevokeFails \/ SkipPeer \/ AddPeer \/ AddFails
  BY <1>6 DEF KeepPeer, RevokePeer, RevokeFails, SkipPeer, AddPeer, AddFails,
              NextPeer, world, outside, Fresh
<1>7. CASE \/ RevokeDone \/ PruneDone \/ AddDone \/ PassEnds \/ NoInterface
           \/ ShowToPrune \/ ShowToAdd
           \/ \E k \in Keys : KeepKey(k) \/ RemoveKey(k) \/ RemoveKeyFails(k)
  BY <1>7 DEF RevokeDone, PruneDone, AddDone, PassEnds, NoInterface, EndPass, ShowToPrune,
              ShowToAdd, ShowPeers, KeepKey, RemoveKey, RemoveKeyFails, PruneKey,
              world, outside, Fresh
<1>8. QED
  BY <1>1, <1>2, <1>3, <1>4, <1>5, <1>6, <1>7 DEF Next, Pass

(* The steps of a pass that may matter to Exact.                            *)
WorkStep ==
  \/ KeepPeer \/ RevokePeer \/ RevokeDone
  \/ ShowToPrune
  \/ \E k \in Keys : KeepKey(k) \/ RemoveKey(k)
  \/ PruneDone
  \/ ShowToAdd
  \/ SkipPeer \/ AddPeer \/ AddDone

LEMMA QuietStep ==
  ASSUME TypeOK, [Next]_vars, quiet', ~dirty'
  PROVE  \/ FetchPeers
         \/ /\ quiet /\ ~dirty
            /\ UNCHANGED <<remote, now, desired, dbfile>>
            /\ WorkStep \/ UNCHANGED <<iface, pc, i, current>>
<1>1. CASE FetchTorn \/ ChangeRemote \/ Tick \/ InterfaceDown \/ InterfaceUp \/ Crash
  BY <1>1 DEF FetchTorn, Begin, ChangeRemote, Tick, InterfaceDown, InterfaceUp, Crash
<1>2. CASE Refetch
  BY <1>2 DEF Refetch
<1>3. CASE PassEnds \/ NoInterface \/ GiveUp
  BY <1>3 DEF PassEnds, NoInterface, EndPass, GiveUp, world, outside
<1>4. CASE RevokeFails \/ AddFails \/ \E k \in Keys : RemoveKeyFails(k)
  BY <1>4 DEF RevokeFails, AddFails, RemoveKeyFails, CommandFails
<1>5. CASE KeepPeer \/ RevokePeer \/ SkipPeer \/ AddPeer
  BY <1>5 DEF WorkStep, KeepPeer, RevokePeer, SkipPeer, AddPeer, NextPeer, world, outside
<1>6. CASE \E k \in Keys : KeepKey(k) \/ RemoveKey(k)
  BY <1>6 DEF WorkStep, KeepKey, RemoveKey, PruneKey, world, outside
<1>7. CASE RevokeDone \/ PruneDone \/ AddDone
  BY <1>7 DEF WorkStep, RevokeDone, PruneDone, AddDone, world, outside
<1>8. CASE ShowToPrune \/ ShowToAdd
  BY <1>8 DEF WorkStep, ShowToPrune, ShowToAdd, ShowPeers, world, outside
<1>9. CASE UNCHANGED vars
  BY <1>9 DEF vars
<1>10. QED
  BY <1>1, <1>2, <1>3, <1>4, <1>5, <1>6, <1>7, <1>8, <1>9 DEF Next, Pass

(* Neither the listing nor the clock has moved, so nobody's standing has.   *)
LEMMA SameStanding ==
  ASSUME UNCHANGED <<now, desired, dbfile>>
  PROVE  /\ \A p : MustRevoke(p)' <=> MustRevoke(p)
         /\ \A p : IsServed(p, now)' <=> IsServed(p, now)
         /\ \A k : SearchByPubKey(dbfile, k)' = SearchByPubKey(dbfile, k)
         /\ ServedKeys(desired)' = ServedKeys(desired)
<1>1. \A p : MustRevoke(p)' <=> MustRevoke(p)
  BY DEF MustRevoke
<1>2. \A p : IsServed(p, now)' <=> IsServed(p, now)
  OBVIOUS
<1>3. \A k : SearchByPubKey(dbfile, k)' = SearchByPubKey(dbfile, k)
  BY DEF SearchByPubKey
<1>4. ServedKeys(desired)' = ServedKeys(desired)
  BY DEF ServedKeys, Peers
<1>5. QED
  BY <1>1, <1>2, <1>3, <1>4

LEMMA WorkExact ==
  ASSUME TypeOK, Fresh, quiet, Revoked, Pruned, Listed, Added,
         UNCHANGED <<remote, now, desired, dbfile>>, WorkStep
  PROVE  Revoked' /\ Pruned' /\ Listed' /\ Added'
<1>1. /\ desired \in Downloads /\ Len(desired) \in Nat
      /\ i \in Nat /\ dbfile = desired /\ current \subseteq Keys
  BY IndexType DEF TypeOK, Fresh
<1>2. ASSUME pc = "revoke", pc' = "revoke", i' = i + 1, OnInterface' \subseteq OnInterface,
             MustRevoke(ThisPeer) => GetPublicKey(ThisPeer) \notin OnInterface'
      PROVE  Revoked' /\ Pruned' /\ Listed' /\ Added'
  <2>1. Revoked'
    BY <1>1, <1>2, SameStanding DEF Revoked, ThisPeer
  <2>2. Pruned' /\ Listed' /\ Added'
    BY <1>2 DEF Pruned, Listed, Added
  <2>3. QED
    BY <2>1, <2>2
<1>3. CASE KeepPeer
  <2>1. pc = "revoke" /\ pc' = "revoke" /\ i' = i + 1 /\ OnInterface' = OnInterface
    BY <1>3 DEF KeepPeer, NextPeer, OnInterface
  <2>2. ~MustRevoke(ThisPeer)
    BY <1>3 DEF KeepPeer
  <2>3. QED
    BY <1>2, <2>1, <2>2
<1>4. CASE RevokePeer
  <2>1. pc = "revoke" /\ pc' = "revoke" /\ i' = i + 1
    BY <1>4 DEF RevokePeer, NextPeer
  <2>2. OnInterface' = OnInterface \ {GetPublicKey(ThisPeer)}
    BY <1>4, RemoveThis
  <2>3. QED
    BY <1>2, <2>1, <2>2
<1>5. CASE RevokeDone
  <2>1. /\ pc = "revoke" /\ pc' = "show" /\ OnInterface' = OnInterface
        /\ i > Len(desired)
    BY <1>1, <1>5 DEF RevokeDone, Left, OnInterface
  <2>2. Revoked'
    BY <1>1, <2>1, SameStanding DEF Revoked
  <2>3. Pruned' /\ Listed' /\ Added'
    BY <2>1 DEF Pruned, Listed, Added
  <2>4. QED
    BY <2>2, <2>3
<1>6. CASE ShowToPrune
  <2>1. /\ pc = "show" /\ pc' = "prune" /\ OnInterface' = OnInterface
        /\ current' = OnInterface
    BY <1>6 DEF ShowToPrune, ShowPeers, OnInterface
  <2>2. Revoked'
    BY <1>1, <2>1, SameStanding DEF Revoked
  <2>3. Pruned' /\ Listed' /\ Added'
    BY <2>1 DEF Pruned, Listed, Added
  <2>4. QED
    BY <2>2, <2>3
<1>7. ASSUME NEW k \in Keys, KeepKey(k) \/ RemoveKey(k)
      PROVE  Revoked' /\ Pruned' /\ Listed' /\ Added'
  <2>1. pc = "prune" /\ pc' = "prune" /\ current' = current \ {k}
    BY <1>7 DEF KeepKey, RemoveKey, PruneKey
  <2>2. /\ OnInterface' \subseteq OnInterface
        /\ k \in OnInterface' => SearchByPubKey(dbfile, k) # {}
    <3>1. CASE KeepKey(k)
      BY <3>1 DEF KeepKey, OnInterface
    <3>2. CASE RemoveKey(k)
      BY <3>2, RemoveOne DEF RemoveKey
    <3>3. QED
      BY <1>7, <3>1, <3>2
  <2>3. Revoked'
    BY <1>1, <2>1, <2>2, SameStanding DEF Revoked
  <2>4. Pruned'
    BY <2>1, <2>2, SameStanding DEF Pruned
  <2>5. Listed' /\ Added'
    BY <2>1 DEF Listed, Added
  <2>6. QED
    BY <2>3, <2>4, <2>5
<1>8. CASE PruneDone
  <2>1. /\ pc = "prune" /\ pc' = "show again" /\ OnInterface' = OnInterface
        /\ current = {}
    BY <1>8 DEF PruneDone, OnInterface
  <2>2. Revoked'
    BY <1>1, <2>1, SameStanding DEF Revoked
  <2>3. Pruned'
    BY <2>1, SameStanding DEF Pruned
  <2>4. Listed' /\ Added'
    BY <2>1 DEF Listed, Added
  <2>5. QED
    BY <2>2, <2>3, <2>4
(* Here the three phases meet: an active peer has every key that is left,   *)
(* and it is not one to be revoked, or the key would be gone.               *)
<1>9. CASE ShowToAdd
  <2>1. /\ pc = "show again" /\ pc' = "add" /\ OnInterface' = OnInterface
        /\ current' = OnInterface /\ i' = 1
    BY <1>9 DEF ShowToAdd, ShowPeers, OnInterface
  <2>2. ASSUME NEW k \in OnInterface PROVE k \in ServedKeys(desired)
    <3>1. PICK j \in 1 .. Len(desired) :
            GetStatus(desired[j], now) = "active" /\ GetPublicKey(desired[j]) = k
      BY <1>1, <2>1 DEF Pruned, SearchByPubKey
    <3>2. ~MustRevoke(desired[j])
      BY <2>1, <3>1 DEF Revoked
    <3>3. IsServed(desired[j], now)
      BY <3>1, <3>2 DEF MustRevoke, IsServed
    <3>4. QED
      BY <1>1, <3>1, <3>3, ServedKey
  <2>3. Listed'
    BY <2>1, <2>2, SameStanding DEF Listed
  <2>4. Added'
    <3>1. \A j \in 1 .. Len(desired') : ~(j < i')
      <4>1. i' = 1 /\ Len(desired') \in Nat
        BY <1>1, <2>1
      <4>2. QED
        BY <4>1
    <3>2. current' \subseteq OnInterface'
      BY <2>1
    <3>3. QED
      BY <2>1, <3>1, <3>2 DEF Added
  <2>5. Revoked' /\ Pruned'
    BY <2>1 DEF Revoked, Pruned
  <2>6. QED
    BY <2>3, <2>4, <2>5
<1>10. CASE SkipPeer
  <2>1. /\ pc = "add" /\ pc' = "add" /\ OnInterface' = OnInterface
        /\ current' = current /\ i' = i + 1 /\ ~MustAdd(ThisPeer)
    BY <1>10 DEF SkipPeer, NextPeer, OnInterface
  <2>2. IsServed(ThisPeer, now) => GetPublicKey(ThisPeer) \in OnInterface
    BY <2>1 DEF MustAdd, Added
  <2>3. Added'
    BY <1>1, <2>1, <2>2, SameStanding DEF Added, ThisPeer
  <2>4. Listed'
    BY <2>1, SameStanding DEF Listed
  <2>5. Revoked' /\ Pruned'
    BY <2>1 DEF Revoked, Pruned
  <2>6. QED
    BY <2>3, <2>4, <2>5
<1>11. CASE AddPeer
  <2>1. /\ pc = "add" /\ pc' = "add" /\ current' = current /\ i' = i + 1
        /\ IsServed(ThisPeer, now)
    BY <1>11 DEF AddPeer, NextPeer, MustAdd
  <2>2. OnInterface' = OnInterface \cup {GetPublicKey(ThisPeer)}
    BY <1>11, AddOne
  <2>3. GetPublicKey(ThisPeer) \in ServedKeys(desired)
    <3>1. i \in 1 .. Len(desired)
      BY <1>11, ThisPeerType DEF AddPeer
    <3>2. QED
      BY <1>1, <2>1, <3>1, ServedKey DEF ThisPeer
  <2>4. Added'
    BY <1>1, <2>1, <2>2, SameStanding DEF Added, ThisPeer
  <2>5. Listed'
    BY <2>1, <2>2, <2>3, SameStanding DEF Listed
  <2>6. Revoked' /\ Pruned'
    BY <2>1 DEF Revoked, Pruned
  <2>7. QED
    BY <2>4, <2>5, <2>6
<1>12. CASE AddDone
  <2>1. /\ pc = "add" /\ pc' = "done" /\ OnInterface' = OnInterface
        /\ i > Len(desired)
    BY <1>1, <1>12 DEF AddDone, Left, OnInterface
  <2>2. Added'
    BY <1>1, <2>1, SameStanding DEF Added
  <2>3. Listed'
    BY <2>1, SameStanding DEF Listed
  <2>4. Revoked' /\ Pruned'
    BY <2>1 DEF Revoked, Pruned
  <2>5. QED
    BY <2>2, <2>3, <2>4
<1>13. QED
  BY <1>3, <1>4, <1>5, <1>6, <1>7, <1>8, <1>9, <1>10, <1>11, <1>12 DEF WorkStep

LEMMA NextExact ==
  ASSUME ExactInv, [Next]_vars
  PROVE  ExactInv'
<1>1. TypeOK /\ TypeOK' /\ Fresh /\ Fresh' /\ Exact
  BY NextType, NextFresh DEF ExactInv
<1>2. ASSUME quiet', ~dirty'
      PROVE  Revoked' /\ Pruned' /\ Listed' /\ Added'
  <2>1. CASE FetchPeers
    <3>1. pc' = "revoke" /\ i' = 1
      BY <2>1 DEF FetchPeers, Begin
    <3>2. QED
      BY <3>1 DEF Revoked, Pruned, Listed, Added
  <2>2. CASE /\ quiet /\ ~dirty
             /\ UNCHANGED <<remote, now, desired, dbfile>>
             /\ WorkStep \/ UNCHANGED <<iface, pc, i, current>>
    <3>1. Revoked /\ Pruned /\ Listed /\ Added
      BY <1>1, <2>2 DEF Exact
    <3>2. CASE WorkStep
      BY <1>1, <2>2, <3>1, <3>2, WorkExact
    <3>3. CASE UNCHANGED <<iface, pc, i, current>>
      <4>1. OnInterface' = OnInterface
        BY <3>3 DEF OnInterface
      <4>2. QED
        BY <2>2, <3>1, <3>3, <4>1, SameStanding DEF Revoked, Pruned, Listed, Added
    <3>4. QED
      BY <2>2, <3>2, <3>3
  <2>3. QED
    BY <1>1, <1>2, <2>1, <2>2, QuietStep
<1>3. QED
  BY <1>1, <1>2 DEF ExactInv, Exact

(* A pass may begin with any listing, if it is called undisturbed only with *)
(* the registry's.                                                          *)
LEMMA BeginKeeps ==
  ASSUME TypeOK, NEW l \in Downloads, NEW b \in BOOLEAN, Begin(l, b), b => l = remote,
         budget' \in [{"changes", "refetches", "errors", "bounces", "crashes"} -> Nat]
  PROVE  ExactInv' /\ RevokedInv' /\ iface' = iface
<1>1. TypeOK'
  BY BeginType
<1>2. pc' = "revoke" /\ i' = 1 /\ desired' = l /\ dbfile' = l /\ quiet' = b
      /\ remote' = remote /\ iface' = iface
  BY DEF Begin, outside
<1>3. Fresh'
  BY <1>2 DEF Fresh
<1>4. Revoked' /\ Pruned' /\ Listed' /\ Added'
  BY <1>2 DEF Revoked, Pruned, Listed, Added
<1>5. RevokedSoFar' /\ RevokedIsGone'
  BY <1>2 DEF RevokedSoFar, RevokedIsGone
<1>6. QED
  BY <1>1, <1>2, <1>3, <1>4, <1>5 DEF ExactInv, Exact, RevokedInv

(* A pass during which nobody else acted and no command failed ends with    *)
(* exactly the served keys of the registry on the interface, whatever was   *)
(* on it before, however many peers there are and even if they share keys.  *)
THEOREM PassesAreExact == Spec => []PassIsExact
<1>1. ExactInv => PassIsExact
  <2> SUFFICES ASSUME ExactInv, pc = "done", quiet, ~dirty
               PROVE  OnInterface = ServedKeys(remote)
    BY DEF PassIsExact
  <2>1. Listed /\ Added /\ desired = remote /\ desired \in Downloads
    BY DEF ExactInv, Exact, Fresh, TypeOK
  <2>2. OnInterface \subseteq ServedKeys(desired)
    BY <2>1 DEF Listed
  <2>3. ServedKeys(desired) \subseteq OnInterface
    BY <2>1, ServedKey DEF Added
  <2>4. QED
    BY <2>1, <2>2, <2>3
<1>2. QED
  BY <1>1, InitExact, NextExact, PTL DEF Spec

LEMMA KeptInStep ==
  ASSUME ExactInv, [Next]_vars, quiet', NEW p \in Peers(remote), IsServed(p, now),
         \A q \in Peers(remote) : GetPublicKey(q) = GetPublicKey(p) => q = p,
         iface[GetPublicKey(p)] # Absent
  PROVE  iface'[GetPublicKey(p)] # Absent
<1>1. TypeOK /\ remote \in Downloads
  BY WholeListing DEF ExactInv, TypeOK
<1>2. GetPublicKey(p) \in OnInterface
  <2>1. GetPublicKey(p) # NoKey
    BY ActiveHasKey DEF IsServed
  <2>2. GetPublicKey(p) \in Keys
    BY <1>1, <2>1, ListingType DEF Peers
  <2>3. QED
    BY <2>2 DEF OnInterface
<1>3. SUFFICES GetPublicKey(p) \in OnInterface'
  BY <1>3 DEF OnInterface
<1>4. CASE iface' = iface
  BY <1>2, <1>4 DEF OnInterface
<1>5. CASE RevokePeer
  <2>1. quiet
    BY <1>5 DEF RevokePeer, NextPeer
  <2>2. desired = remote
    BY <2>1 DEF ExactInv, Fresh
  <2>3. ThisPeer \in Peers(remote)
    BY <1>1, <1>5, <2>2, ThisPeerType DEF RevokePeer, Peers, ThisPeer
  <2>4. ThisPeer # p
    BY <1>5 DEF RevokePeer, MustRevoke, IsServed
  <2>5. GetPublicKey(ThisPeer) # GetPublicKey(p)
    BY <2>3, <2>4
  <2>6. QED
    BY <1>1, <1>2, <1>5, <2>5, RemoveThis
<1>6. ASSUME NEW k \in Keys, RemoveKey(k)
      PROVE  GetPublicKey(p) \in OnInterface'
  <2>1. quiet
    BY <1>6 DEF RemoveKey, PruneKey
  <2>2. dbfile = remote
    BY <2>1 DEF ExactInv, Fresh
  <2>3. SearchByPubKey(remote, GetPublicKey(p)) # {}
    BY DEF SearchByPubKey, Peers, IsServed
  <2>4. GetPublicKey(p) # k
    BY <1>6, <2>2, <2>3 DEF RemoveKey
  <2>5. QED
    BY <1>1, <1>2, <1>6, <2>4, RemoveOne DEF RemoveKey
<1>7. CASE AddPeer
  BY <1>1, <1>2, <1>7, AddOne
<1>8. CASE InterfaceDown
  BY <1>8 DEF InterfaceDown
<1>9. CASE \/ FetchPeers \/ FetchTorn \/ KeepPeer \/ RevokeFails \/ RevokeDone
           \/ ShowToPrune \/ ShowToAdd \/ PruneDone \/ SkipPeer \/ AddFails \/ AddDone
           \/ PassEnds \/ NoInterface \/ GiveUp
           \/ \E k \in Keys : KeepKey(k) \/ RemoveKeyFails(k)
  <2>1. iface' = iface
    BY <1>9 DEF FetchPeers, FetchTorn, Begin, KeepPeer, RevokeFails, RevokeDone,
                ShowToPrune, ShowToAdd, ShowPeers, PruneDone, SkipPeer, AddFails, AddDone,
                PassEnds, NoInterface, EndPass, GiveUp, KeepKey, RemoveKeyFails, CommandFails
  <2>2. QED
    BY <1>4, <2>1
<1>10. CASE ChangeRemote \/ Tick \/ Refetch \/ InterfaceUp \/ Crash \/ UNCHANGED vars
  <2>1. iface' = iface
    BY <1>10 DEF ChangeRemote, Tick, Refetch, InterfaceUp, Crash, vars
  <2>2. QED
    BY <1>4, <2>1
<1>11. QED
  BY <1>5, <1>6, <1>7, <1>8, <1>9, <1>10 DEF Next, Pass

(* An undisturbed pass never takes away, even between two of its commands,  *)
(* a key that belongs to one served peer only.                              *)
THEOREM ServedKeysStay == Spec => NoInterruption
<1>1. ASSUME ExactInv, [Next]_vars
      PROVE  [quiet' =>
                \A p \in Peers(remote) :
                  /\ IsServed(p, now)
                  /\ \A q \in Peers(remote) : GetPublicKey(q) = GetPublicKey(p) => q = p
                  /\ iface[GetPublicKey(p)] # Absent
                  => iface'[GetPublicKey(p)] # Absent]_vars
  BY <1>1, KeptInStep
<1>2. QED
  BY <1>1, InitExact, NextExact, PTL DEF Spec, NoInterruption
=============================================================================
