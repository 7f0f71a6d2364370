------------------------------ MODULE HostProofs ------------------------------
(* The marker protocol of sync-servers, alone and on a host where it shares *)
(* the database file and the interface with sync-peers; and what a pass of  *)
(* sync-peers still achieves there.  For every set of configurations, keys  *)
(* and listings, and any number of edits, crashes and reboots.              *)
EXTENDS Host, TLAPS

-----------------------------------------------------------------------------
(* sync-servers.                                                            *)

(* The marker is there from before the file is touched until the interface  *)
(* runs it, and the pass knows what it has written.                         *)
Marked == pc \in {"write", "written", "down", "up", "clear"} => dirty
Rendered == pc # "sleep" => remoteData \in Configs
Written == pc \in {"down", "up", "clear"} => file = remoteData
Running == pc = "clear" => iface = file

MarkerInv ==
  /\ TypeOK
  /\ Marked /\ Rendered /\ Written /\ Running
  /\ CleanRunsFile /\ CleanIsUp

LEMMA InitMarker == Init => MarkerInv
<1> SUFFICES ASSUME Init PROVE MarkerInv
  OBVIOUS
<1>1. TypeOK
  <2>1. dirty \in BOOLEAN
    BY DEF Init
  <2>2. /\ changes \in 0 .. MaxChanges
        /\ crashes \in 0 .. MaxCrashes
        /\ reboots \in 0 .. MaxReboots
    BY SyncServersAssumption DEF Init
  <2>3. QED
    BY <2>1, <2>2 DEF Init, TypeOK, Contents
<1>2. Marked /\ Rendered /\ Written /\ Running
  BY DEF Init, Marked, Rendered, Written, Running
<1>3. CleanRunsFile /\ CleanIsUp
  BY SyncServersAssumption DEF Init, CleanRunsFile, CleanIsUp
<1>4. QED
  BY <1>1, <1>2, <1>3 DEF MarkerInv

LEMMA NextMarker ==
  ASSUME MarkerInv, [Next]_(vars)
  PROVE  MarkerInv'
<1> USE SyncServersAssumption
        DEF MarkerInv, TypeOK, Contents, Registries, Marked, Rendered, Written, Running,
            CleanRunsFile, CleanIsUp, Goto, EndPass, env
<1>0. CASE FetchFails \/ UNCHANGED vars
  BY <1>0 DEF FetchFails, vars
<1>1. CASE FetchState
  BY <1>1 DEF FetchState
<1>2. CASE UpToDate
  BY <1>2 DEF UpToDate
<1>3. CASE MustConciliate
  BY <1>3 DEF MustConciliate
<1>4. CASE SetDirty
  BY <1>4 DEF SetDirty
<1>5. CASE TruncateFile
  BY <1>5 DEF TruncateFile
<1>6. CASE WriteFile
  BY <1>6 DEF WriteFile
<1>7. CASE WGQuickDown
  BY <1>7 DEF WGQuickDown
<1>8. CASE WGQuickUp
  BY <1>8 DEF WGQuickUp
<1>9. CASE WGQuickUpFails
  BY <1>9 DEF WGQuickUpFails
<1>10. CASE ClearDirty
  BY <1>10 DEF ClearDirty
<1>11. CASE GiveUp
  BY <1>11 DEF GiveUp
<1>12. CASE ChangeServer
  BY <1>12 DEF ChangeServer
<1>13. CASE Crash
  BY <1>13 DEF Crash, Restart
<1>14. CASE Reboot
  BY <1>14 DEF Reboot, Restart
<1>15. QED
  BY <1>0, <1>1, <1>2, <1>3, <1>4, <1>5, <1>6, <1>7, <1>8, <1>9, <1>10, <1>11,
     <1>12, <1>13, <1>14
  DEF Next, Daemon

LEMMA MarkerInvariance == Spec => []MarkerInv
BY InitMarker, NextMarker, PTL DEF Spec

(* The files of sync-servers and the interface always hold one of the known *)
(* values.                                                                  *)
THEOREM TypeCorrect == Spec => []TypeOK
<1>1. MarkerInv => TypeOK
  BY DEF MarkerInv
<1>2. QED
  BY <1>1, MarkerInvariance, PTL

(* No crash, reboot or failed command, wherever it cuts a pass, leaves a    *)
(* stale interface or a half-written file without the marker that makes the *)
(* next pass do it again.                                                   *)
THEOREM NeverStaleAndClean == Spec => []CleanRunsFile
<1>1. MarkerInv => CleanRunsFile
  BY DEF MarkerInv
<1>2. QED
  BY <1>1, MarkerInvariance, PTL

(* On a host that has not rebooted, a file without the marker is one the    *)
(* interface is running.                                                    *)
THEOREM CleanMeansUp == Spec => []CleanIsUp
<1>1. MarkerInv => CleanIsUp
  BY DEF MarkerInv
<1>2. QED
  BY <1>1, MarkerInvariance, PTL

-----------------------------------------------------------------------------
(* sync-peers.  Its lemmas hold of the instance that is part of the host.   *)

P == INSTANCE SyncPeersProofs WITH
  up <- iface # Down, iface <- keys, pc <- ppc, dirty <- failed,
  MaxRefetches <- 0, MaxBounces <- 0

LEMMA InstanceAssumption == P!SyncPeersAssumption
BY SyncServersAssumption, PeersAssumption
DEF P!SyncPeersAssumption, P!NoKey, NoKey, P!PeerObject, PeerObject, P!PeerSpec, PeerSpec,
    P!PeerStatus, PeerStatus, P!GetPublicKey, GetPublicKey

LEMMA InstanceTime == P!TimeAssumption
BY TimeAssumption DEF P!TimeAssumption

(* The two instances mean the same.                                         *)
LEMMA SameStatus ==
  ASSUME NEW p, NEW t
  PROVE  /\ PeersOf!GetStatus(p, t) = P!GetStatus(p, t)
         /\ PeersOf!ShouldAutoLock(p, t) = P!ShouldAutoLock(p, t)
         /\ PeersOf!GetPublicKey(p) = P!GetPublicKey(p)
BY DEF PeersOf!GetStatus, PeersOf!IsExpired, PeersOf!GetExpirationDuration,
       PeersOf!RoundTime, PeersOf!Overflows, PeersOf!LeaseStart, PeersOf!GetPublicKey,
       PeersOf!NoKey, PeersOf!NeverExpire, PeersOf!ResetOnExpire, PeersOf!BlockOnExpire,
       PeersOf!Centuries, PeersOf!ShouldAutoLock,
       P!GetStatus, P!IsExpired, P!GetExpirationDuration,
       P!RoundTime, P!Overflows, P!LeaseStart, P!GetPublicKey,
       P!NoKey, P!NeverExpire, P!ResetOnExpire, P!BlockOnExpire,
       P!Centuries, P!ShouldAutoLock

LEMMA SamePass == PeersOf!Pass => P!Pass
BY SameStatus
DEF PeersOf!Pass, PeersOf!FetchPeers, PeersOf!Begin, PeersOf!outside, PeersOf!world,
    PeersOf!KeepPeer, PeersOf!Left, PeersOf!MustRevoke, PeersOf!ThisPeer, PeersOf!NextPeer,
    PeersOf!RevokePeer, PeersOf!RevokeFails, PeersOf!CommandFails, PeersOf!RevokeDone,
    PeersOf!ShowToPrune, PeersOf!ShowPeers, PeersOf!OnInterface, PeersOf!KeepKey,
    PeersOf!PruneKey, PeersOf!SearchByPubKey, PeersOf!RemoveKey, PeersOf!RemoveKeyFails,
    PeersOf!PruneDone, PeersOf!ShowToAdd, PeersOf!SkipPeer, PeersOf!MustAdd,
    PeersOf!IsServed, PeersOf!AddPeer, PeersOf!AddFails, PeersOf!AddDone,
    PeersOf!PassEnds, PeersOf!NoInterface, PeersOf!EndPass, PeersOf!NoKey,
    P!Pass, P!FetchPeers, P!Begin, P!outside, P!world,
    P!KeepPeer, P!Left, P!MustRevoke, P!ThisPeer, P!NextPeer,
    P!RevokePeer, P!RevokeFails, P!CommandFails, P!RevokeDone,
    P!ShowToPrune, P!ShowPeers, P!OnInterface, P!KeepKey,
    P!PruneKey, P!SearchByPubKey, P!RemoveKey, P!RemoveKeyFails,
    P!PruneDone, P!ShowToAdd, P!SkipPeer, P!MustAdd,
    P!IsServed, P!AddPeer, P!AddFails, P!AddDone,
    P!PassEnds, P!NoInterface, P!EndPass, P!NoKey

LEMMA SameSurroundings ==
  /\ PeersOf!ChangeRemote => P!ChangeRemote
  /\ PeersOf!Tick => P!Tick
  /\ PeersOf!Crash => P!Crash
  /\ PeersOf!GiveUp => P!GiveUp
BY DEF PeersOf!ChangeRemote, PeersOf!Tick, PeersOf!Crash, PeersOf!GiveUp, PeersOf!Spend,
       PeersOf!EndPass, PeersOf!outside,
       P!ChangeRemote, P!Tick, P!Crash, P!GiveUp, P!Spend, P!EndPass, P!outside

LEMMA SameServed ==
  /\ PeersOf!OnInterface = P!OnInterface
  /\ PeersOf!ServedKeys(remote) = P!ServedKeys(remote)
BY SameStatus
DEF PeersOf!OnInterface, P!OnInterface, PeersOf!ServedKeys, P!ServedKeys,
    PeersOf!Peers, P!Peers, PeersOf!IsServed, P!IsServed

LEMMA SameProperties ==
  /\ PeersOf!PassIsExact <=> P!PassIsExact
  /\ PeersOf!RevokedIsGone <=> P!RevokedIsGone
BY SameServed, SameStatus
DEF PeersOf!PassIsExact, P!PassIsExact, PeersOf!RevokedIsGone, P!RevokedIsGone,
    PeersOf!BlockedKeys, P!BlockedKeys, PeersOf!Peers, P!Peers

(* Spending one of the bounds keeps them numbers.                           *)
LEMMA SpendOne ==
  ASSUME P!TypeOK, PeersOf!Spend("errors")
  PROVE  budget' \in [{"changes", "refetches", "errors", "bounces", "crashes"} -> Nat]
<1>1. P!Spend("errors")
  BY DEF PeersOf!Spend, P!Spend
<1>2. QED
  BY <1>1, P!SpendType, InstanceAssumption, InstanceTime

(* The steps of a pass of sync-peers after the lock, and of the registry    *)
(* and the clock, are steps of SyncPeers, so what is proved of those holds  *)
(* of them.                                                                 *)
PeersStep == PeersPass \/ ChangePeers \/ StopPeers

LEMMA PeersStepIsNext ==
  ASSUME PeersStep
  PROVE  P!Next /\ iface' = iface
<1>1. CASE PeersPass
  BY <1>1, SamePass DEF PeersPass, P!Next, vars
<1>2. CASE ChangePeers \/ StopPeers
  BY <1>2, SameSurroundings DEF ChangePeers, StopPeers, P!Next, vars
<1>3. QED
  BY <1>1, <1>2 DEF PeersStep

(* The lock lets the pass begin with what is in the file by then.           *)
LEMMA LockPeersBegins ==
  ASSUME LockPeers
  PROVE  P!Begin(dbfile, dbfile = remote)
BY DEF LockPeers, PeersOf!Begin, P!Begin, PeersOf!outside, P!outside

(* A download leaves a listing in the file, whole or not.                   *)
LEMMA DownloadedListing ==
  ASSUME P!TypeOK, FetchFromGCS \/ FetchTorn, registry \in Registries
  PROVE  /\ dbfile' \in P!Downloads /\ remote' = remote
         /\ dbserver' \in Registries \cup {NoFile}
         /\ budget' \in [{"changes", "refetches", "errors", "bounces", "crashes"} -> Nat]
<1>1. remote \in P!Torn(remote) /\ P!Torn(remote) \subseteq P!Downloads
  BY P!WholeListing, InstanceAssumption, InstanceTime DEF P!TypeOK
<1>2. PeersOf!Torn(remote) = P!Torn(remote)
  BY DEF PeersOf!Torn, P!Torn
<1>3. CASE FetchFromGCS
  BY <1>1, <1>3 DEF FetchFromGCS, P!TypeOK
<1>4. CASE FetchTorn
  BY <1>1, <1>2, <1>4, SpendOne DEF FetchTorn
<1>5. QED
  BY <1>3, <1>4

(* The other steps leave the pass alone: they replace its database file,    *)
(* or take the peers of the interface away.                                 *)
LEMMA ForeignStep ==
  ASSUME P!ExactInv, P!RevokedInv,
         UNCHANGED <<remote, now, ppc, desired, i, current, failed>>,
         dbfile' \in P!Downloads,
         budget' \in [{"changes", "refetches", "errors", "bounces", "crashes"} -> Nat],
         keys' \in {keys, [k \in Keys |-> Absent]},
         quiet' \in BOOLEAN,
         quiet' => quiet /\ UNCHANGED <<dbfile, keys>>
  PROVE  P!ExactInv' /\ P!RevokedInv'
<1>1. P!TypeOK'
  BY DEF P!ExactInv, P!TypeOK
<1>2. P!Fresh'
  BY DEF P!ExactInv, P!Fresh
<1>3. ASSUME quiet', ~failed'
      PROVE  P!Revoked' /\ P!Pruned' /\ P!Listed' /\ P!Added'
  <2>1. UNCHANGED <<now, ppc, desired, i, current, dbfile, keys>>
    BY <1>3
  <2>2. P!Revoked /\ P!Pruned /\ P!Listed /\ P!Added
    BY <1>3 DEF P!ExactInv, P!Exact
  <2>3. P!OnInterface' = P!OnInterface
    BY <2>1 DEF P!OnInterface
  <2>4. QED
    BY <2>1, <2>2, <2>3, P!SameStanding, InstanceAssumption, InstanceTime
    DEF P!Revoked, P!Pruned, P!Listed, P!Added
<1>4. P!OnInterface' = P!OnInterface \/ P!OnInterface' = {}
  BY DEF P!OnInterface
<1>5. P!RevokedSoFar' /\ P!RevokedIsGone'
  <2>1. P!BlockedKeys(desired)' = P!BlockedKeys(desired)
    BY DEF P!BlockedKeys, P!Peers
  <2>2. QED
    BY <1>4, <2>1 DEF P!RevokedInv, P!RevokedSoFar, P!RevokedIsGone
<1>6. QED
  BY <1>1, <1>2, <1>3, <1>5 DEF P!ExactInv, P!Exact, P!RevokedInv

-----------------------------------------------------------------------------
(* The host.                                                                *)

(* sync-servers waits for the lock only between two passes.                 *)
Waiting == client # "none" => pc = "sleep"

(* A download leaves in the database file what the registry held, or no     *)
(* server.                                                                  *)
Downloaded == dbserver \in Registries \cup {NoFile}

(* An interface that does not exist has no peers.                           *)
NoPeers == iface = Down => P!OnInterface = {}

HostInv ==
  /\ MarkerInv /\ Waiting /\ Downloaded
  /\ P!ExactInv /\ P!RevokedInv /\ NoPeers

LEMMA InitHost == HostInit => HostInv
<1> SUFFICES ASSUME HostInit PROVE HostInv
  OBVIOUS
<1>1. MarkerInv
  BY InitMarker DEF HostInit
<1>2. P!Init
  BY DEF HostInit, PeersOf!Init, P!Init, PeersOf!None, P!None
<1>3. P!ExactInv /\ P!RevokedInv
  BY <1>2, P!InitExact, P!InitRevoked, InstanceAssumption, InstanceTime
<1>4. NoPeers
  BY <1>2 DEF NoPeers, P!Init, P!None, P!OnInterface
<1>5. Waiting /\ Downloaded
  BY DEF HostInit, Waiting, Downloaded, PeersOf!Init
<1>6. QED
  BY <1>1, <1>3, <1>4, <1>5 DEF HostInv

(* Without an interface a pass of sync-peers changes no key.                *)
LEMMA DownKeepsKeys ==
  ASSUME P!Next, iface = Down, iface' = iface
  PROVE  P!OnInterface' \subseteq P!OnInterface
<1>1. CASE P!Pass
  <2>1. keys' = keys
    BY <1>1
    DEF P!Pass, P!FetchPeers, P!Begin, P!KeepPeer, P!RevokePeer, P!RevokeFails, P!CommandFails,
        P!RevokeDone, P!ShowToPrune, P!ShowToAdd, P!ShowPeers, P!KeepKey, P!RemoveKey,
        P!RemoveKeyFails, P!PruneDone, P!SkipPeer, P!AddPeer, P!AddFails, P!AddDone,
        P!PassEnds, P!NoInterface, P!EndPass
  <2>2. QED
    BY <2>1 DEF P!OnInterface
<1>2. CASE P!FetchTorn \/ P!GiveUp \/ P!ChangeRemote \/ P!Tick \/ P!Refetch \/ P!InterfaceUp \/ P!Crash
  <2>1. keys' = keys
    BY <1>2 DEF P!FetchTorn, P!Begin, P!GiveUp, P!EndPass, P!ChangeRemote, P!Tick, P!Refetch, P!InterfaceUp, P!Crash
  <2>2. QED
    BY <2>1 DEF P!OnInterface
<1>3. CASE P!InterfaceDown
  BY <1>3 DEF P!InterfaceDown
<1>4. QED
  BY <1>1, <1>2, <1>3 DEF P!Next

LEMMA NextHost ==
  ASSUME HostInv, [HostNext]_hostVars
  PROVE  HostInv'
<1> USE DEF HostInv
<1>0. /\ P!TypeOK /\ dbfile \in P!Downloads /\ remote \in Listings /\ quiet \in BOOLEAN
      /\ budget \in [{"changes", "refetches", "errors", "bounces", "crashes"} -> Nat]
      /\ registry \in Registries /\ file \in Contents
  BY DEF P!ExactInv, P!TypeOK, MarkerInv, TypeOK
<1>1. CASE PeersStep
  <2>1. P!Next /\ iface' = iface /\ UNCHANGED <<vars, dbserver, client>>
    BY <1>1, PeersStepIsNext DEF PeersStep, PeersPass, ChangePeers, StopPeers
  <2>2. P!ExactInv' /\ P!RevokedInv'
    BY <2>1, P!NextExact, P!NextRevoked, InstanceAssumption, InstanceTime
  <2>3. MarkerInv'
    BY <2>1, NextMarker
  <2>4. NoPeers'
    BY <2>1, DownKeepsKeys DEF NoPeers
  <2>5. Waiting' /\ Downloaded'
    BY <2>1 DEF Waiting, Downloaded, vars
  <2>6. QED
    BY <1>0, <2>2, <2>3, <2>4, <2>5
<1>2. CASE LockPeers
  <2>1. UNCHANGED <<vars, iface, dbserver, client, budget>>
    BY <1>2 DEF LockPeers, vars
  <2>2. P!Begin(dbfile, dbfile = remote)
    BY <1>2, LockPeersBegins
  <2>3. P!ExactInv' /\ P!RevokedInv' /\ keys' = keys
    <3>1. budget' \in [{"changes", "refetches", "errors", "bounces", "crashes"} -> Nat]
      BY <1>0, <2>1
    <3>2. (dbfile = remote) \in BOOLEAN
      OBVIOUS
    <3>3. QED
      BY <1>0, <2>2, <3>1, <3>2, P!BeginKeeps, InstanceAssumption, InstanceTime
  <2>4. MarkerInv'
    BY <2>1, NextMarker
  <2>5. NoPeers' /\ Waiting' /\ Downloaded'
    BY <2>1, <2>3 DEF NoPeers, P!OnInterface, Waiting, Downloaded, vars
  <2>6. QED
    BY <1>0, <2>3, <2>4, <2>5
<1>3. CASE DownloadState \/ DownloadTornState \/ DownloadPeers \/ DownloadTornPeers
  <2>1. FetchFromGCS \/ FetchTorn
    BY <1>3 DEF DownloadState, DownloadTornState, DownloadPeers, DownloadTornPeers
  <2>2. /\ dbfile' \in P!Downloads /\ remote' = remote
        /\ dbserver' \in Registries \cup {NoFile}
        /\ budget' \in [{"changes", "refetches", "errors", "bounces", "crashes"} -> Nat]
    BY <1>0, <2>1, DownloadedListing
  <2>3. CASE DownloadState \/ DownloadTornState
    <3>1. /\ pc = "sleep" /\ localData' = file
          /\ UNCHANGED <<registry, file, dirty, iface, pc, remoteData, changes, crashes, reboots>>
          /\ UNCHANGED <<now, keys, ppc, desired, i, current, failed>>
          /\ quiet' = (quiet /\ dbfile' = dbfile)
      BY <2>3 DEF DownloadState, DownloadTornState, StartFetchState, passVars
    <3>2. P!ExactInv' /\ P!RevokedInv'
      BY <1>0, <2>2, <3>1, ForeignStep
    <3>3. MarkerInv'
      BY <1>0, <3>1 DEF MarkerInv, TypeOK, Marked, Rendered, Written, Running, CleanRunsFile, CleanIsUp, Contents
    <3>4. NoPeers' /\ Waiting' /\ Downloaded'
      BY <2>2, <3>1 DEF NoPeers, P!OnInterface, Waiting, Downloaded
    <3>5. QED
      BY <1>0, <3>2, <3>3, <3>4
  <2>4. CASE DownloadPeers \/ DownloadTornPeers
    <3>1. /\ UNCHANGED <<vars, iface, client, now, keys, ppc, desired, i, current, failed>>
          /\ quiet' = FALSE
      BY <2>4 DEF DownloadPeers, DownloadTornPeers, StartPeers, passVars, vars
    <3>2. P!ExactInv' /\ P!RevokedInv'
      BY <1>0, <2>2, <3>1, ForeignStep
    <3>3. MarkerInv'
      BY <3>1, NextMarker
    <3>4. NoPeers' /\ Waiting' /\ Downloaded'
      BY <2>2, <3>1 DEF NoPeers, P!OnInterface, Waiting, Downloaded, vars
    <3>5. QED
      BY <1>0, <3>2, <3>3, <3>4
  <2>5. QED
    BY <1>3, <2>3, <2>4
<1>4. CASE Lock \/ ReadAndClose \/ EditServer \/ CrashServers \/ OpenFails
  <2>1. /\ UNCHANGED <<remote, dbfile, now, keys, ppc, desired, i, current, failed, quiet>>
        /\ UNCHANGED <<dbserver, iface>>
        /\ budget' \in [{"changes", "refetches", "errors", "bounces", "crashes"} -> Nat]
    <3>1. CASE OpenFails
      BY <1>0, <3>1, SpendOne DEF OpenFails, passVars
    <3>2. CASE Lock \/ ReadAndClose \/ EditServer \/ CrashServers
      BY <1>0, <3>2 DEF Lock, ReadAndClose, EditServer, ChangeServer, CrashServers, Crash,
                        peersVars, vars
    <3>3. QED
      BY <1>4, <3>1, <3>2
  <2>2. P!ExactInv' /\ P!RevokedInv'
    BY <1>0, <2>1, ForeignStep
  <2>3. NoPeers' /\ Downloaded'
    BY <2>1 DEF NoPeers, P!OnInterface, Downloaded
  <2>4. CASE Lock
    BY <1>0, <2>2, <2>3, <2>4, NextMarker DEF Lock, Waiting, vars
  <2>5. CASE ReadAndClose \/ OpenFails
    <3>1. /\ UNCHANGED <<registry, file, dirty, iface, changes, crashes, reboots>>
          /\ \/ pc' = "sleep" /\ remoteData' = NoFile /\ localData' = NoFile
             \/ UNCHANGED <<pc, remoteData, localData>>
             \/ pc' = "compare" /\ remoteData' \in Configs /\ UNCHANGED localData
      BY <2>5 DEF ReadAndClose, ReadState, ReadFails, OpenFails, EndPass
    <3>2. MarkerInv'
      BY <3>1 DEF MarkerInv, TypeOK, Marked, Rendered, Written, Running, CleanRunsFile, CleanIsUp, Contents
    <3>3. Waiting'
      BY <2>5 DEF Waiting, ReadAndClose, OpenFails
    <3>4. QED
      BY <1>0, <2>2, <2>3, <3>2, <3>3
  <2>6. CASE EditServer \/ CrashServers
    <3>1. MarkerInv'
      BY <2>6, NextMarker DEF EditServer, CrashServers, Next
    <3>2. Waiting'
      BY <2>6 DEF Waiting, EditServer, ChangeServer, CrashServers
    <3>3. QED
      BY <1>0, <2>2, <2>3, <3>1, <3>2
  <2>7. QED
    BY <1>4, <2>4, <2>5, <2>6
<1>5. CASE Conciliate \/ ServersGiveUp
  <2>1. Next /\ pc # "sleep" /\ UNCHANGED <<remote, dbfile, now, ppc, desired, i, current, failed, dbserver, client>>
    BY <1>5
    DEF Conciliate, ServersGiveUp, Next, Daemon, GiveUp, Goto, UpToDate, MustConciliate, SetDirty,
        TruncateFile, WriteFile, WGQuickDown, WGQuickUp, WGQuickUpFails, ClearDirty, passVars
  <2>2. MarkerInv'
    BY <2>1, NextMarker
  <2>3. Waiting' /\ Downloaded'
    BY <2>1 DEF Waiting, Downloaded
  <2>4. /\ \/ keys' = [k \in Keys |-> Absent] /\ quiet' = FALSE
           \/ iface' = iface /\ UNCHANGED <<keys, quiet>>
        /\ budget' \in [{"changes", "refetches", "errors", "bounces", "crashes"} -> Nat]
    BY <1>0, <1>5, SpendOne DEF Conciliate, RestartPeers, ServersGiveUp, GiveUp
  <2>5. P!ExactInv' /\ P!RevokedInv'
    <3>1. UNCHANGED <<remote, now, ppc, desired, i, current, failed, dbfile>>
      BY <2>1
    <3>2. /\ keys' \in {keys, [k \in Keys |-> Absent]}
          /\ quiet' \in BOOLEAN
          /\ quiet' => quiet /\ UNCHANGED <<dbfile, keys>>
      <4>1. CASE keys' = [k \in Keys |-> Absent] /\ quiet' = FALSE
        BY <4>1
      <4>2. CASE UNCHANGED <<keys, quiet>>
        BY <1>0, <3>1, <4>2
      <4>3. QED
        BY <2>4, <4>1, <4>2
    <3>3. dbfile' \in P!Downloads
      BY <1>0, <3>1
    <3>4. QED
      BY <2>4, <3>1, <3>2, <3>3, ForeignStep
  <2>6. NoPeers'
    BY <2>4 DEF NoPeers, P!OnInterface
  <2>7. QED
    BY <1>0, <2>2, <2>3, <2>5, <2>6
<1>6. CASE HostReboot
  <2>1. MarkerInv'
    BY <1>6, NextMarker DEF HostReboot, Next
  <2>2. /\ keys' = [k \in Keys |-> Absent] /\ ppc' = "sleep" /\ desired' = <<>>
        /\ i' = 1 /\ current' = {} /\ failed' = FALSE /\ quiet' = FALSE
        /\ UNCHANGED <<remote, dbfile, now, budget, dbserver>> /\ client' = "none"
    BY <1>6 DEF HostReboot
  <2>3. P!OnInterface' = {}
    BY <2>2 DEF P!OnInterface
  <2>4. P!TypeOK'
    <3>1. remote' \in Listings /\ dbfile' \in P!Downloads /\ now' \in 0 .. MaxTime
      BY <1>0, <2>2 DEF P!TypeOK
    <3>2. keys' \in [Keys -> Addresses \cup {NoAddress, Absent}]
      BY <2>2
    <3>3. i' \in 1 .. Len(desired') + 1 /\ desired' \in P!Downloads /\ current' \subseteq Keys
      BY <2>2 DEF P!Downloads
    <3>4. budget' \in [{"changes", "refetches", "errors", "bounces", "crashes"} -> Nat]
      BY <1>0, <2>2
    <3>5. QED
      BY <2>2, <3>1, <3>2, <3>3, <3>4 DEF P!TypeOK
  <2>5. P!ExactInv' /\ P!RevokedInv'
    BY <2>2, <2>3, <2>4 DEF P!ExactInv, P!Fresh, P!Exact, P!RevokedInv, P!RevokedSoFar, P!RevokedIsGone
  <2>6. NoPeers' /\ Waiting' /\ Downloaded'
    BY <2>2, <2>3 DEF NoPeers, Waiting, Downloaded
  <2>7. QED
    BY <2>1, <2>5, <2>6
<1>7. CASE UNCHANGED hostVars
  <2>1. UNCHANGED <<vars, peersVars, dbserver, client, iface, pc>>
    BY <1>7 DEF hostVars, vars
  <2>2. P!ExactInv' /\ P!RevokedInv'
    BY <1>0, <2>1, ForeignStep DEF peersVars
  <2>3. MarkerInv'
    BY <2>1, NextMarker
  <2>4. NoPeers' /\ Waiting' /\ Downloaded'
    BY <2>1 DEF NoPeers, P!OnInterface, Waiting, Downloaded, peersVars
  <2>5. QED
    BY <1>0, <2>2, <2>3, <2>4
<1>8. QED
  BY <1>1, <1>2, <1>3, <1>4, <1>5, <1>6, <1>7
  DEF HostNext, SyncServersPass, SyncPeersPass, PeersStep

LEMMA HostInvariance == HostSpec => []HostInv
BY InitHost, NextHost, PTL DEF HostSpec

(* On a host with both daemons, too, an undisturbed pass of sync-peers ends *)
(* with exactly the served keys on the interface, although sync-servers     *)
(* downloads into the file the pass reads and restarts the interface under  *)
(* it; and an interface that does not exist has no keys.                    *)
THEOREM HostPassesAreExact == HostSpec => []PassIsExact
<1>1. HostInv => PassIsExact
  <2> SUFFICES ASSUME HostInv PROVE PassIsExact
    OBVIOUS
  <2>1. iface = Down => PeersOf!OnInterface = {}
    BY SameServed DEF HostInv, NoPeers
  <2>2. P!PassIsExact
    <3> SUFFICES ASSUME ppc = "done", quiet, ~failed
                 PROVE  P!OnInterface = P!ServedKeys(remote)
      BY DEF P!PassIsExact
    <3>1. P!Listed /\ P!Added /\ desired = remote /\ desired \in P!Downloads
      BY DEF HostInv, P!ExactInv, P!Exact, P!Fresh, P!TypeOK
    <3>2. P!OnInterface \subseteq P!ServedKeys(remote)
      BY <3>1 DEF P!Listed
    <3>3. P!ServedKeys(remote) \subseteq P!OnInterface
      BY <3>1, P!ServedKey, InstanceAssumption, InstanceTime DEF P!Added
    <3>4. QED
      BY <3>2, <3>3
  <2>3. QED
    BY <2>1, <2>2, SameProperties DEF PassIsExact
<1>2. QED
  BY <1>1, HostInvariance, PTL

(* The marker does its work on that host as well: sync-servers there writes *)
(* the configuration it finds in the shared database file, which may be an  *)
(* older one than the registry's, or finds none that it can read.           *)
THEOREM HostNeverStaleAndClean == HostSpec => [](CleanRunsFile /\ CleanIsUp)
<1>1. HostInv => CleanRunsFile /\ CleanIsUp
  BY DEF HostInv, MarkerInv
<1>2. QED
  BY <1>1, HostInvariance, PTL

(* A restart of the interface never brings a revoked key back, nor does a   *)
(* download by the other daemon.                                            *)
THEOREM HostRevokedStaysGone == HostSpec => []PeersOf!RevokedIsGone
<1>1. HostInv => PeersOf!RevokedIsGone
  BY SameProperties DEF HostInv, P!RevokedInv
<1>2. QED
  BY <1>1, HostInvariance, PTL

(* Nor does sync-servers, unless it restarts the interface, make a pass of  *)
(* sync-peers interrupt a key that belongs to one served peer only.         *)
THEOREM HostServedKeysStay == HostSpec => PeersOf!NoInterruption
<1>1. ASSUME HostInv, [HostNext]_hostVars
      PROVE  [quiet' =>
                \A p \in PeersOf!Peers(remote) :
                  /\ PeersOf!IsServed(p, now)
                  /\ \A q \in PeersOf!Peers(remote) :
                       PeersOf!GetPublicKey(q) = PeersOf!GetPublicKey(p) => q = p
                  /\ keys[PeersOf!GetPublicKey(p)] # Absent
                  => keys'[PeersOf!GetPublicKey(p)] # Absent]_(PeersOf!vars)
  <2>1. CASE PeersStep
    <3>1. P!Next
      BY <2>1, PeersStepIsNext
    <3>2. SUFFICES ASSUME quiet', NEW p \in P!Peers(remote), P!IsServed(p, now),
                          \A q \in P!Peers(remote) : P!GetPublicKey(q) = P!GetPublicKey(p) => q = p,
                          keys[P!GetPublicKey(p)] # Absent
                   PROVE  keys'[P!GetPublicKey(p)] # Absent
      BY SameStatus DEF PeersOf!Peers, P!Peers, PeersOf!IsServed, P!IsServed
    <3>3. P!ExactInv
      BY <1>1 DEF HostInv
    <3>4. QED
      BY <3>1, <3>2, <3>3, P!KeptInStep, InstanceAssumption, InstanceTime
  <2>2. ASSUME ~PeersStep, quiet' PROVE keys' = keys
    <3>1. CASE Lock \/ ReadAndClose \/ EditServer \/ CrashServers \/ ServersGiveUp \/ OpenFails
      BY <3>1 DEF Lock, ReadAndClose, EditServer, CrashServers, ServersGiveUp, OpenFails, peersVars
    <3>2. CASE DownloadState \/ DownloadTornState \/ DownloadPeers \/ DownloadTornPeers
      BY <3>2 DEF DownloadState, DownloadTornState, StartFetchState, DownloadPeers,
                  DownloadTornPeers, StartPeers
    <3>3. CASE LockPeers
      BY <3>3 DEF LockPeers, PeersOf!Begin
    <3>4. CASE Conciliate
      BY <2>2, <3>4 DEF Conciliate, RestartPeers
    <3>5. CASE HostReboot
      BY <2>2, <3>5 DEF HostReboot
    <3>6. CASE UNCHANGED hostVars
      BY <3>6 DEF hostVars, peersVars
    <3>7. QED
      BY <1>1, <2>2, <3>1, <3>2, <3>3, <3>4, <3>5, <3>6
      DEF HostNext, SyncServersPass, SyncPeersPass, PeersStep
  <2>3. QED
    BY <2>1, <2>2
<1>2. QED
  BY <1>1, HostInvariance, PTL DEF HostSpec, PeersOf!NoInterruption
===============================================================================
