-------------------------------- MODULE Host --------------------------------
(***************************************************************************)
(* The two daemons of one host: SyncServers, and an instance of SyncPeers.  *)
(* What is the surroundings in each of those modules is here the other      *)
(* daemon: wg-quick takes the peers of the interface away with it, both     *)
(* download the registry into one file, and bolt's lock on that file, held  *)
(* for the whole of a sync-peers pass, makes sync-servers wait without a    *)
(* timeout.                                                                 *)
(***************************************************************************)
EXTENDS SyncServers, Peer, Sequences

CONSTANTS
  Keys, Listings, Absent, NoAddress, MaxTime, MaxErrors     \* of SyncPeers

(* That of SyncPeers.                                                       *)
ASSUME PeersAssumption ==
  /\ Keys \subseteq Nat \ {NoKey}
  /\ Listings \subseteq Seq(PeerObject)
  /\ \A l \in Listings : \A j \in 1 .. Len(l) : GetPublicKey(l[j]) \in Keys \cup {NoKey}
  /\ Absent # NoAddress /\ {Absent, NoAddress} \cap Addresses = {}
  /\ MaxTime \in Nat /\ MaxErrors \in Nat

VARIABLES
  remote, dbfile, now, keys, ppc, desired, i, current, failed, quiet,
  budget,     \* of SyncPeers, some under other names
  dbserver,   \* what the database file holds for the server; NoFile: nothing
  client,     \* the client of sync-servers: none, waiting for the lock, open
  peersClient \* and that of sync-peers

PeersOf == INSTANCE SyncPeers WITH
  up <- iface # Down, iface <- keys, pc <- ppc, dirty <- failed,
  MaxRefetches <- 0, MaxBounces <- 0

peersVars == <<remote, dbfile, now, keys, ppc, desired, i, current, failed, quiet, budget>>
passVars == <<now, ppc, desired, i, current, failed>>
hostVars == <<vars, dbserver, client, peersClient, peersVars>>

HostInit ==
  /\ Init /\ PeersOf!Init
  /\ dbserver = NoFile
  /\ client = "none" /\ peersClient = "none"

-----------------------------------------------------------------------------
(* Either daemon opens the registry by writing the whole of it to the one   *)
(* file, without asking for the lock, and then waits for the lock: it finds *)
(* in the file what the last download left there.                           *)

FetchFromGCS ==
  /\ dbfile' = remote /\ dbserver' = registry
  /\ UNCHANGED <<remote, budget>>

(* The download breaks off and nobody notices.                              *)
FetchTorn ==
  /\ dbfile' \in PeersOf!Torn(remote) /\ dbserver' \in {registry, NoFile}
  /\ PeersOf!Spend("errors")
  /\ UNCHANGED remote

Unlocked == client # "open" /\ peersClient # "open"

-----------------------------------------------------------------------------
(* sync-servers.                                                            *)

(* fetchState reads the configuration file first.                           *)
StartFetchState ==
  /\ pc = "sleep" /\ client = "none"
  /\ client' = "waiting"
  /\ localData' = file
  /\ quiet' = (quiet /\ dbfile' = dbfile)
  /\ UNCHANGED <<registry, file, dirty, iface, pc, remoteData, changes, crashes, reboots,
                 keys, passVars, peersClient>>

DownloadState == FetchFromGCS /\ StartFetchState
DownloadTornState == FetchTorn /\ StartFetchState

Lock ==
  /\ client = "waiting" /\ Unlocked
  /\ client' = "open"
  /\ UNCHANGED <<vars, dbserver, peersClient, peersVars>>

(* FetchState of SyncServers, from the file, and the close that follows.    *)
ReadState ==
  /\ client = "open"
  /\ dbserver \in Configs
  /\ pc' = "compare"
  /\ remoteData' = dbserver
  /\ UNCHANGED localData

(* The server is not in the file, or its key not decrypted.                 *)
ReadFails ==
  /\ client = "open"
  /\ dbserver \notin Configs
  /\ EndPass

ReadAndClose ==
  /\ ReadState \/ ReadFails
  /\ client' = "none"
  /\ UNCHANGED <<registry, file, dirty, iface, changes, crashes, reboots,
                 dbserver, peersClient, peersVars>>

(* Slip: the peers outlive the interface.                                   *)
RestartPeersStay == iface' # iface /\ UNCHANGED <<keys, quiet>>

(* wg-quick makes an interface without peers.                               *)
RestartPeers ==
  /\ iface' # iface
  /\ keys' = [k \in Keys |-> Absent]
  /\ quiet' = FALSE

Conciliate ==
  /\ \/ UpToDate \/ MustConciliate \/ SetDirty
     \/ TruncateFile \/ WriteFile \/ WGQuickDown
     \/ WGQuickUp \/ WGQuickUpFails \/ ClearDirty
  /\ RestartPeers \/ (iface' = iface /\ UNCHANGED <<keys, quiet>>)
  /\ UNCHANGED <<remote, dbfile, passVars, budget, dbserver, client, peersClient>>

(* Any other call of the pass that returns an error.                        *)
ServersGiveUp ==
  /\ GiveUp
  /\ PeersOf!Spend("errors")
  /\ UNCHANGED <<remote, dbfile, keys, passVars, quiet, dbserver, client, peersClient>>

SyncServersPass == DownloadState \/ Lock \/ ReadAndClose \/ Conciliate

(* sync-peers.                                                              *)

StartPeers ==
  /\ ppc = "sleep" /\ peersClient = "none"
  /\ peersClient' = "waiting"
  /\ quiet' = FALSE
  /\ UNCHANGED <<vars, client, keys, passVars>>

DownloadPeers == FetchFromGCS /\ StartPeers
DownloadTornPeers == FetchTorn /\ StartPeers

LockPeers ==
  /\ peersClient = "waiting" /\ Unlocked
  /\ peersClient' = "open"
  /\ UNCHANGED <<vars, budget, dbserver, client>>
  /\ PeersOf!Begin(dbfile, dbfile = remote)

(* The client is closed when conciliate returns.                            *)
ClosePeers == peersClient' = IF ppc' = "sleep" THEN "none" ELSE "open"

(* Slip: it is not, and the next pass would wait for it.                    *)
PeersPassKeepsOpen ==
  /\ UNCHANGED <<vars, dbserver, client, peersClient>>
  /\ ppc # "sleep" /\ PeersOf!Pass

PeersPass ==
  /\ UNCHANGED <<vars, dbserver, client>>
  /\ ppc # "sleep" /\ PeersOf!Pass
  /\ ClosePeers

SyncPeersPass == DownloadPeers \/ LockPeers \/ PeersPass

-----------------------------------------------------------------------------
(* The surroundings: edits of the registry, the clock, daemons that die,    *)
(* and a file that is no database.                                          *)

EditServer == ChangeServer /\ UNCHANGED <<peersVars, dbserver, client, peersClient>>

ChangePeers ==
  /\ UNCHANGED <<vars, dbserver, client, peersClient>>
  /\ PeersOf!ChangeRemote \/ PeersOf!Tick

StopPeers ==
  /\ UNCHANGED <<vars, dbserver, client>>
  /\ PeersOf!Crash \/ PeersOf!GiveUp
  /\ peersClient' = "none"

CrashServers ==
  /\ Crash
  /\ client' = "none"
  /\ UNCHANGED <<peersVars, dbserver, peersClient>>

OpenFails ==
  /\ Unlocked
  /\ PeersOf!Spend("errors")
  /\ \/ /\ client = "waiting" /\ client' = "none"
        /\ EndPass
        /\ UNCHANGED peersClient
     \/ /\ peersClient = "waiting" /\ peersClient' = "none"
        /\ UNCHANGED <<pc, localData, remoteData, client>>
  /\ UNCHANGED <<registry, file, dirty, iface, changes, crashes, reboots,
                 remote, dbfile, keys, passVars, quiet, dbserver>>

HostReboot ==
  /\ Reboot
  /\ client' = "none" /\ peersClient' = "none"
  /\ keys' = [k \in Keys |-> Absent]
  /\ ppc' = "sleep" /\ desired' = <<>> /\ i' = 1 /\ current' = {}
  /\ failed' = FALSE /\ quiet' = FALSE
  /\ UNCHANGED <<remote, dbfile, now, budget, dbserver>>

HostNext ==
  \/ SyncServersPass \/ SyncPeersPass
  \/ DownloadTornState \/ DownloadTornPeers \/ OpenFails \/ ServersGiveUp
  \/ EditServer \/ ChangePeers \/ StopPeers \/ CrashServers \/ HostReboot

HostSpec == HostInit /\ [][HostNext]_hostVars

(* Both loops run for ever, and a command that is tried in pass after pass  *)
(* does not fail every time, as in the modules of the daemons.  bolt does   *)
(* not find the lock taken for ever if it is free again and again.  A       *)
(* server that cannot be read stays so: nothing is assumed of ReadState.    *)
HostFairness ==
  /\ WF_hostVars(SyncServersPass) /\ WF_hostVars(SyncPeersPass)
  /\ SF_hostVars(Lock) /\ SF_hostVars(LockPeers)
  /\ SF_hostVars(Conciliate /\ WGQuickDown /\ iface' = Down)
  /\ SF_hostVars(Conciliate /\ WGQuickUp)
  /\ \A k \in Keys :
       /\ SF_hostVars(PeersPass /\ PeersOf!RevokePeer /\ GetPublicKey(desired[i]) = k)
       /\ SF_hostVars(PeersPass /\ PeersOf!RemoveKey(k))
       /\ SF_hostVars(PeersPass /\ PeersOf!AddPeer /\ GetPublicKey(desired[i]) = k)

HostFairSpec == HostSpec /\ HostFairness
-----------------------------------------------------------------------------
(* An interface that does not exist has no peers, and no pass counts as     *)
(* undisturbed that the other daemon has disturbed.                         *)
PassIsExact == (iface = Down => PeersOf!OnInterface = {}) /\ PeersOf!PassIsExact

(* Each daemon gets the lock in the end, although bolt waits for it without *)
(* a timeout and sync-peers holds it for whole passes.                      *)
GetsLock ==
  /\ client = "waiting" ~> client # "waiting"
  /\ peersClient = "waiting" ~> peersClient # "waiting"

(* Left alone, the two daemons bring the host to what the registry says for *)
(* good: the interface runs the server's configuration and serves the       *)
(* listed keys.  SyncPeers assumes that the interface comes up; here        *)
(* sync-servers has to do it.  After a reboot it does not.  If the host     *)
(* cannot read its server in the registry, the interface is left as it is,  *)
(* and as long as there is one its peers are still the listed ones.         *)
HostConverges ==
  <>[](IF iface = Down THEN reboots > 0 \/ registry = Unreadable
       ELSE /\ registry # Unreadable => iface = registry
            /\ PeersOf!OnInterface \ PeersOf!ContestedKeys(remote)
                 = PeersOf!ServedKeys(remote) \ PeersOf!ContestedKeys(remote))
=============================================================================
