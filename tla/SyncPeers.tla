------------------------------ MODULE SyncPeers ------------------------------
(***************************************************************************)
(* The "sync-peers" daemon of one host (pkg/cli/daemons.go): it keeps the   *)
(* peers of the WireGuard interface equal to the peers the registry lists   *)
(* for its server.                                                          *)
(*                                                                          *)
(* A pass works in three phases on three readings of the world taken at     *)
(* different moments: the listing (desired), the local database file that   *)
(* SearchByPubKey reads again for every key, and the output of "wg show".   *)
(* Meanwhile the registry is edited, leases run out, the sync-servers       *)
(* daemon downloads the same database file again and takes the interface,   *)
(* with all its peers, down and up.                                         *)
(***************************************************************************)
EXTENDS Peer, Sequences

CONSTANTS
  Keys,                   \* public keys
  Listings,               \* what the registry may list for this server
  Absent, NoAddress,      \* a key that is not on the interface, or has no IP
  MaxTime,                \* bound: clock ticks
  MaxChanges,             \* bound: edits of the registry
  MaxRefetches,           \* bound: downloads by the sync-servers daemon
  MaxErrors,              \* bound: downloads that break off unnoticed and
                          \* passes that an error ends while all is up
  MaxBounces,             \* bound: times the interface is taken down
  MaxCrashes              \* bound: times this daemon dies

ASSUME SyncPeersAssumption ==
  /\ Keys \subseteq Nat \ {NoKey}
  /\ Listings \subseteq Seq(PeerObject)
  /\ \A l \in Listings : \A j \in 1 .. Len(l) : GetPublicKey(l[j]) \in Keys \cup {NoKey}
  /\ Absent # NoAddress /\ {Absent, NoAddress} \cap Addresses = {}
  /\ MaxTime \in Nat /\ MaxChanges \in Nat /\ MaxRefetches \in Nat
  /\ MaxErrors \in Nat
  /\ MaxBounces \in Nat /\ MaxCrashes \in Nat

VARIABLES
  remote,    \* the listing in the registry
  dbfile,    \* the listing in the local database file
  now,       \* the clock
  up,        \* whether the interface exists
  iface,     \* the allowed IP of every key on the interface
  pc,        \* where the daemon is in its pass
  desired,   \* the listing as the last pass read it
  i,         \* the peer of desired that is next
  current,   \* keys of the last "wg show"; in the second phase, those left
  dirty,     \* whether a wg command of the last pass failed
  quiet,     \* history: in a pass, nothing else acted since it began
  budget     \* what is left of the bounds

vars == <<remote, dbfile, now, up, iface, pc, desired, i, current, dirty, quiet, budget>>
outside == <<remote, now, up>>
world == <<outside, budget>>

(* What is listed of a database file that was cut off: the cursor stops at  *)
(* the first key that is not there.                                         *)
Torn(listing) == {SubSeq(listing, 1, n) : n \in 0 .. Len(listing)}
Downloads == {<<>>} \cup UNION {Torn(l) : l \in Listings}

None == [k \in Keys |-> Absent]
OnInterface == {k \in Keys : iface[k] # Absent}

Init ==
  /\ remote \in Listings
  /\ dbfile = <<>>
  /\ now = 0
  /\ up = FALSE
  /\ iface = None
  /\ pc = "sleep"
  /\ desired = <<>>
  /\ i = 1
  /\ current = {}
  /\ dirty = FALSE
  /\ quiet = FALSE
  /\ budget = [changes |-> MaxChanges, refetches |-> MaxRefetches,
               errors |-> MaxErrors, bounces |-> MaxBounces, crashes |-> MaxCrashes]

-----------------------------------------------------------------------------
(* The pass.  A failed "wg set" is counted and the pass goes on; any other  *)
(* error ends it.                                                           *)

Spend(what) ==
  /\ budget[what] > 0
  /\ budget' = [budget EXCEPT ![what] = @ - 1]

Begin(listing, isQuiet) ==
  /\ pc = "sleep"
  /\ pc' = "revoke"
  /\ dbfile' = listing
  /\ desired' = listing
  /\ i' = 1
  /\ dirty' = FALSE
  /\ quiet' = isQuiet
  /\ UNCHANGED <<iface, current>> /\ UNCHANGED outside

FetchPeers == Begin(remote, TRUE) /\ UNCHANGED budget

(* The download breaks off and nobody notices.  A file that is cut so that  *)
(* it does not open, or not all of it can be read, ends the pass instead.   *)
FetchTorn == \E l \in Torn(remote) : Begin(l, FALSE) /\ Spend("errors")

ThisPeer == desired[i]
Left == i <= Len(desired)

(* Slip: one peer is passed over.  An operator commented "Slip" is not part *)
(* of the model: it is the one after it with a mistake, and shows that a    *)
(* property notices it.                                                     *)
NextPeerButOne ==
  /\ i' = i + 2
  /\ UNCHANGED <<dbfile, pc, desired, current, quiet>> /\ UNCHANGED world

(* The step is done with desired[i].                                        *)
NextPeer ==
  /\ i' = i + 1
  /\ UNCHANGED <<dbfile, pc, desired, current, quiet>> /\ UNCHANGED world

(* Slip: the failure is not counted.                                        *)
CommandFailsUncounted == UNCHANGED <<dirty, iface>>

CommandFails == dirty' = TRUE /\ UNCHANGED iface

(* Slip: only blocked peers are revoked.                                    *)
MustRevokeBlocked(p) == GetStatus(p, now) = "blocked"

MustRevoke(p) ==
  \/ GetStatus(p, now) = "blocked"
  \/ GetStatus(p, now) = "active" /\ ShouldAutoLock(p, now)

KeepPeer ==
  /\ pc = "revoke" /\ Left
  /\ ~MustRevoke(ThisPeer)
  /\ NextPeer
  /\ UNCHANGED <<iface, dirty>>

RevokePeer ==
  /\ pc = "revoke" /\ Left
  /\ MustRevoke(ThisPeer)
  /\ up /\ GetPublicKey(ThisPeer) # NoKey
  /\ iface' = [iface EXCEPT ![GetPublicKey(ThisPeer)] = Absent]
  /\ NextPeer
  /\ UNCHANGED dirty

(* In particular there is no interface, or a peer that was blocked before   *)
(* it had a key is removed by the empty string.                             *)
RevokeFails ==
  /\ pc = "revoke" /\ Left
  /\ MustRevoke(ThisPeer)
  /\ CommandFails
  /\ NextPeer

RevokeDone ==
  /\ pc = "revoke" /\ ~Left
  /\ pc' = "show"
  /\ UNCHANGED <<dbfile, iface, desired, i, current, dirty, quiet>> /\ UNCHANGED world

ShowPeers(from, to) ==
  /\ pc = from
  /\ up
  /\ pc' = to
  /\ current' = OnInterface
  /\ i' = 1
  /\ UNCHANGED <<dbfile, iface, desired, dirty, quiet>> /\ UNCHANGED world

ShowToPrune == ShowPeers("show", "prune")
ShowToAdd == ShowPeers("show again", "add")

(* Slip: only persistent keys are compared.                                 *)
SearchByPersistentKey(listing, k) ==
  {j \in 1 .. Len(listing) :
     GetStatus(listing[j], now) = "active" /\ listing[j].spec.persistent = k}

(* Slip: a peer that is merely not blocked keeps its key.                   *)
SearchUnblocked(listing, k) ==
  {j \in 1 .. Len(listing) :
     GetStatus(listing[j], now) # "blocked" /\ GetPublicKey(listing[j]) = k}

SearchByPubKey(listing, k) ==
  {j \in 1 .. Len(listing) :
     GetStatus(listing[j], now) = "active" /\ GetPublicKey(listing[j]) = k}

PruneKey(k) ==
  /\ pc = "prune" /\ k \in current
  /\ current' = current \ {k}
  /\ UNCHANGED <<dbfile, pc, desired, i, quiet>> /\ UNCHANGED world

KeepKey(k) ==
  /\ PruneKey(k)
  /\ SearchByPubKey(dbfile, k) # {}
  /\ UNCHANGED <<iface, dirty>>

RemoveKey(k) ==
  /\ PruneKey(k)
  /\ SearchByPubKey(dbfile, k) = {}
  /\ up
  /\ iface' = [iface EXCEPT ![k] = Absent]
  /\ UNCHANGED dirty

RemoveKeyFails(k) ==
  /\ PruneKey(k)
  /\ SearchByPubKey(dbfile, k) = {}
  /\ CommandFails

PruneDone ==
  /\ pc = "prune" /\ current = {}
  /\ pc' = "show again"
  /\ UNCHANGED <<dbfile, iface, desired, i, current, dirty, quiet>> /\ UNCHANGED world

MustAdd(p) == IsServed(p, now) /\ GetPublicKey(p) \notin current

SkipPeer ==
  /\ pc = "add" /\ Left
  /\ ~MustAdd(ThisPeer)
  /\ NextPeer
  /\ UNCHANGED <<iface, dirty>>

(* An address belongs to one key: "wg set" takes it from another that had   *)
(* it.                                                                      *)
AddPeer ==
  /\ pc = "add" /\ Left
  /\ MustAdd(ThisPeer)
  /\ up
  /\ iface' = [k \in Keys |->
                 IF k = GetPublicKey(ThisPeer) THEN ThisPeer.spec.ip
                 ELSE IF iface[k] = ThisPeer.spec.ip THEN NoAddress
                 ELSE iface[k]]
  /\ NextPeer
  /\ UNCHANGED dirty

AddFails ==
  /\ pc = "add" /\ Left
  /\ MustAdd(ThisPeer)
  /\ CommandFails
  /\ NextPeer

AddDone ==
  /\ pc = "add" /\ ~Left
  /\ pc' = "done"
  /\ UNCHANGED <<dbfile, iface, desired, i, current, dirty, quiet>> /\ UNCHANGED world

EndPass ==
  /\ pc' = "sleep"
  /\ i' = 1
  /\ current' = {}
  /\ quiet' = FALSE
  /\ UNCHANGED <<dbfile, iface, desired, dirty>> /\ UNCHANGED outside

(* The final log line, then the sleep.                                      *)
PassEnds ==
  /\ pc = "done"
  /\ EndPass
  /\ UNCHANGED budget

(* "wg show" fails for want of an interface; it, or the search, fails for   *)
(* another reason.                                                          *)
NoInterface ==
  /\ pc \in {"show", "show again"}
  /\ ~up
  /\ EndPass
  /\ UNCHANGED budget

GiveUp ==
  /\ pc \in {"show", "prune", "show again"}
  /\ Spend("errors")
  /\ EndPass

-----------------------------------------------------------------------------
(* The surroundings.                                                        *)

ChangeRemote ==
  /\ Spend("changes")
  /\ remote' \in Listings
  /\ quiet' = FALSE
  /\ UNCHANGED <<dbfile, now, up, iface, pc, desired, i, current, dirty>>

Tick ==
  /\ now < MaxTime
  /\ now' = now + 1
  /\ quiet' = FALSE
  /\ UNCHANGED <<remote, dbfile, up, iface, pc, desired, i, current, dirty, budget>>

(* sync-servers opens the registry with the same file name: the file is     *)
(* truncated and rewritten while this daemon has it mapped.                 *)
Refetch ==
  /\ Spend("refetches")
  /\ dbfile' \in Torn(remote)
  /\ quiet' = (quiet /\ dbfile' = dbfile)
  /\ UNCHANGED <<remote, now, up, iface, pc, desired, i, current, dirty>>

(* wg-quick, run by sync-servers; its file has no peers.                    *)
InterfaceDown ==
  /\ up
  /\ Spend("bounces")
  /\ up' = FALSE
  /\ iface' = None
  /\ quiet' = FALSE
  /\ UNCHANGED <<remote, dbfile, now, pc, desired, i, current, dirty>>

InterfaceUp ==
  /\ ~up
  /\ up' = TRUE
  /\ quiet' = FALSE
  /\ UNCHANGED <<remote, dbfile, now, iface, pc, desired, i, current, dirty, budget>>

(* Killed, or a fault on the mapping of the truncated file; systemd starts  *)
(* it again.                                                                *)
Crash ==
  /\ Spend("crashes")
  /\ pc' = "sleep"
  /\ desired' = <<>>
  /\ i' = 1
  /\ current' = {}
  /\ dirty' = FALSE
  /\ quiet' = FALSE
  /\ UNCHANGED <<remote, dbfile, now, up, iface>>

Pass ==
  \/ FetchPeers
  \/ KeepPeer \/ RevokePeer \/ RevokeFails \/ RevokeDone
  \/ ShowToPrune
  \/ \E k \in Keys : KeepKey(k) \/ RemoveKey(k) \/ RemoveKeyFails(k)
  \/ PruneDone
  \/ ShowToAdd
  \/ SkipPeer \/ AddPeer \/ AddFails \/ AddDone
  \/ PassEnds
  \/ NoInterface

Next ==
  \/ Pass \/ FetchTorn \/ GiveUp
  \/ ChangeRemote \/ Tick \/ Refetch \/ InterfaceDown \/ InterfaceUp \/ Crash

Spec == Init /\ [][Next]_vars

(* The loop runs for ever, sync-servers brings the interface up, and a      *)
(* command that is tried in pass after pass does not fail every time.       *)
Fairness ==
  /\ WF_vars(Pass)
  /\ WF_vars(InterfaceUp)
  /\ \A k \in Keys :
       /\ SF_vars(RevokePeer /\ GetPublicKey(ThisPeer) = k)
       /\ SF_vars(RemoveKey(k))
       /\ SF_vars(AddPeer /\ GetPublicKey(ThisPeer) = k)

FairSpec == Spec /\ Fairness
-----------------------------------------------------------------------------
TypeOK ==
  /\ remote \in Listings
  /\ dbfile \in Downloads
  /\ now \in 0 .. MaxTime
  /\ up \in BOOLEAN
  /\ iface \in [Keys -> Addresses \cup {NoAddress, Absent}]
  /\ pc \in {"sleep", "revoke", "show", "prune", "show again", "add", "done"}
  /\ desired \in Downloads
  /\ i \in 1 .. Len(desired) + 1
  /\ current \subseteq Keys
  /\ dirty \in BOOLEAN
  /\ quiet \in BOOLEAN
  /\ budget \in [{"changes", "refetches", "errors", "bounces", "crashes"} -> Nat]

Peers(listing) == {listing[j] : j \in 1 .. Len(listing)}
ServedKeys(listing) == {GetPublicKey(p) : p \in {q \in Peers(listing) : IsServed(q, now)}}

(* A pass during which nothing else happened and no command failed leaves   *)
(* exactly the keys of the peers to be served on the interface, whatever    *)
(* was there before and even if peers share a key.                          *)
PassIsExact ==
  pc = "done" /\ quiet /\ ~dirty => OnInterface = ServedKeys(remote)

(* A pass that read a peer as blocked and reports no failed command has     *)
(* removed its key, and the key stays away until the next pass, whatever    *)
(* happened in between; only another, unblocked peer with the same key      *)
(* could bring it back.                                                     *)
BlockedKeys(listing) ==
  {GetPublicKey(p) : p \in {q \in Peers(listing) : q.spec.blocked}}
    \ {GetPublicKey(p) : p \in {q \in Peers(listing) : ~q.spec.blocked}}

RevokedIsGone ==
  pc # "revoke" /\ ~dirty => OnInterface \cap BlockedKeys(desired) = {}

(* Once the registry, the clock, sync-servers and the daemon itself are     *)
(* left alone, the interface comes to serve what the registry lists, and    *)
(* nothing else, for good.  It never settles for a key that one peer is to  *)
(* lose and another to have: every pass takes it away and gives it back.    *)
ContestedKeys(listing) ==
  {GetPublicKey(p) : p \in {q \in Peers(listing) : MustRevoke(q)}} \cap ServedKeys(listing)

Converges ==
  <>[](/\ up
       /\ OnInterface \ ContestedKeys(remote) = ServedKeys(remote) \ ContestedKeys(remote))

(* An undisturbed pass does not disconnect, even for a moment, a key that   *)
(* belongs to a served peer and to no other.                                *)
NoInterruption ==
  [][quiet' =>
       \A p \in Peers(remote) :
         /\ IsServed(p, now)
         /\ \A q \in Peers(remote) : GetPublicKey(q) = GetPublicKey(p) => q = p
         /\ iface[GetPublicKey(p)] # Absent
         => iface'[GetPublicKey(p)] # Absent]_vars
=============================================================================
