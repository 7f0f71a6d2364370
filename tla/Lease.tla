-------------------------------- MODULE Lease --------------------------------
(***************************************************************************)
(* The life of one peer by the clock: how the lease and the link that the   *)
(* functions of Peer compute relate to the instants at which things really  *)
(* happened.                                                                *)
(*                                                                          *)
(* A tick is a fraction of a second.  Timestamps are stored in RFC 3339,    *)
(* which drops the fraction; RoundTime rounds it; time.Duration is an       *)
(* integer of Width bits, in which the age of the zero time saturates.      *)
(***************************************************************************)
EXTENDS Peer

CONSTANTS
  LinkLife,   \* the 15 minutes of a download link, in ticks
  DefaultDuration,   \* the 24h every "peer add" stores
  Day,        \* the 24 hours from which "peer list" counts in days, in ticks
  Width,      \* bits of a time.Duration
  MaxTime     \* bound: the last tick

ASSUME LeaseAssumption ==
  /\ DefaultDuration \in Durations
  /\ {LinkLife, Day, MaxTime} \subseteq Nat /\ Day > 0
  /\ Width \in Nat \ {0} /\ MaxTime < 2 ^ (Width - 1)
  /\ Addresses # {}

VARIABLES
  now,
  peer,
  created,   \* history: when createdAt was set
  updated    \* history: when updatedAt was set

leaseVars == <<now, peer, created, updated>>

(* time.Now().UTC().Format(time.RFC3339), parsed again.                     *)
Stamp(t) == t - (t % Resolution)

Specs == {spec \in [persistent : {NoKey, 1}, ip : {CHOOSE ip \in Addresses : TRUE},
                    action : ExpireActions, duration : Durations, blocked : BOOLEAN] :
            ~spec.blocked}
AddedSpecs == {spec \in Specs : spec.duration = DefaultDuration}

LeaseInit ==
  /\ now = 0
  /\ \E spec \in AddedSpecs :
       peer = [spec |-> spec, status |-> NoStatus, createdAt |-> 0, updatedAt |-> 0]
  /\ created = 0
  /\ updated = 0

-----------------------------------------------------------------------------
(* Peer().Update.                                                           *)
Store(p) ==
  /\ peer' = [p EXCEPT !.updatedAt = Stamp(now)]
  /\ updated' = now
  /\ UNCHANGED now

(* "peer add --override".                                                   *)
PeerAdd ==
  /\ \E spec \in AddedSpecs :
       Store([peer EXCEPT !.spec = spec, !.status = NoStatus, !.createdAt = Stamp(now)])
  /\ created' = now

PeerApply ==
  /\ \E spec \in Specs :
       peer.spec # spec /\ Store([peer EXCEPT !.spec = spec])
  /\ UNCHANGED created

PeerBlock == Store([peer EXCEPT !.spec.blocked = TRUE]) /\ UNCHANGED created
PeerUnblock == Store([peer EXCEPT !.spec.blocked = FALSE]) /\ UNCHANGED created

RenewPeer ==
  /\ ~peer.spec.blocked /\ peer.spec.persistent = NoKey
  /\ Store([peer EXCEPT !.createdAt = Stamp(now), !.status = [secret |-> 1, pub |-> NoKey]])
  /\ created' = now

(* Slip: the link is as old as the lease.                                   *)
LinkAliveFromCreation(p, t) == p.createdAt + LinkLife >= t

LinkAlive(p, t) == p.updatedAt + LinkLife >= t

DownloadConfig ==
  /\ peer.status.secret # NoSecret /\ ~peer.spec.blocked
  /\ LinkAlive(peer, now)
  /\ Store([peer EXCEPT !.status = [secret |-> NoSecret, pub |-> 1]])
  /\ UNCHANGED created

LeaseTick ==
  /\ now < MaxTime
  /\ now' = now + 1
  /\ UNCHANGED <<peer, created, updated>>

LeaseNext ==
  \/ PeerAdd \/ PeerApply \/ PeerBlock \/ PeerUnblock
  \/ RenewPeer \/ DownloadConfig \/ LeaseTick

LeaseSpec == LeaseInit /\ [][LeaseNext]_leaseVars

-----------------------------------------------------------------------------
(* The same arithmetic in a time.Duration.                                  *)

MaxDuration == 2 ^ (Width - 1) - 1

Wrap(d) == ((d + MaxDuration + 1) % (2 ^ Width)) - MaxDuration - 1

(* time.Time.Sub saturates.                                                 *)
Sub(t, start) == IF start = ZeroTime THEN MaxDuration ELSE t - start

(* Slip: rounding up stops at the largest duration.                         *)
RoundDurationClamped(d, r) ==
  LET abs == IF d < 0 THEN Wrap(-d) ELSE d
      m == abs % r
      rounded == IF m + m < r THEN abs - m
                 ELSE IF abs + r - m > MaxDuration THEN MaxDuration ELSE abs + r - m
  IN IF d < 0 THEN Wrap(-rounded) ELSE rounded

RoundDuration(d, r) ==
  LET abs == IF d < 0 THEN Wrap(-d) ELSE d
      m == abs % r
      rounded == IF m + m < r THEN abs - m ELSE Wrap(abs + r - m)
  IN IF d < 0 THEN Wrap(-rounded) ELSE rounded

Rest(p, t) == RoundDuration(Wrap(p.spec.duration - Sub(t, LeaseStart(p))), Resolution)

(* The column EXPIRE IN of "peer list".                                     *)
Never == -1
Dash == 0

(* Slip: a day that has begun counts as a whole one.                        *)
ExpireInRoundedUp(p, t) ==
  LET d == GetExpirationDuration(p, t)
  IN CASE p.spec.action = NeverExpire \/ p.spec.persistent # NoKey -> Never
       [] d <= 0 \/ GetPublicKey(p) = NoKey -> Dash
       [] d > Day -> ((d + Day - 1) \div Day) * Day
       [] OTHER -> d

ExpireIn(p, t) ==
  LET d == GetExpirationDuration(p, t)
  IN IF p.spec.action = NeverExpire \/ p.spec.persistent # NoKey THEN Never
     ELSE IF d <= 0 \/ GetPublicKey(p) = NoKey THEN Dash
     ELSE IF d > Day THEN (d \div Day) * Day
     ELSE d

-----------------------------------------------------------------------------
LeaseEnd ==
  peer.spec.duration + (IF peer.spec.action = ResetOnExpire THEN created ELSE updated)

(* "The duration is calculated using .metadata.createdAt", or updatedAt:    *)
(* whatever happens to the peer, its key expires at the real end of its     *)
(* lease, never later, and less than a second and a half earlier.           *)
LeaseIsExact ==
  GetPublicKey(peer) # NoKey /\ peer.spec.action \in {ResetOnExpire, BlockOnExpire} =>
    /\ now >= LeaseEnd => IsExpired(peer, now)
    /\ IsExpired(peer, now) => 2 * (LeaseEnd - now) < 3 * Resolution

(* A link works for 15 minutes, less at most the second the timestamp lost, *)
(* after the last command that touched the peer, and no longer.             *)
LinkIsShort ==
  peer.status.secret # NoSecret =>
    /\ LinkAlive(peer, now) => now <= updated + LinkLife
    /\ ~LinkAlive(peer, now) => now > updated + LinkLife - Resolution

(* What the list of the peers says of an active one that nobody edits, as   *)
(* sync-peers serves it: "expires in d" means for d, up to a second; and    *)
(* "never" means for good if no action was chosen.  But a persistent key    *)
(* with an action is shown as "never" too, and is served to the end of a    *)
(* lease that the list does not show.                                       *)
ListIsKept ==
  GetStatus(peer, now) = "active" =>
    LET shown == ExpireIn(peer, now)
    IN /\ shown # Dash
       /\ shown > 0 => \A later \in now .. now + shown - Resolution : IsServed(peer, later)
       /\ shown = Never /\ peer.spec.action = NeverExpire =>
            \A later \in now .. MaxTime : IsServed(peer, later)
       /\ shown = Never /\ peer.spec.action \in {ResetOnExpire, BlockOnExpire} =>
            \A later \in now .. MaxTime :
              /\ later >= LeaseEnd => ~IsServed(peer, later)
              /\ 2 * (LeaseEnd - later) >= 3 * Resolution => IsServed(peer, later)

(* "The public key to add to the peer, this key will never expire.": a      *)
(* persistent key is served unless an administrator blocks its peer.        *)
PersistentNeverExpires ==
  peer.spec.persistent # NoKey /\ ~peer.spec.blocked => IsServed(peer, now)

(* Peer computes with integers: it says of every lease whether it has run   *)
(* out as a time.Duration does, the overflow of RoundTime included, which   *)
(* makes a peer with an unknown action and no duration live for centuries.  *)
WidthIsModelled ==
  GetPublicKey(peer) # NoKey => (Rest(peer, now) <= 0 <=> IsExpired(peer, now))
=============================================================================
