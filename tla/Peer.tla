-------------------------------- MODULE Peer --------------------------------
(***************************************************************************)
(* The peer object (pkg/api/types.go) and the pure functions the rest of    *)
(* the program derives from it (pkg/api/meta.go): which public key counts,  *)
(* in which phase the peer is, and whether its lease has run out.           *)
(*                                                                          *)
(* Time is a count of ticks.  Keys and secrets are random values, numbered  *)
(* in the order they were drawn; 0 stands for the nil key and for the empty *)
(* secret string.                                                           *)
(***************************************************************************)
EXTENDS Integers

CONSTANTS
  Addresses,      \* the IP addresses a peer may be given, each one a /32
  ExpireActions,  \* the values of spec.expireAction that inputs may carry
  Durations,      \* the values of spec.expireDuration, in ticks
  Resolution,     \* ticks per second: RoundTime works to the second
  ZeroTime        \* the zero time.Time, earlier than any lease can reach back

ASSUME TimeAssumption ==
  /\ Durations \subseteq Nat
  /\ Resolution \in Nat \ {0}
  /\ ZeroTime \in Int /\ ZeroTime < 0

NoKey == 0
NoSecret == 0

(* PeerExpireActionDefault, -Reset and -Block.  The field is a plain string *)
(* that only some commands validate, so ExpireActions may hold others.      *)
NeverExpire == ""
ResetOnExpire == "reset"
BlockOnExpire == "block"

PeerSpec == [persistent : Nat, ip : Addresses, action : ExpireActions,
             duration : Durations, blocked : BOOLEAN]
PeerStatus == [secret : Nat, pub : Nat]
PeerObject == [spec : PeerSpec, status : PeerStatus,
               createdAt : Nat, updatedAt : Nat]

NoStatus == [secret |-> NoSecret, pub |-> NoKey]

-----------------------------------------------------------------------------
(* Half-up rounding of a possibly negative duration d to a multiple of r.   *)
RoundTime(d, r) ==
  LET abs == IF d < 0 THEN -d ELSE d
      m == abs % r
      rounded == IF m + m < r THEN abs - m ELSE abs + r - m
  IN IF d < 0 THEN -rounded ELSE rounded

GetPublicKey(p) ==
  IF p.spec.persistent # NoKey THEN p.spec.persistent ELSE p.status.pub

(* Slip: "reset" leases, too, are counted from the last update.  An         *)
(* operator commented "Slip" is not part of the model: it is the one after  *)
(* it with a mistake, and shows that a property notices it.                 *)
LeaseStartUpdated(p) ==
  IF p.spec.action \in {BlockOnExpire, ResetOnExpire} THEN p.updatedAt ELSE ZeroTime

(* The instant a lease is counted from.  An unknown action leaves t at the  *)
(* zero time.                                                               *)
LeaseStart(p) ==
  CASE p.spec.action = BlockOnExpire -> p.updatedAt
    [] p.spec.action = ResetOnExpire -> p.createdAt
    [] OTHER -> ZeroTime

(* Subtracting the zero time saturates at the largest time.Duration; when   *)
(* there is no duration to set against it, RoundTime overflows and the      *)
(* lease comes out as centuries.  What matters is that this is positive.    *)
Overflows(p) == LeaseStart(p) = ZeroTime /\ p.spec.duration = 0
Centuries == 1

GetExpirationDuration(p, t) ==
  CASE GetPublicKey(p) = NoKey -> 0
    [] GetPublicKey(p) # NoKey /\ Overflows(p) -> Centuries
    [] OTHER -> RoundTime(p.spec.duration - (t - LeaseStart(p)), Resolution)

IsExpired(p, t) == GetExpirationDuration(p, t) <= 0

ShouldAutoLock(p, t) == p.spec.action # NeverExpire /\ IsExpired(p, t)

GetStatus(p, t) ==
  CASE p.spec.blocked -> "blocked"
    [] ~p.spec.blocked /\ GetPublicKey(p) = NoKey -> "pending"
    [] /\ ~p.spec.blocked
       /\ GetPublicKey(p) # NoKey
       /\ p.spec.action # NeverExpire
       /\ p.spec.persistent = NoKey
       /\ IsExpired(p, t) -> "expired"
    [] OTHER -> "active"

(* What the peer daemon keeps on the interface: PeerActive and not due for  *)
(* locking (pkg/cli/daemons.go, the add loop).                              *)
IsServed(p, t) == GetStatus(p, t) = "active" /\ ~ShouldAutoLock(p, t)
=============================================================================
