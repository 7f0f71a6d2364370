----------------------------- MODULE LeaseProofs -----------------------------
(* What the clock does to a peer: for any resolution of the clock, any      *)
(* durations and any instants, although timestamps drop the fraction of the *)
(* second and RoundTime rounds it.                                          *)
EXTENDS Lease, TLAPS

-----------------------------------------------------------------------------
(* The operators.                                                           *)

LEMMA Remainder ==
  ASSUME NEW r \in Nat \ {0}, NEW x \in Nat
  PROVE  /\ x % r \in 0 .. r - 1 /\ x % r <= x
         /\ x < r => x % r = x
OBVIOUS

(* A timestamp is early, by less than a second.                             *)
LEMMA StampIs ==
  ASSUME NEW t \in Nat
  PROVE  Stamp(t) \in Nat /\ Stamp(t) <= t /\ t < Stamp(t) + Resolution
<1> DEFINE m == t % Resolution
<1>1. Resolution \in Nat \ {0}
  BY TimeAssumption
<1>2. m \in 0 .. Resolution - 1 /\ m <= t
  BY <1>1, Remainder
<1>3. Stamp(t) = t - m
  BY DEF Stamp
<1> HIDE DEF m
<1>4. QED
  BY <1>1, <1>2, <1>3

(* Rounding a duration does not change by half a second or more, and makes  *)
(* nothing of what is shorter than half a second.                           *)
LEMMA RoundTimeIs ==
  ASSUME NEW d \in Int, NEW r \in Nat \ {0}
  PROVE  /\ RoundTime(d, r) \in Int
         /\ RoundTime(d, r) <= 0 <=> 2 * d < r
         /\ 2 * RoundTime(d, r) <= 2 * d + r
<1> DEFINE abs == IF d < 0 THEN -d ELSE d
           m == abs % r
           rounded == IF m + m < r THEN abs - m ELSE abs + r - m
<1>1. abs \in Nat /\ (d < 0 => abs = -d) /\ (~(d < 0) => abs = d)
  OBVIOUS
<1>2. RoundTime(d, r) = IF d < 0 THEN -rounded ELSE rounded
  BY DEF RoundTime
<1> HIDE DEF abs
<1>3. m \in 0 .. r - 1 /\ m <= abs /\ (abs < r => m = abs)
  BY <1>1, Remainder
<1> HIDE DEF m
<1>4. /\ rounded \in Nat
      /\ m + m < r => rounded = abs - m
      /\ ~(m + m < r) => rounded = abs + r - m
  BY <1>1, <1>3
<1> HIDE DEF rounded
<1>5. CASE d < 0
  BY <1>1, <1>2, <1>3, <1>4, <1>5
<1>6. CASE ~(d < 0)
  BY <1>1, <1>2, <1>3, <1>4, <1>6
<1>7. QED
  BY <1>5, <1>6

-----------------------------------------------------------------------------
(* The inductive invariant: the timestamps of the peer are those of the     *)
(* instants at which it was really stored.                                  *)
IInv ==
  /\ peer \in PeerObject
  /\ now \in 0 .. MaxTime /\ created \in 0 .. now /\ updated \in 0 .. now
  /\ peer.createdAt = Stamp(created) /\ peer.updatedAt = Stamp(updated)

LEMMA SpecsType == Specs \subseteq PeerSpec /\ AddedSpecs \subseteq PeerSpec
<1>1. (CHOOSE ip \in Addresses : TRUE) \in Addresses
  BY LeaseAssumption
<1>2. QED
  BY <1>1 DEF Specs, AddedSpecs, PeerSpec, NoKey

LEMMA InitInv == LeaseInit => IInv
<1> SUFFICES ASSUME LeaseInit PROVE IInv
  OBVIOUS
<1>1. PICK spec \in AddedSpecs :
        peer = [spec |-> spec, status |-> NoStatus, createdAt |-> 0, updatedAt |-> 0]
  BY DEF LeaseInit
<1>2. spec \in PeerSpec /\ NoStatus \in PeerStatus
  BY SpecsType DEF NoStatus, NoSecret, NoKey, PeerStatus
<1>3. Stamp(0) = 0
  BY StampIs
<1>4. QED
  BY <1>1, <1>2, <1>3, LeaseAssumption DEF LeaseInit, IInv, PeerObject

(* Whatever a command stores, it stores with the time of the day; and if it *)
(* sets createdAt, it sets that to the time of the day as well.             *)
LEMMA StoreInv ==
  ASSUME IInv, NEW p \in PeerObject, Store(p),
         \/ p.createdAt = peer.createdAt /\ created' = created
         \/ p.createdAt = Stamp(now) /\ created' = now
  PROVE  IInv'
<1>1. now \in Nat /\ Stamp(now) \in Nat /\ now' = now /\ updated' = now
  BY StampIs DEF IInv, Store
<1>2. peer' \in PeerObject /\ peer'.updatedAt = Stamp(now) /\ peer'.createdAt = p.createdAt
  BY <1>1 DEF Store, PeerObject
<1>3. QED
  BY <1>1, <1>2 DEF IInv, Stamp

LEMMA NextInv ==
  ASSUME IInv, [LeaseNext]_leaseVars
  PROVE  IInv'
<1>1. peer.spec \in PeerSpec /\ Stamp(now) \in Nat
  BY StampIs DEF IInv, PeerObject
<1>2. CASE PeerAdd
  <2>1. PICK spec \in AddedSpecs :
          Store([peer EXCEPT !.spec = spec, !.status = NoStatus, !.createdAt = Stamp(now)])
    BY <1>2 DEF PeerAdd
  <2> DEFINE p == [peer EXCEPT !.spec = spec, !.status = NoStatus, !.createdAt = Stamp(now)]
  <2>2. spec \in PeerSpec /\ NoStatus \in PeerStatus
    BY SpecsType DEF NoStatus, NoSecret, NoKey, PeerStatus
  <2>3. p \in PeerObject /\ p.createdAt = Stamp(now)
    BY <1>1, <2>2 DEF IInv, PeerObject
  <2> HIDE DEF p
  <2>4. Store(p) /\ created' = now
    BY <1>2, <2>1 DEF PeerAdd, p
  <2>5. QED
    BY <2>3, <2>4, StoreInv
<1>3. CASE PeerApply
  <2>1. PICK spec \in Specs : Store([peer EXCEPT !.spec = spec])
    BY <1>3 DEF PeerApply
  <2>2. [peer EXCEPT !.spec = spec] \in PeerObject
        /\ [peer EXCEPT !.spec = spec].createdAt = peer.createdAt
    BY SpecsType DEF IInv, PeerObject
  <2>3. QED
    BY <1>3, <2>1, <2>2, StoreInv DEF PeerApply
<1>4. ASSUME NEW b \in BOOLEAN
      PROVE  /\ [peer EXCEPT !.spec.blocked = b] \in PeerObject
             /\ [peer EXCEPT !.spec.blocked = b].createdAt = peer.createdAt
  BY <1>1 DEF IInv, PeerObject, PeerSpec
<1>5. CASE PeerBlock \/ PeerUnblock
  BY <1>4, <1>5, StoreInv DEF PeerBlock, PeerUnblock
<1>6. CASE RenewPeer
  <2> DEFINE p == [peer EXCEPT !.createdAt = Stamp(now), !.status = [secret |-> 1, pub |-> NoKey]]
  <2>1. p \in PeerObject /\ p.createdAt = Stamp(now)
    BY <1>1 DEF IInv, PeerObject, PeerStatus, NoKey
  <2> HIDE DEF p
  <2>2. QED
    BY <1>6, <2>1, StoreInv DEF RenewPeer, p
<1>7. CASE DownloadConfig
  <2> DEFINE p == [peer EXCEPT !.status = [secret |-> NoSecret, pub |-> 1]]
  <2>1. p \in PeerObject /\ p.createdAt = peer.createdAt
    BY DEF IInv, PeerObject, PeerStatus, NoSecret
  <2> HIDE DEF p
  <2>2. QED
    BY <1>7, <2>1, StoreInv DEF DownloadConfig, p
<1>8. CASE LeaseTick
  BY <1>8, LeaseAssumption DEF LeaseTick, IInv, Stamp
<1>9. CASE UNCHANGED leaseVars
  BY <1>9 DEF leaseVars, IInv, Stamp
<1>10. QED
  BY <1>2, <1>3, <1>5, <1>6, <1>7, <1>8, <1>9 DEF LeaseNext

LEMMA Invariance == LeaseSpec => []IInv
<1>1. QED
  BY InitInv, NextInv, PTL DEF LeaseSpec

-----------------------------------------------------------------------------
LEMMA LeaseStartType ==
  ASSUME NEW p \in PeerObject
  PROVE  /\ LeaseStart(p) \in Int /\ p.spec.duration \in Nat
         /\ p.spec.action = BlockOnExpire => LeaseStart(p) = p.updatedAt
         /\ p.spec.action = ResetOnExpire => LeaseStart(p) = p.createdAt
BY TimeAssumption DEF PeerObject, PeerSpec, LeaseStart, BlockOnExpire, ResetOnExpire

(* What is left of a lease, as RoundTime makes it of the difference.        *)
LEMMA RestIs ==
  ASSUME NEW p \in PeerObject, NEW t \in Int, GetPublicKey(p) # NoKey, ~Overflows(p)
  PROVE  LET d == p.spec.duration - (t - LeaseStart(p))
         IN /\ d \in Int
            /\ GetExpirationDuration(p, t) = RoundTime(d, Resolution)
            /\ GetExpirationDuration(p, t) \in Int
            /\ IsExpired(p, t) <=> 2 * d < Resolution
            /\ 2 * GetExpirationDuration(p, t) <= 2 * d + Resolution
<1> DEFINE d == p.spec.duration - (t - LeaseStart(p))
<1>1. d \in Int
  BY LeaseStartType
<1>2. GetExpirationDuration(p, t) = RoundTime(d, Resolution)
  BY DEF GetExpirationDuration
<1> HIDE DEF d
<1>3. /\ RoundTime(d, Resolution) \in Int
      /\ RoundTime(d, Resolution) <= 0 <=> 2 * d < Resolution
      /\ 2 * RoundTime(d, Resolution) <= 2 * d + Resolution
  BY <1>1, RoundTimeIs, TimeAssumption
<1>4. QED
  BY <1>1, <1>2, <1>3 DEF IsExpired, d

(* If nobody edits a leased peer, its key expires when its lease has really *)
(* ended, at the latest, and less than a second and a half before that: the *)
(* fraction that the timestamp lost, and the half that RoundTime cuts.      *)
LEMMA ExpiresAtEnd ==
  ASSUME IInv, GetPublicKey(peer) # NoKey,
         peer.spec.action \in {ResetOnExpire, BlockOnExpire}, NEW t \in Nat
  PROVE  /\ LeaseEnd \in Nat
         /\ t >= LeaseEnd => IsExpired(peer, t)
         /\ IsExpired(peer, t) => 2 * (LeaseEnd - t) < 3 * Resolution
<1> DEFINE s == IF peer.spec.action = ResetOnExpire THEN created ELSE updated
           dur == peer.spec.duration
           start == LeaseStart(peer)
<1>1. s \in Nat /\ start = Stamp(s) /\ LeaseEnd = dur + s
  BY LeaseStartType DEF IInv, LeaseEnd, ResetOnExpire, BlockOnExpire
<1>2. start \in Nat /\ start <= s /\ s < start + Resolution
  BY <1>1, StampIs
<1>3. dur \in Nat /\ Resolution \in Nat \ {0}
  BY LeaseStartType, TimeAssumption DEF IInv
<1>4. ~Overflows(peer)
  BY <1>2, TimeAssumption DEF Overflows
<1>5. IsExpired(peer, t) <=> 2 * (dur - (t - start)) < Resolution
  BY <1>3, <1>4, RestIs DEF IInv
<1> HIDE DEF s, dur, start
<1>6. QED
  BY <1>1, <1>2, <1>3, <1>5

(* In every reachable state that is so of the peer and the clock.           *)
THEOREM LeaseExact == LeaseSpec => []LeaseIsExact
<1>1. IInv => LeaseIsExact
  BY ExpiresAtEnd DEF LeaseIsExact, IInv
<1>2. QED
  BY <1>1, Invariance, PTL

(* A link works for its time from the last edit of the peer, not longer,    *)
(* and shorter only by what the timestamp lost.                             *)
THEOREM LinkShort == LeaseSpec => []LinkIsShort
<1>1. ASSUME IInv
      PROVE  /\ LinkAlive(peer, now) => now <= updated + LinkLife
             /\ ~LinkAlive(peer, now) => now > updated + LinkLife - Resolution
  <2> DEFINE stamp == peer.updatedAt
  <2>1. now \in Nat /\ updated \in Nat /\ LinkLife \in Nat /\ Resolution \in Nat
    BY <1>1, LeaseAssumption, TimeAssumption DEF IInv
  <2>2. stamp \in Nat /\ stamp <= updated /\ updated < stamp + Resolution
    BY <1>1, <2>1, StampIs DEF IInv
  <2>3. LinkAlive(peer, now) <=> stamp + LinkLife >= now
    BY DEF LinkAlive
  <2> HIDE DEF stamp
  <2>4. QED
    BY <2>1, <2>2, <2>3
<1>2. IInv => LinkIsShort
  BY <1>1 DEF LinkIsShort
<1>3. QED
  BY <1>2, Invariance, PTL

(* Days are counted down: what the list shows is no more than what is left. *)
LEMMA DaysAreFewer ==
  ASSUME NEW d \in Nat, NEW day \in Nat \ {0}, d > day
  PROVE  (d \div day) * day \in Nat /\ (d \div day) * day > 0 /\ (d \div day) * day <= d
<1> DEFINE q == d \div day
<1>1. /\ q \in Nat /\ d = day * q + (d % day) /\ d % day \in 0 .. day - 1
  OBVIOUS
<1> HIDE DEF q
<1>2. q # 0
  BY <1>1
<1>3. q * day = day * q /\ q * day \in Nat /\ q * day > 0
  BY <1>1, <1>2
<1> DEFINE m == q * day
<1> HIDE DEF m
<1>4. m \in Nat /\ d = m + (d % day) /\ d % day \in Nat
  BY <1>1, <1>3 DEF m
<1>5. m <= d
  BY <1>4
<1>6. QED
  BY <1>3, <1>5 DEF m, q

(* EXPIRE IN of a peer with an action and without a persistent key.         *)
LEMMA ShownIsKept ==
  ASSUME IInv, GetStatus(peer, now) = "active",
         peer.spec.action # NeverExpire, peer.spec.persistent = NoKey
  PROVE  LET shown == ExpireIn(peer, now)
         IN /\ shown > 0
            /\ \A later \in now .. now + shown - Resolution : IsServed(peer, later)
<1> DEFINE shown == ExpireIn(peer, now)
           left == GetExpirationDuration(peer, now)
<1>1. ~peer.spec.blocked /\ GetPublicKey(peer) # NoKey
  BY DEF GetStatus
<1>2. ~IsExpired(peer, now)
  BY <1>1 DEF GetStatus
<1>3. left \in Int /\ left > 0
  <2>1. CASE Overflows(peer)
    BY <1>1, <2>1 DEF GetExpirationDuration, Centuries
  <2>2. CASE ~Overflows(peer)
    <3>1. left \in Int
      BY <1>1, <2>2, RestIs DEF IInv
    <3>2. QED
      BY <1>2, <3>1 DEF IsExpired
  <2>3. QED
    BY <2>1, <2>2
<1>4. shown = IF left > Day THEN (left \div Day) * Day ELSE left
  BY <1>1, <1>3 DEF ExpireIn
<1> HIDE DEF left
<1>5. shown \in Nat /\ shown > 0 /\ shown <= left
  BY <1>3, <1>4, DaysAreFewer, LeaseAssumption
<1> HIDE DEF shown
<1>6. ASSUME NEW later \in now .. now + shown - Resolution
      PROVE  IsServed(peer, later)
  <2>1. now \in Nat /\ Resolution \in Nat \ {0}
    BY TimeAssumption DEF IInv
  <2>2. later \in Int /\ later <= now + shown - Resolution
    BY <1>5, <2>1
  <2>3. ~IsExpired(peer, later)
    <3>1. CASE Overflows(peer)
      BY <1>1, <3>1 DEF IsExpired, GetExpirationDuration, Centuries
    <3>2. CASE ~Overflows(peer)
      <4> DEFINE start == LeaseStart(peer)
                 dur == peer.spec.duration
      <4>1. start \in Int /\ dur \in Nat
        BY LeaseStartType DEF IInv
      <4>2. 2 * left <= 2 * (dur - (now - start)) + Resolution
        BY <1>1, <2>1, <3>2, RestIs DEF IInv, left
      <4>3. IsExpired(peer, later) <=> 2 * (dur - (later - start)) < Resolution
        BY <1>1, <2>2, <3>2, RestIs DEF IInv
      <4> HIDE DEF start, dur
      <4>4. QED
        BY <1>3, <1>5, <2>1, <2>2, <4>1, <4>2, <4>3
    <3>3. QED
      BY <3>1, <3>2
  <2>4. QED
    BY <1>1, <2>3 DEF IsServed, ShouldAutoLock, GetStatus
<1>7. QED
  BY <1>5, <1>6 DEF shown

(* What "peer list" says of an active peer and what sync-peers makes of it: *)
(* a time it keeps, but for the last second; "never" it keeps for good if   *)
(* the peer has no action, and to the end of a lease that is not shown if   *)
(* the key is persistent and the peer has one.                              *)
THEOREM ListKept == LeaseSpec => []ListIsKept
<1>1. ASSUME IInv, GetStatus(peer, now) = "active"
      PROVE  LET shown == ExpireIn(peer, now)
             IN /\ shown # Dash
                /\ shown > 0 =>
                     \A later \in now .. now + shown - Resolution : IsServed(peer, later)
                /\ shown = Never /\ peer.spec.action = NeverExpire =>
                     \A later \in now .. MaxTime : IsServed(peer, later)
                /\ shown = Never /\ peer.spec.action \in {ResetOnExpire, BlockOnExpire} =>
                     \A later \in now .. MaxTime :
                       /\ later >= LeaseEnd => ~IsServed(peer, later)
                       /\ 2 * (LeaseEnd - later) >= 3 * Resolution => IsServed(peer, later)
  <2> DEFINE shown == ExpireIn(peer, now)
  <2>1. ~peer.spec.blocked /\ GetPublicKey(peer) # NoKey
    BY <1>1 DEF GetStatus
  <2>2. CASE peer.spec.action = NeverExpire
    <3>1. shown = Never
      BY <2>2 DEF ExpireIn
    <3>2. ASSUME NEW later PROVE IsServed(peer, later)
      BY <2>1, <2>2 DEF IsServed, GetStatus, ShouldAutoLock
    <3>3. peer.spec.action \notin {ResetOnExpire, BlockOnExpire}
      BY <2>2 DEF NeverExpire, ResetOnExpire, BlockOnExpire
    <3>4. shown # Dash /\ ~(shown > 0)
      BY <3>1 DEF Never, Dash
    <3> HIDE DEF shown
    <3>5. QED
      BY <3>2, <3>3, <3>4 DEF shown
  <2>3. CASE peer.spec.action # NeverExpire /\ peer.spec.persistent # NoKey
    <3>1. shown = Never
      BY <2>3 DEF ExpireIn
    <3>2. \A later : IsServed(peer, later) <=> ~IsExpired(peer, later)
      BY <2>1, <2>3 DEF IsServed, GetStatus, ShouldAutoLock
    <3>3. ASSUME peer.spec.action \in {ResetOnExpire, BlockOnExpire},
                 NEW later \in now .. MaxTime
          PROVE  /\ later >= LeaseEnd => ~IsServed(peer, later)
                 /\ 2 * (LeaseEnd - later) >= 3 * Resolution => IsServed(peer, later)
      <4>1. later \in Nat
        BY <1>1, LeaseAssumption DEF IInv
      <4>2. /\ LeaseEnd \in Nat
            /\ later >= LeaseEnd => IsExpired(peer, later)
            /\ IsExpired(peer, later) => 2 * (LeaseEnd - later) < 3 * Resolution
        BY <1>1, <2>1, <3>3, <4>1, ExpiresAtEnd
      <4>3. Resolution \in Nat
        BY TimeAssumption
      <4>4. QED
        BY <3>2, <4>1, <4>2, <4>3
    <3> HIDE DEF shown
    <3>4. QED
      BY <2>3, <3>1, <3>3 DEF Never, Dash, shown
  <2>4. CASE peer.spec.action # NeverExpire /\ peer.spec.persistent = NoKey
    <3>1. /\ shown > 0
          /\ \A later \in now .. now + shown - Resolution : IsServed(peer, later)
      BY <1>1, <2>4, ShownIsKept
    <3>2. shown # Never
      BY <2>1, <2>4, <3>1 DEF Never
    <3>3. shown # Dash
      BY <3>1 DEF Dash
    <3> HIDE DEF shown
    <3>4. QED
      BY <3>1, <3>2, <3>3 DEF shown
  <2>5. QED
    BY <2>2, <2>3, <2>4
<1>2. IInv => ListIsKept
  BY <1>1 DEF ListIsKept
<1>3. QED
  BY <1>2, Invariance, PTL

-----------------------------------------------------------------------------
(* A time.Duration in place of an integer.                                  *)

(* The assumptions: facts of arithmetic about the width; the program runs   *)
(* for less than a Duration can hold; so many nanoseconds as it can hold    *)
(* are rounded up, but are not half a second short of it by just one; and   *)
(* a lease is none or a second at least, and shorter than the time that has *)
(* passed since the zero time.Time.                                         *)
DurationsFit ==
  /\ MaxDuration \in Nat /\ 2 ^ Width = 2 * (MaxDuration + 1)
  /\ MaxTime + Resolution <= MaxDuration
  /\ LET m == MaxDuration % Resolution IN 2 * m >= Resolution /\ m < Resolution - 1
  /\ \A d \in Durations :
       d = 0 \/ (Resolution <= d /\ d + Resolution <= MaxDuration /\ ZeroTime + d <= 0)

LEMMA RemainderOfMore ==
  ASSUME NEW r \in Nat \ {0}, NEW x \in Nat, r <= x, x < 2 * r
  PROVE  x % r = x - r
<1>1. x - r \in 0 .. r - 1 /\ x = r * 1 + (x - r)
  OBVIOUS
<1>2. \A s \in 0 .. r - 1 : (r * 1 + s) % r = s
  OBVIOUS
<1>3. QED
  BY <1>1, <1>2

LEMMA WrapIs ==
  ASSUME DurationsFit, NEW d \in Int
  PROVE  /\ -MaxDuration <= d /\ d <= MaxDuration => Wrap(d) = d
         /\ MaxDuration < d /\ d <= 2 * MaxDuration => Wrap(d) = d - 2 * (MaxDuration + 1)
<1> DEFINE top == MaxDuration
           r == 2 * (top + 1)
           x == d + top + 1
<1>1. top \in Nat /\ r \in Nat \ {0} /\ x \in Int
  BY DEF DurationsFit
<1>2. Wrap(d) = (x % r) - top - 1
  BY DEF Wrap, DurationsFit
<1>3. ASSUME -top <= d, d <= top PROVE Wrap(d) = d
  <2>1. x \in Nat /\ x < r
    BY <1>1, <1>3
  <2>2. x % r = x
    BY <1>1, <2>1, Remainder
  <2>3. QED
    BY <1>1, <1>2, <2>2
<1>4. ASSUME top < d, d <= 2 * top PROVE Wrap(d) = d - r
  <2>1. x \in Nat /\ r <= x /\ x < 2 * r
    BY <1>1, <1>4
  <2>2. x % r = x - r
    BY <1>1, <2>1, RemainderOfMore
  <2>3. QED
    BY <1>1, <1>2, <2>2
<1>5. QED
  BY <1>3, <1>4

(* As long as no rounding up leaves the range, nothing overflows.           *)
LEMMA RoundDurationIs ==
  ASSUME DurationsFit, NEW d \in Int,
         d + Resolution <= MaxDuration, -d + Resolution <= MaxDuration
  PROVE  RoundDuration(d, Resolution) = RoundTime(d, Resolution)
<1> DEFINE r == Resolution
           top == MaxDuration
           abs == IF d < 0 THEN -d ELSE d
           m == abs % r
           rounded == IF m + m < r THEN abs - m ELSE abs + r - m
<1>1. r \in Nat \ {0} /\ top \in Nat
  BY TimeAssumption DEF DurationsFit
<1>2. abs \in Nat /\ abs + r <= top /\ (d < 0 => Wrap(-d) = abs)
  BY <1>1, WrapIs
<1>3. m \in 0 .. r - 1 /\ m <= abs
  BY <1>1, <1>2, Remainder
<1> HIDE DEF m, abs
<1>4. abs + r - m \in Int /\ -top <= abs + r - m /\ abs + r - m <= top
  BY <1>1, <1>2, <1>3
<1>5. Wrap(abs + r - m) = abs + r - m
  BY <1>4, WrapIs
<1>6. rounded \in Int /\ -top <= -rounded /\ -rounded <= top
  BY <1>1, <1>2, <1>3
<1>7. Wrap(-rounded) = -rounded
  BY <1>6, WrapIs
<1> DEFINE abs2 == IF d < 0 THEN Wrap(-d) ELSE d
           rounded2 == IF m + m < r THEN abs - m ELSE Wrap(abs + r - m)
<1>8. abs2 = abs
  BY <1>2 DEF abs
<1>9. rounded2 = rounded
  BY <1>5
<1>10. RoundDuration(d, r) = IF d < 0 THEN Wrap(-rounded2) ELSE rounded2
  BY <1>8 DEF RoundDuration, m
<1>11. RoundTime(d, r) = IF d < 0 THEN -rounded ELSE rounded
  BY DEF RoundTime, m, abs
<1> HIDE DEF rounded, rounded2
<1>12. QED
  BY <1>7, <1>9, <1>10, <1>11

(* Without a duration to set against it, the age of the zero time is        *)
(* rounded up, overflows, and its negative is positive.                     *)
LEMMA CenturiesOverflow ==
  ASSUME DurationsFit
  PROVE  ~(RoundDuration(-MaxDuration, Resolution) <= 0)
<1> DEFINE r == Resolution
           top == MaxDuration
           m == top % r
           over == r - m - top - 2
<1>1. r \in Nat \ {0} /\ top \in Nat /\ r <= top /\ top > 0
  BY TimeAssumption, LeaseAssumption DEF DurationsFit
<1>2. m \in 0 .. r - 1 /\ ~(m + m < r) /\ m < r - 1
  <2>1. m \in 0 .. r - 1
    BY <1>1, Remainder
  <2>2. 2 * m >= r /\ m < r - 1
    BY DEF DurationsFit
  <2> HIDE DEF m, r
  <2>3. QED
    BY <1>1, <2>1, <2>2
<1>3. Wrap(-(-top)) = top
  <2>1. -(-top) = top
    BY <1>1
  <2>2. Wrap(top) = top
    BY <1>1, WrapIs
  <2>3. QED
    BY <2>1, <2>2
<1> HIDE DEF m
<1>4. Wrap(top + r - m) = over
  <2> DEFINE up == top + r - m
  <2>1. up \in Int /\ top < up /\ up <= 2 * top /\ over = up - 2 * (top + 1)
    BY <1>1, <1>2
  <2> HIDE DEF up
  <2>2. Wrap(up) = up - 2 * (top + 1)
    BY <2>1, WrapIs
  <2>3. QED
    BY <2>1, <2>2 DEF up
<1>5. Wrap(-over) = -over /\ ~(-over <= 0)
  <2>1. -over \in Int /\ -top <= -over /\ -over <= top /\ -over > 0
    BY <1>1, <1>2
  <2>2. QED
    BY <2>1, WrapIs
<1>6. -top < 0
  BY <1>1
<1> HIDE DEF over
<1>7. RoundDuration(-top, r) = Wrap(-over)
  <2> DEFINE abs == IF -top < 0 THEN Wrap(-(-top)) ELSE -top
             k == abs % r
             rounded == IF k + k < r THEN abs - k ELSE Wrap(abs + r - k)
  <2>1. abs = top /\ k = m
    BY <1>3, <1>6 DEF m
  <2>2. rounded = over
    <3> HIDE DEF k, abs
    <3>1. QED
      BY <1>2, <1>4, <2>1
  <2>3. RoundDuration(-top, r) = IF -top < 0 THEN Wrap(-rounded) ELSE rounded
    BY DEF RoundDuration
  <2> HIDE DEF rounded
  <2>4. QED
    BY <1>6, <2>2, <2>3
<1>8. QED
  BY <1>5, <1>7

(* The leases of Peer are integers, those of the program are Durations: for *)
(* durations as people give them, both run out at the same instants, also   *)
(* where RoundTime overflows.                                               *)
THEOREM WidthModelled ==
  ASSUME DurationsFit
  PROVE  LeaseSpec => []WidthIsModelled
<1>1. ASSUME IInv, GetPublicKey(peer) # NoKey
      PROVE  Rest(peer, now) <= 0 <=> IsExpired(peer, now)
  <2> DEFINE start == LeaseStart(peer)
             dur == peer.spec.duration
             top == MaxDuration
  <2>1. /\ dur \in Durations /\ dur \in Nat /\ start \in Int
        /\ top \in Nat /\ now \in Nat /\ now <= MaxTime /\ MaxTime \in Nat
        /\ Resolution \in Nat \ {0} /\ MaxTime + Resolution <= top
        /\ ZeroTime \in Int /\ ZeroTime < 0
    BY <1>1, LeaseStartType, TimeAssumption, LeaseAssumption
       DEF IInv, PeerObject, PeerSpec, DurationsFit
  <2>2. dur = 0 \/ (Resolution <= dur /\ dur + Resolution <= top /\ ZeroTime + dur <= 0)
    BY <2>1 DEF DurationsFit
  <2>3. CASE start # ZeroTime
    <3> DEFINE d == dur - (now - start)
    <3>1. start \in 0 .. now
      <4>1. start \in {peer.createdAt, peer.updatedAt}
        BY <2>3 DEF LeaseStart
      <4>2. created \in Nat /\ created <= now /\ updated \in Nat /\ updated <= now
        BY <1>1 DEF IInv
      <4>3. /\ Stamp(created) \in Nat /\ Stamp(created) <= created
            /\ Stamp(updated) \in Nat /\ Stamp(updated) <= updated
        BY <4>2, StampIs
      <4> HIDE DEF start
      <4>4. QED
        BY <1>1, <2>1, <4>1, <4>2, <4>3 DEF IInv
    <3> HIDE DEF start, dur, top
    <3>2. /\ d \in Int /\ -top <= d /\ d <= top
          /\ d + Resolution <= top /\ -d + Resolution <= top
      BY <2>1, <2>2, <3>1
    <3> HIDE DEF d
    <3>3. Wrap(d) = d /\ RoundDuration(d, Resolution) = RoundTime(d, Resolution)
      BY <3>2, WrapIs, RoundDurationIs DEF top
    <3>4. Rest(peer, now) = RoundTime(d, Resolution)
      BY <2>3, <3>3 DEF Rest, Sub, d, start, dur
    <3>5. GetExpirationDuration(peer, now) = RoundTime(d, Resolution)
      BY <1>1, <2>1, <2>3, RestIs DEF IInv, Overflows, d, start, dur
    <3>6. QED
      BY <3>4, <3>5 DEF IsExpired
  <2>4. CASE start = ZeroTime /\ dur = 0
    <3>1. ~IsExpired(peer, now)
      BY <1>1, <2>4 DEF IsExpired, GetExpirationDuration, Overflows, Centuries
    <3>2. Rest(peer, now) = RoundDuration(-top, Resolution)
      <4>1. Sub(now, start) = top
        BY <2>4 DEF Sub
      <4> HIDE DEF top
      <4>2. dur - top = -top /\ -top \in Int /\ -top <= top /\ -top <= -top
        BY <2>1, <2>4
      <4>3. Wrap(-top) = -top
        BY <4>2, WrapIs DEF top
      <4>4. Wrap(dur - top) = -top
        BY <4>2, <4>3
      <4> HIDE DEF dur
      <4>5. QED
        BY <4>1, <4>4 DEF Rest, dur
    <3>3. QED
      BY <3>1, <3>2, CenturiesOverflow
  <2>5. CASE start = ZeroTime /\ dur # 0
    <3> DEFINE d == dur - top
    <3>1. Sub(now, start) = top
      BY <2>5 DEF Sub
    <3>2. /\ d \in Int /\ -top <= d /\ d <= top
          /\ d + Resolution <= top /\ -d + Resolution <= top /\ 2 * d < Resolution
      BY <2>1, <2>2, <2>5
    <3> HIDE DEF d
    <3>3. Wrap(d) = d /\ RoundDuration(d, Resolution) = RoundTime(d, Resolution)
      BY <3>2, WrapIs, RoundDurationIs
    <3>4. Rest(peer, now) = RoundTime(d, Resolution)
      BY <3>1, <3>3 DEF Rest, d
    <3>5. Rest(peer, now) <= 0
      BY <2>1, <3>2, <3>4, RoundTimeIs
    <3>6. 2 * (dur - (now - start)) < Resolution
      BY <2>1, <2>2, <2>5
    <3>7. IsExpired(peer, now)
      BY <1>1, <2>1, <2>5, <3>6, RestIs DEF IInv, Overflows
    <3>8. QED
      BY <3>5, <3>7
  <2>6. QED
    BY <2>3, <2>4, <2>5
<1>2. IInv => WidthIsModelled
  BY <1>1 DEF WidthIsModelled
<1>3. QED
  BY <1>2, Invariance, PTL
=============================================================================
