---------------------------- MODULE MCSyncPeers ----------------------------
(* Small instances of SyncPeers: one or two peers of a server.              *)
EXTENDS SyncPeers

MCZeroTime == -1000

P(persistent, pub, ip, action, blocked) ==
  [spec |-> [persistent |-> persistent, ip |-> ip, action |-> action,
             duration |-> 1, blocked |-> blocked],
   status |-> [secret |-> NoSecret, pub |-> pub],
   createdAt |-> 0, updatedAt |-> 0]

Active(key, ip) == P(NoKey, key, ip, NeverExpire, FALSE)
Expiring(key, ip) == P(NoKey, key, ip, ResetOnExpire, FALSE)
Blocked(key, ip) == P(NoKey, key, ip, NeverExpire, TRUE)
Persistent(key, ip) == P(key, NoKey, ip, ResetOnExpire, FALSE)

(* An action that only "peer apply" to an existing peer lets through: with  *)
(* a duration the peer is expired from the start, without one it never is.  *)
Misspelt(key, ip, duration) ==
  [P(NoKey, key, ip, "restart", FALSE) EXCEPT !.spec.duration = duration]

(* A key that expires, beside a misspelt action without a duration, which   *)
(* never does; the first one renewed and the second blocked; a key that is  *)
(* blocked for one peer and typed in for another; a peer blocked before it  *)
(* had a key, beside a misspelt action with a duration; a single peer.      *)
MCListings ==
  {<<Expiring(1, 1), Misspelt(2, 2, 0)>>,
   <<Active(2, 1), Blocked(1, 2)>>,
   <<Blocked(1, 1), Persistent(1, 2)>>,
   <<Blocked(NoKey, 1), Misspelt(1, 2, 1)>>,
   <<Persistent(2, 1)>>}

(* A bound: no more than two of a download by sync-servers, an error, a     *)
(* restart of the interface and a crash, beside the edit and the tick.      *)
TwoDisturbances ==
  (1 - budget.refetches) + (1 - budget.errors) + (1 - budget.bounces)
    + (1 - budget.crashes) <= 2
=============================================================================
