------------------------------- MODULE MCHost -------------------------------
(* One peer, whose key runs out, or is blocked or not.                      *)
EXTENDS Host

CONSTANTS c1, c2

MCZeroTime == -1000

P(key, blocked) ==
  [spec |-> [persistent |-> NoKey, ip |-> 1, action |-> ResetOnExpire,
             duration |-> 1, blocked |-> blocked],
   status |-> [secret |-> NoSecret, pub |-> key],
   createdAt |-> 0, updatedAt |-> 0]

(* A bound: one error, crash or reboot of either daemon; and one edit, of   *)
(* the server or of its peers, or tick of the clock.  As long as nobody has *)
(* edited the server its two configurations are alike.                      *)
OneFaultOneEdit ==
  /\ (1 - budget.errors) + (1 - budget.crashes) + crashes + reboots <= 1
  /\ (1 - budget.changes) + changes + now <= 1
  /\ changes = 0 => registry # c2

MCListings == {<<P(1, FALSE)>>, <<P(1, TRUE)>>}
=============================================================================
