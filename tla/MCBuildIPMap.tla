---------------------------- MODULE MCBuildIPMap ----------------------------
(* What buildIPMap rests on: the listing of the peers of a server, and the  *)
(* loops over their addresses.  The two modules share no state: the         *)
(* specification is that of each, step by step, and TLC explores one while  *)
(* the other waits.                                                         *)
EXTENDS MCIPAlloc, KeySearch

(* Names of up to three characters from "-", which is before the slash, and *)
(* "s", which is after it and ends the word "peers"; two users.             *)
Dash == 1
Letter == 3

MCPeersWord == <<4, Letter>>
MCServersWord == <<5>>

MCNames == UNION {[1 .. n -> {Dash, Letter}] : n \in 1 .. 3}
MCUsers == {<<Letter>>, <<Letter, Letter>>}

(* A bound: the one that waits is where it began.                           *)
LoopsWait == Init /\ server = Prefix(5, 2)
KeysWait == KeysInit

BuildInit == Init /\ KeysInit

BuildNext ==
  \/ KeysWait /\ Next /\ UNCHANGED keys
  \/ LoopsWait /\ KeysNext /\ UNCHANGED vars

BuildSpec == BuildInit /\ [][BuildNext]_<<vars, keys>> /\ WF_vars(KeysWait /\ Step)
=============================================================================
