------------------------------ MODULE CopyStore ------------------------------
(***************************************************************************)
(* What a client of the registry may rely on: an object that everybody      *)
(* copies, edits in private and writes back whole.                          *)
(*                                                                          *)
(* Nothing is promised about two clients that overlap, except that neither  *)
(* touches the copy of the other, and that whatever the object becomes is   *)
(* the whole copy of one client.  A download may break off unnoticed: then  *)
(* the client works on what it got, which may be no database at all.  It    *)
(* never makes rubbish of a database, nor a database of rubbish.            *)
(***************************************************************************)
CONSTANTS
  Clients,
  Databases,   \* the values of a whole database
  Torn(_),     \* what a download of an object that breaks off may leave
  NoCopy       \* a client between two commands

VARIABLES
  object,      \* the object in the bucket
  copy         \* each client's copy of it, or NoCopy

vars == <<object, copy>>

Init ==
  /\ object \in Databases
  /\ copy = [c \in Clients |-> NoCopy]

Open(c) ==
  /\ copy[c] = NoCopy
  /\ copy' \in {[copy EXCEPT ![c] = got] : got \in {object} \cup Torn(object)}
  /\ UNCHANGED object

Edit(c) ==
  /\ copy[c] \in Databases
  /\ copy'[c] \in Databases
  /\ copy' = [copy EXCEPT ![c] = copy'[c]]
  /\ UNCHANGED object

Drop(c) ==
  /\ copy' = [copy EXCEPT ![c] = NoCopy]
  /\ UNCHANGED object

Upload(c) ==
  /\ copy[c] # NoCopy
  /\ object' = copy[c]
  /\ copy' = [copy EXCEPT ![c] = NoCopy]

Next == \E c \in Clients : Open(c) \/ Edit(c) \/ Drop(c) \/ Upload(c)

Spec == Init /\ [][Next]_vars
=============================================================================
