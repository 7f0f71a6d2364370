------------------------------ MODULE MCDBFile ------------------------------
(* Two requests or commands at a time for the same user, on machines of     *)
(* their own or on the same one.                                            *)
EXTENDS DBFile

CONSTANTS alice, ra, rb, h1, h2

SameUser == [r \in Slots |-> alice]

OwnMachines == {[r \in Slots |-> IF r = ra THEN h1 ELSE h2]}
SameMachine == {[r \in Slots |-> h1]}
MCPlacements == OwnMachines \cup SameMachine

(* A bound.  On machines of their own the requests can spend a link, but    *)
(* lose no handle; on the same machine the other way round.                 *)
LinksOrLostHandles ==
  IF Apart THEN \A h \in Hosts : holder[h] # Leaked ELSE drawn = 0
=============================================================================
