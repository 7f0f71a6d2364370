------------------------------ MODULE MCIPAlloc ------------------------------
(* Addresses of four bits with a last byte of two: 0, 4, 8 and 12 end in a  *)
(* zero byte.                                                               *)
EXTENDS IPAlloc

CONSTANTS p1, p2

Prefix(ipaddr, len) == [ip |-> ipaddr, len |-> len]

(* A network inside the last byte, one across two that ends with the last   *)
(* address there is, and that of all addresses.                             *)
MCServers == {Prefix(5, 2), Prefix(13, 1), Prefix(6, 0)}
MCPeers == {Prefix(5, 4), Prefix(6, 4), Prefix(7, 3), Prefix(8, 4), Prefix(15, 4), Prefix(15, 2)}
=============================================================================
