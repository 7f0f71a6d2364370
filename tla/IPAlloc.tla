------------------------------- MODULE IPAlloc -------------------------------
(***************************************************************************)
(* How "peer add" and "peer apply" find or check the address of a peer: the *)
(* loops of util.NewIPMap and buildIPMap, and what the commands store.      *)
(*                                                                          *)
(* One command at a time, for one server; Registry has their interleaving.  *)
(* An address is a number of AddressBits bits, the last ByteBits of which   *)
(* are its last byte.  "10.0.0.5/24" is the record of an address and a      *)
(* length; net.ParseCIDR returns both that address and the masked one.      *)
(***************************************************************************)
EXTENDS Integers

CONSTANTS
  Peers,
  AddressBits, ByteBits,
  ServerAddresses,   \* what "server init --address" is given
  PeerAddresses,     \* what "peer add --address" and manifests are given
  None               \* no server, no peer, no --address

Size == 2 ^ AddressBits
IP == 0 .. Size - 1
CIDR == [ip : IP, len : 0 .. AddressBits]

ASSUME IPAllocAssumption ==
  /\ AddressBits \in Nat /\ ByteBits \in 1 .. AddressBits
  /\ ServerAddresses \subseteq CIDR /\ PeerAddresses \subseteq CIDR
  /\ None \notin CIDR

(* A fact of arithmetic, stated for the sake of the proofs: the provers do  *)
(* not know what ^ is.                                                      *)
ASSUME PowersOfTwo == \A n \in 0 .. AddressBits : 2 ^ n \in Nat \ {0}

VARIABLES
  server,    \* the Address of the server
  peers,     \* the AllowedIPs of each peer
  pc,        \* where the command is
  command,   \* what it is to do
  ip,        \* the loop variable of NewIPMap
  values,    \* the addresses in the IPMap
  listed     \* peers whose address is still to be deleted from it

vars == <<server, peers, pc, command, ip, values, listed>>

NoCommand == [what |-> "none", peer |-> None, address |-> None]

Init ==
  /\ server \in ServerAddresses
  /\ peers = [p \in Peers |-> None]
  /\ pc = "idle"
  /\ command = NoCommand
  /\ ip = 0
  /\ values = {}
  /\ listed = {}

-----------------------------------------------------------------------------
NetSize(c) == 2 ^ (AddressBits - c.len)
Mask(c) == c.ip - (c.ip % NetSize(c))
Contains(c, addr) == addr - (addr % NetSize(c)) = Mask(c)
Network(c) == {addr \in IP : Contains(c, addr)}
LastByte(addr) == addr % (2 ^ ByteBits)

(* Slip: the last address stays as it is.                                   *)
incrementIPSticks(addr) == IF addr = Size - 1 THEN addr ELSE addr + 1

(* Slip: the carry out of the first byte is kept.                           *)
incrementIPWide(addr) == addr + 1

(* Byte by byte with a carry, which is lost at the end.                     *)
incrementIP(addr) == (addr + 1) % Size

-----------------------------------------------------------------------------
Idle == pc = "idle" /\ UNCHANGED <<pc, command, ip, values, listed>>

(* With --override, or after "server delete", to any address.              *)
InitServer ==
  /\ Idle
  /\ server' \in ServerAddresses
  /\ UNCHANGED peers

(* The peers stay, and no command deletes a peer.                           *)
DeleteServer ==
  /\ Idle
  /\ server' = None
  /\ UNCHANGED peers

(* The guards are those of PeerAddCmd and PeerApplyCmd up to buildIPMap.    *)
Start(p) ==
  /\ pc = "idle"
  /\ server # None
  /\ \/ \E address \in PeerAddresses \cup {None} :
          command' = [what |-> "add", peer |-> p, address |-> address]
     \/ \E address \in PeerAddresses :
          command' = [what |-> "apply", peer |-> p, address |-> address]
  /\ pc' = "loop"
  /\ ip' = Mask(server)
  /\ values' = {}
  /\ UNCHANGED <<server, peers, listed>>

(* Slip: the server's own address is not left out.                          *)
NextIPKeepsOwn ==
  /\ pc = "loop" /\ Contains(server, ip)
  /\ values' = IF LastByte(ip) = 0 THEN values ELSE values \cup {ip}
  /\ ip' = incrementIP(ip)
  /\ UNCHANGED <<server, peers, pc, command, listed>>

NextIP ==
  /\ pc = "loop" /\ Contains(server, ip)
  /\ values' = IF ip = server.ip \/ LastByte(ip) = 0 THEN values ELSE values \cup {ip}
  /\ ip' = incrementIP(ip)
  /\ UNCHANGED <<server, peers, pc, command, listed>>

LastIP ==
  /\ pc = "loop" /\ ~Contains(server, ip)
  /\ pc' = "del"
  /\ listed' = {p \in Peers : peers[p] # None}
  /\ UNCHANGED <<server, peers, command, ip, values>>

(* Slip: the network of a peer is deleted by its first address.             *)
DelMasked(p) ==
  /\ pc = "del" /\ p \in listed
  /\ values' = values \ {Mask(peers[p])}
  /\ listed' = listed \ {p}
  /\ UNCHANGED <<server, peers, pc, command, ip>>

(* ParseAllowedIPs is the address as it is stored.                          *)
Del(p) ==
  /\ pc = "del" /\ p \in listed
  /\ values' = values \ {peers[p].ip}
  /\ listed' = listed \ {p}
  /\ UNCHANGED <<server, peers, pc, command, ip>>

Built == pc = "del" /\ listed = {}

Done ==
  /\ pc' = "idle"
  /\ command' = NoCommand
  /\ values' = {}
  /\ ip' = 0
  /\ UNCHANGED <<server, listed>>

Store(address) ==
  /\ peers' = [peers EXCEPT ![command.peer] = address]
  /\ Done

Pop ==
  /\ Built /\ command.what = "add" /\ command.address = None
  /\ \E addr \in values : Store([ip |-> addr, len |-> AddressBits])

(* api.ParseCIDR returns the network: its first address is checked, and the *)
(* network stored.                                                          *)
AddGiven ==
  /\ Built /\ command.what = "add" /\ command.address # None
  /\ LET net == [command.address EXCEPT !.ip = Mask(command.address)]
     IN /\ Contains(server, net.ip) /\ net.ip \in values
        /\ Store(net)

(* The address of a manifest is checked, and stored with its mask.  One     *)
(* that stays the same is not checked.                                      *)
Apply ==
  /\ Built /\ command.what = "apply"
  /\ command.address.ip \in values \/ peers[command.peer] = command.address
  /\ Store(command.address)

(* An address that is refused, a full network, "peer add" of a peer that    *)
(* exists, a command that is killed.                                        *)
Abort ==
  /\ pc # "idle"
  /\ pc' = "idle"
  /\ command' = NoCommand
  /\ values' = {} /\ ip' = 0 /\ listed' = {}
  /\ UNCHANGED <<server, peers>>

Refuse == Built /\ Abort

Step ==
  \/ NextIP \/ LastIP \/ \E p \in Peers : Del(p)
  \/ Pop \/ AddGiven \/ Apply \/ Refuse

Next == InitServer \/ DeleteServer \/ Step \/ Abort \/ \E p \in Peers : Start(p)

Spec == Init /\ [][Next]_vars

(* A command that runs goes on.                                             *)
FairSpec == Spec /\ WF_vars(Step)
-----------------------------------------------------------------------------
TypeOK ==
  /\ server \in CIDR \cup {None}
  /\ peers \in [Peers -> CIDR \cup {None}]
  /\ pc \in {"idle", "loop", "del"}
  /\ command \in [what : {"add", "apply"}, peer : Peers, address : CIDR \cup {None}]
                 \cup {NoCommand}
  /\ ip \in IP
  /\ values \subseteq IP
  /\ listed \subseteq Peers

Taken == {peers[p].ip : p \in {q \in Peers : peers[q] # None}}

(* The two loops end up with the addresses a peer may get: those of the     *)
(* network, without its own address, without addresses whose last byte is   *)
(* zero, and without what the peers have.                                   *)
MapIsExact ==
  Built => values = {addr \in Network(server) :
                       addr # server.ip /\ LastByte(addr) # 0 /\ addr \notin Taken}

(* No two peers have the same address, whichever way it was given.  Of an   *)
(* address with a mask this says the first address only: see NoOverlap.     *)
AddressesDiffer ==
  \A p, q \in Peers :
    p # q /\ peers[p] # None /\ peers[q] # None => peers[p].ip # peers[q].ip

Fits(p) ==
  server # None /\ peers[p] # None =>
    Contains(server, peers[p].ip) /\ peers[p].ip # server.ip

(* A peer that lies outside of its server's network, or has the address of  *)
(* the server, was there when the server was moved: no command gives out    *)
(* such an address, after a move either.                                    *)
FitsUntilMoved ==
  [][\A p \in Peers :
       ~Fits(p)' => server' # server \/ (peers'[p] = peers[p] /\ ~Fits(p))]_vars

(* NewIPMap comes to an end for every network but that of all addresses.    *)
Terminates ==
  pc # "idle" ~> pc = "idle" \/ (server # None /\ server.len = 0)

(* "The address of the peer, must not overlap with other peers."            *)
NoOverlap ==
  \A p, q \in Peers :
    p # q /\ peers[p] # None /\ peers[q] # None =>
      Network(peers[p]) \cap Network(peers[q]) = {}
=============================================================================
