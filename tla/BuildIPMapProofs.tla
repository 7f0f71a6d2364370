--------------------------- MODULE BuildIPMapProofs ---------------------------
(* buildIPMap, from which "peer add" and "peer apply" take an address: what *)
(* the listing of the peers of a server finds, for any names; what the      *)
(* loops compute from it, for addresses of any width and any networks; and  *)
(* that no two peers get the same address.                                  *)
EXTENDS IPAlloc, KeySearch, WellFoundedInduction, SequenceTheorems, TLAPS

-----------------------------------------------------------------------------
(* Arithmetic of blocks: the numbers with the same quotient by n.           *)

LEMMA Division ==
  ASSUME NEW n \in Nat \ {0}, NEW x \in Nat
  PROVE  /\ x \div n \in Nat
         /\ x - (x % n) = n * (x \div n)
         /\ x % n \in 0 .. n - 1 /\ x % n <= x
OBVIOUS

LEMMA FirstOfBlock ==
  ASSUME NEW n \in Nat \ {0}, NEW x \in Nat
  PROVE  (x - (x % n)) % n = 0
<1> DEFINE q == x \div n
<1>1. q \in Nat /\ x - (x % n) = n * q
  BY Division
<1> HIDE DEF q
<1>2. (n * q) % n = 0
  BY <1>1
<1>3. QED
  BY <1>1, <1>2

LEMMA OneQuotient ==
  ASSUME NEW n \in Nat \ {0}, NEW q \in Nat, NEW r \in 0 .. n - 1
  PROVE  (n * q + r) % n = r
OBVIOUS

LEMMA BlockIsConvex ==
  ASSUME NEW n \in Nat \ {0}, NEW x \in Nat, NEW y \in Nat, NEW z \in Nat,
         x <= y, y <= z, x - (x % n) = z - (z % n)
  PROVE  y - (y % n) = x - (x % n)
<1> DEFINE q == x \div n
           r == y - n * q
<1>1. q \in Nat /\ x - (x % n) = n * q
  BY Division
<1>2. x % n \in 0 .. n - 1 /\ z % n \in 0 .. n - 1
  BY Division
<1>3. z = n * q + (z % n) /\ n * q <= x
  <2> HIDE DEF q
  <2>1. n * q \in Nat
    BY <1>1
  <2> DEFINE m == n * q
  <2> HIDE DEF m
  <2>2. QED
    BY <1>1, <1>2, <2>1 DEF m
<1>4. r \in 0 .. n - 1 /\ y = n * q + r
  <2> HIDE DEF q
  <2>1. n * q \in Nat
    BY <1>1
  <2> DEFINE m == n * q
  <2> HIDE DEF m
  <2>2. QED
    BY <1>2, <1>3, <2>1 DEF m
<1> HIDE DEF q, r
<1>5. y % n = r
  BY <1>1, <1>4, OneQuotient
<1>6. QED
  <2> DEFINE m == n * q
  <2>1. m \in Nat /\ y = m + r /\ y % n = r /\ r \in Int /\ x - (x % n) = m
    BY <1>1, <1>4, <1>5
  <2> HIDE DEF m
  <2>2. QED
    BY <2>1

-----------------------------------------------------------------------------
(* Networks.                                                                *)

LEMMA SizeType == Size \in Nat \ {0}
BY PowersOfTwo, IPAllocAssumption DEF Size

LEMMA NetSizeType ==
  ASSUME NEW c \in CIDR
  PROVE  NetSize(c) \in Nat \ {0} /\ c.ip \in Nat /\ c.ip < Size
<1>1. AddressBits - c.len \in 0 .. AddressBits
  BY IPAllocAssumption DEF CIDR
<1>2. QED
  BY <1>1, PowersOfTwo, SizeType DEF NetSize, CIDR, IP

(* The loop of NewIPMap starts at the first address of the network,         *)
LEMMA MaskIsFirst ==
  ASSUME NEW c \in CIDR
  PROVE  /\ Mask(c) \in IP
         /\ Contains(c, Mask(c))
         /\ \A a \in Network(c) : Mask(c) <= a
<1> DEFINE n == NetSize(c)
<1>1. n \in Nat \ {0} /\ c.ip \in Nat /\ c.ip < Size /\ Size \in Nat
  BY NetSizeType, SizeType
<1> HIDE DEF n
<1>2. c.ip % n \in 0 .. n - 1 /\ c.ip % n <= c.ip
  BY <1>1, Division
<1>3. Mask(c) = c.ip - (c.ip % n)
  BY DEF Mask, n
<1>4. Mask(c) \in Nat /\ Mask(c) <= c.ip
  BY <1>1, <1>2, <1>3
<1>5. Mask(c) % n = 0
  BY <1>1, <1>3, FirstOfBlock
<1>6. ASSUME NEW a \in Network(c) PROVE Mask(c) <= a
  <2>1. a \in Nat /\ a - (a % n) = Mask(c)
    BY <1>1 DEF Network, Contains, IP, n
  <2>2. a % n \in Nat
    BY <1>1, <2>1, Division
  <2>3. QED
    BY <1>4, <2>1, <2>2
<1>7. QED
  BY <1>1, <1>4, <1>5, <1>6 DEF Contains, IP, n

(* and meets no address outside the network before it has met all of it.    *)
LEMMA NetworkIsConvex ==
  ASSUME NEW c \in CIDR, NEW x \in IP, NEW y \in IP, NEW z \in IP, x <= y, y <= z,
         Contains(c, x), Contains(c, z)
  PROVE  Contains(c, y)
<1> DEFINE n == NetSize(c)
<1>1. n \in Nat \ {0} /\ x \in Nat /\ y \in Nat /\ z \in Nat
  BY NetSizeType, SizeType DEF IP
<1>2. x - (x % n) = Mask(c) /\ z - (z % n) = Mask(c)
  BY DEF Contains
<1> HIDE DEF n
<1>3. y - (y % n) = x - (x % n)
  BY <1>1, <1>2, BlockIsConvex
<1>4. QED
  BY <1>2, <1>3 DEF Contains, n

LEMMA IncrementIs ==
  ASSUME NEW addr \in IP
  PROVE  /\ incrementIP(addr) \in IP
         /\ addr + 1 < Size => incrementIP(addr) = addr + 1
<1>1. Size \in Nat \ {0} /\ addr \in Nat /\ addr < Size
  BY SizeType DEF IP
<1>2. (addr + 1) % Size \in 0 .. Size - 1
  BY <1>1
<1>3. addr + 1 < Size => (addr + 1) % Size = addr + 1
  BY <1>1
<1>4. QED
  BY <1>2, <1>3 DEF incrementIP, IP

-----------------------------------------------------------------------------
(* The inductive invariant.                                                 *)

(* What NewIPMap returns.                                                   *)
Wanted == {addr \in Network(server) : addr # server.ip /\ LastByte(addr) # 0}

Command == [what : {"add", "apply"}, peer : Peers, address : CIDR \cup {None}]

(* The loop has met the addresses below ip; or all of them, when it has left *)
(* the network, or gone past the last address there is and started over.    *)
LoopInv ==
  pc = "loop" =>
    /\ values \in {{addr \in Wanted : addr < ip}, Wanted}
    /\ ~Contains(server, ip) => values = Wanted

(* buildIPMap has deleted the addresses of the peers it has come to.        *)
Deleted == {peers[p].ip : p \in {q \in Peers : peers[q] # None /\ q \notin listed}}
DelInv ==
  pc = "del" =>
    /\ values = Wanted \ Deleted
    /\ listed \subseteq {q \in Peers : peers[q] # None}

Running ==
  pc # "idle" =>
    /\ server \in CIDR /\ command \in Command
    /\ command.what = "apply" => command.address # None

IInv == TypeOK /\ Running /\ LoopInv /\ DelInv /\ AddressesDiffer

LEMMA WantedType == Wanted \subseteq IP
BY DEF Wanted, Network

LEMMA InitInv == Init => IInv
<1>1. 0 \in IP
  BY SizeType DEF IP
<1>2. QED
  BY <1>1, IPAllocAssumption
     DEF Init, IInv, TypeOK, Running, LoopInv, DelInv, AddressesDiffer

-----------------------------------------------------------------------------
LEMMA ServerInv ==
  ASSUME IInv, InitServer \/ DeleteServer
  PROVE  IInv'
BY IPAllocAssumption
   DEF InitServer, DeleteServer, Idle, IInv, TypeOK, Running, LoopInv, DelInv, AddressesDiffer

LEMMA StartInv ==
  ASSUME IInv, NEW p \in Peers, Start(p)
  PROVE  IInv'
<1>1. server \in CIDR /\ server' = server
  BY DEF Start, IInv, TypeOK
<1>2. Mask(server) \in IP /\ Contains(server, Mask(server))
      /\ \A a \in Wanted : Mask(server) <= a
  BY <1>1, MaskIsFirst DEF Wanted
<1>3. command' \in Command /\ (command'.what = "apply" => command'.address # None)
  <2>1. CASE \E address \in PeerAddresses \cup {None} :
               command' = [what |-> "add", peer |-> p, address |-> address]
    BY <2>1, IPAllocAssumption DEF Command
  <2>2. CASE \E address \in PeerAddresses :
               command' = [what |-> "apply", peer |-> p, address |-> address]
    BY <2>2, IPAllocAssumption DEF Command
  <2>3. QED
    BY <2>1, <2>2 DEF Start
<1>4. pc' = "loop" /\ ip' = Mask(server) /\ values' = {} /\ UNCHANGED <<server, peers, listed>>
  BY DEF Start
<1>5. TypeOK' /\ Running'
  BY <1>1, <1>2, <1>3, <1>4 DEF IInv, TypeOK, Running, Command
<1>6. LoopInv'
  <2>1. Wanted' = Wanted /\ Wanted \subseteq IP
    BY <1>4, WantedType DEF Wanted, Network, Contains, Mask, NetSize
  <2>2. {addr \in Wanted : addr < Mask(server)} = {}
    <3>1. Mask(server) \in Int /\ Wanted \subseteq Int
      BY <1>2, <2>1, SizeType DEF IP
    <3>2. ASSUME NEW a \in Wanted PROVE ~(a < Mask(server))
      <4> DEFINE m == Mask(server)
      <4>1. a \in Int /\ m \in Int /\ m <= a
        BY <1>2, <3>1
      <4> HIDE DEF m
      <4>2. ~(a < m)
        BY <4>1
      <4>3. QED
        BY <4>2 DEF m
    <3>3. QED
      BY <3>2
  <2>3. Contains(server, ip)'
    BY <1>2, <1>4 DEF Contains, Mask, NetSize
  <2>4. QED
    BY <1>4, <2>1, <2>2, <2>3 DEF LoopInv
<1>7. DelInv' /\ AddressesDiffer'
  BY <1>4 DEF IInv, DelInv, AddressesDiffer
<1>8. QED
  BY <1>5, <1>6, <1>7 DEF IInv

LEMMA NextIPInv ==
  ASSUME IInv, NextIP
  PROVE  IInv'
<1>1. /\ pc = "loop" /\ pc' = "loop" /\ Contains(server, ip)
      /\ values' = IF ip = server.ip \/ LastByte(ip) = 0 THEN values ELSE values \cup {ip}
      /\ ip' = incrementIP(ip)
      /\ UNCHANGED <<server, peers, command, listed>>
  BY DEF NextIP
<1>2. server \in CIDR /\ ip \in IP /\ ip' \in IP /\ values \subseteq IP
  BY <1>1, IncrementIs DEF IInv, TypeOK, Running
<1>3. Wanted' = Wanted /\ Wanted \subseteq IP
  BY <1>1, WantedType DEF Wanted, Network, Contains, Mask, NetSize
<1>4. values' = values \cup ({ip} \cap Wanted)
  BY <1>1, <1>2 DEF Wanted, Network
<1>5. values' \in {{addr \in Wanted : addr < ip'}, Wanted}
      /\ (~Contains(server, ip') => values' = Wanted)
  <2>1. CASE values = Wanted
    BY <1>4, <2>1
  <2>2. CASE values = {addr \in Wanted : addr < ip}
    <3>1. values' = {addr \in Wanted : addr < ip + 1}
      <4>1. ip \in Int /\ Wanted \subseteq Int
        BY <1>2, <1>3, SizeType DEF IP
      <4>2. \A addr \in Wanted : addr < ip + 1 <=> addr < ip \/ addr = ip
        BY <4>1
      <4>3. QED
        BY <1>4, <2>2, <4>2
    <3>2. CASE ip + 1 < Size
      <4>1. ip' = ip + 1
        BY <1>1, <1>2, <3>2, IncrementIs
      <4>2. ASSUME ~Contains(server, ip + 1), NEW addr \in Wanted
            PROVE  addr < ip + 1
        <5>1. addr \in IP /\ Contains(server, addr) /\ ip + 1 \in IP
          BY <1>2, <1>3, <4>1 DEF Wanted, Network
        <5>2. ip \in Int /\ addr \in Int
          BY <1>2, <5>1, SizeType DEF IP
        <5>3. ~(ip + 1 <= addr)
          BY <1>1, <1>2, <4>2, <5>1, <5>2, NetworkIsConvex
        <5>4. QED
          BY <5>2, <5>3
      <4>3. QED
        BY <3>1, <4>1, <4>2
    <3>3. CASE ~(ip + 1 < Size)
      <4>1. \A addr \in Wanted : addr < ip + 1
        BY <1>2, <1>3, <3>3, SizeType DEF IP
      <4>2. QED
        BY <3>1, <4>1
    <3>4. QED
      BY <3>2, <3>3
  <2>3. QED
    BY <1>1, <2>1, <2>2 DEF IInv, LoopInv
<1>6. TypeOK' /\ Running'
  BY <1>1, <1>2, <1>4 DEF IInv, TypeOK, Running
<1>7. LoopInv'
  BY <1>1, <1>3, <1>5 DEF LoopInv, Contains, Mask, NetSize
<1>8. DelInv' /\ AddressesDiffer'
  BY <1>1 DEF IInv, DelInv, AddressesDiffer
<1>9. QED
  BY <1>6, <1>7, <1>8 DEF IInv

LEMMA LastIPInv ==
  ASSUME IInv, LastIP
  PROVE  IInv'
<1>1. /\ pc = "loop" /\ pc' = "del" /\ ~Contains(server, ip)
      /\ listed' = {p \in Peers : peers[p] # None}
      /\ UNCHANGED <<server, peers, command, ip, values>>
  BY DEF LastIP
<1>2. values = Wanted /\ Wanted' = Wanted
  BY <1>1 DEF IInv, LoopInv, Wanted, Network, Contains, Mask, NetSize
<1>3. Deleted' = {}
  BY <1>1 DEF Deleted
<1>4. TypeOK' /\ Running'
  BY <1>1 DEF IInv, TypeOK, Running
<1>5. LoopInv' /\ DelInv'
  BY <1>1, <1>2, <1>3 DEF LoopInv, DelInv
<1>6. AddressesDiffer'
  BY <1>1 DEF IInv, AddressesDiffer
<1>7. QED
  BY <1>4, <1>5, <1>6 DEF IInv

LEMMA DeleteInv ==
  ASSUME IInv, NEW p \in Peers, Del(p)
  PROVE  IInv'
<1>1. /\ pc = "del" /\ pc' = "del" /\ p \in listed
      /\ values' = values \ {peers[p].ip}
      /\ listed' = listed \ {p}
      /\ UNCHANGED <<server, peers, command, ip>>
  BY DEF Del
<1>2. Wanted' = Wanted
  BY <1>1 DEF Wanted, Network, Contains, Mask, NetSize
<1>3. peers[p] # None /\ listed \subseteq {q \in Peers : peers[q] # None}
  BY <1>1 DEF IInv, DelInv
<1>4. Deleted' = Deleted \cup {peers[p].ip}
  BY <1>1, <1>3 DEF Deleted
<1>5. DelInv'
  BY <1>1, <1>2, <1>3, <1>4 DEF IInv, DelInv
<1>6. TypeOK' /\ Running'
  BY <1>1 DEF IInv, TypeOK, Running
<1>7. LoopInv' /\ AddressesDiffer'
  BY <1>1 DEF IInv, LoopInv, AddressesDiffer
<1>8. QED
  BY <1>5, <1>6, <1>7 DEF IInv

(* What is stored is an address of the map, which no peer has, or the one   *)
(* the peer has already.                                                    *)
LEMMA StoreInv ==
  ASSUME IInv, Built, NEW address \in CIDR, Store(address),
         address.ip \in values \/ peers[command.peer] = address
  PROVE  IInv'
<1>1. /\ pc = "del" /\ pc' = "idle" /\ listed = {} /\ listed' = {}
      /\ command' = NoCommand /\ values' = {} /\ ip' = 0 /\ server' = server
      /\ peers' = [peers EXCEPT ![command.peer] = address]
  BY DEF Built, Store, Done
<1>2. command.peer \in Peers /\ 0 \in IP
  BY <1>1, SizeType DEF IInv, Running, Command, IP
<1>3. TypeOK'
  BY <1>1, <1>2 DEF IInv, TypeOK
<1>4. \A q \in Peers : peers[q] # None => peers[q].ip \notin values
  BY <1>1 DEF IInv, DelInv, Deleted
<1>5. AddressesDiffer'
  BY <1>1, <1>2, <1>4 DEF IInv, TypeOK, AddressesDiffer
<1>6. Running' /\ LoopInv' /\ DelInv'
  BY <1>1 DEF Running, LoopInv, DelInv
<1>7. QED
  BY <1>3, <1>5, <1>6 DEF IInv

LEMMA EndInv ==
  ASSUME IInv, Pop \/ AddGiven \/ Apply \/ Abort
  PROVE  IInv'
<1>1. CASE Pop
  <2>1. PICK addr \in values : Store([ip |-> addr, len |-> AddressBits])
    BY <1>1 DEF Pop
  <2>2. [ip |-> addr, len |-> AddressBits] \in CIDR
    BY IPAllocAssumption DEF IInv, TypeOK, CIDR
  <2>3. QED
    BY <1>1, <2>1, <2>2, StoreInv DEF Pop
<1>2. CASE AddGiven
  <2> DEFINE net == [command.address EXCEPT !.ip = Mask(command.address)]
  <2>1. command.address \in CIDR
    BY <1>2 DEF AddGiven, Built, IInv, Running, Command
  <2>2. net \in CIDR
    BY <2>1, MaskIsFirst DEF CIDR
  <2>3. net.ip \in values /\ Store(net)
    BY <1>2 DEF AddGiven
  <2> HIDE DEF net
  <2>4. QED
    BY <1>2, <2>2, <2>3, StoreInv DEF AddGiven
<1>3. CASE Apply
  <2>1. command.address \in CIDR
    BY <1>3 DEF Apply, Built, IInv, Running, Command
  <2>2. QED
    BY <1>3, <2>1, StoreInv DEF Apply
<1>4. CASE Abort
  <2>1. 0 \in IP
    BY SizeType DEF IP
  <2>2. QED
    BY <1>4, <2>1 DEF Abort, IInv, TypeOK, Running, LoopInv, DelInv, AddressesDiffer
<1>5. QED
  BY <1>1, <1>2, <1>3, <1>4

LEMMA NextInv ==
  ASSUME IInv, [Next]_vars
  PROVE  IInv'
<1>1. CASE UNCHANGED vars
  BY <1>1 DEF vars, IInv, TypeOK, Running, LoopInv, DelInv, Deleted, AddressesDiffer, Wanted,
              Network, Contains, Mask, NetSize
<1>2. QED
  BY <1>1, ServerInv, StartInv, NextIPInv, LastIPInv, DeleteInv, EndInv DEF Next, Step, Refuse

LEMMA Invariance == Spec => []IInv
<1>1. QED
  BY InitInv, NextInv, PTL DEF Spec

-----------------------------------------------------------------------------
(* Every variable keeps its type; in particular no command stores an        *)
(* address outside the width of an address.                                 *)
THEOREM TypeCorrect == Spec => []TypeOK
<1>1. IInv => TypeOK
  BY DEF IInv
<1>2. QED
  BY <1>1, Invariance, PTL

(* NewIPMap and buildIPMap compute what they are for, whatever the network: *)
(* also one that ends with the last address there is, after which the loop  *)
(* variable starts over.                                                    *)
THEOREM MapExact == Spec => []MapIsExact
<1>1. ASSUME IInv, Built
      PROVE  values = {addr \in Network(server) :
                         addr # server.ip /\ LastByte(addr) # 0 /\ addr \notin Taken}
  <2>1. values = Wanted \ Deleted
    BY <1>1 DEF IInv, Built, DelInv
  <2>2. Deleted = Taken
    BY <1>1 DEF Built, Deleted, Taken
  <2>3. QED
    BY <2>1, <2>2 DEF Wanted
<1>2. IInv => MapIsExact
  BY <1>1 DEF MapIsExact
<1>3. QED
  BY <1>2, Invariance, PTL

(* However its address is chosen - taken from the map, given on the command *)
(* line or by a manifest - no peer gets that of another.                    *)
THEOREM NoSharedAddress == Spec => []AddressesDiffer
<1>1. IInv => AddressesDiffer
  BY DEF IInv
<1>2. QED
  BY <1>1, Invariance, PTL

(* What is stored fits the server, or was stored for the peer before.       *)
LEMMA StoreFits ==
  ASSUME IInv, Built, NEW address, Store(address),
         address.ip \in values \/ peers[command.peer] = address,
         NEW p \in Peers, ~Fits(p)'
  PROVE  peers'[p] = peers[p] /\ ~Fits(p)
<1>1. /\ pc = "del" /\ listed = {} /\ server' = server
      /\ peers' = [peers EXCEPT ![command.peer] = address]
  BY DEF Built, Store, Done
<1>2. \A addr \in values : Contains(server, addr) /\ addr # server.ip
  BY <1>1 DEF IInv, DelInv, Wanted, Network
<1>3. p = command.peer => peers'[p] = address
  BY <1>1 DEF IInv, TypeOK
<1>4. p # command.peer => peers'[p] = peers[p]
  BY <1>1 DEF IInv, TypeOK
<1>5. CASE p = command.peer /\ address.ip \in values
  BY <1>1, <1>2, <1>3, <1>5 DEF Fits, Contains, Mask, NetSize
<1>6. CASE peers'[p] = peers[p]
  BY <1>1, <1>6 DEF Fits, Contains, Mask, NetSize
<1>7. QED
  BY <1>3, <1>4, <1>5, <1>6

(* Only moving the server can leave a peer outside of its network or at its *)
(* address: for all widths, networks and addresses.                         *)
THEOREM OnlyMovesMisplace == Spec => FitsUntilMoved
<1>1. ASSUME IInv, [Next]_vars, NEW p \in Peers, ~Fits(p)', server' = server
      PROVE  peers'[p] = peers[p] /\ ~Fits(p)
  <2>1. ASSUME peers' = peers
        PROVE  peers'[p] = peers[p] /\ ~Fits(p)
    BY <1>1, <2>1 DEF Fits, Contains, Mask, NetSize
  <2>2. CASE Pop
    <3>1. PICK addr \in values : Store([ip |-> addr, len |-> AddressBits])
      BY <2>2 DEF Pop
    <3>2. QED
      BY <1>1, <2>2, <3>1, StoreFits DEF Pop
  <2>3. CASE AddGiven
    <3> DEFINE net == [command.address EXCEPT !.ip = Mask(command.address)]
    <3>1. net.ip \in values /\ Store(net) /\ Built
      BY <2>3 DEF AddGiven
    <3> HIDE DEF net
    <3>2. QED
      BY <1>1, <3>1, StoreFits
  <2>4. CASE Apply
    BY <1>1, <2>4, StoreFits DEF Apply
  <2>5. CASE ~(Pop \/ AddGiven \/ Apply)
    <3>1. peers' = peers
      BY <1>1, <2>5
      DEF Next, Step, InitServer, DeleteServer, Start, NextIP, LastIP, Del, Refuse, Abort, vars
    <3>2. QED
      BY <2>1, <3>1
  <2>6. QED
    BY <2>2, <2>3, <2>4, <2>5
<1>2. IInv /\ [Next]_vars =>
        [\A p \in Peers :
           ~Fits(p)' => server' # server \/ (peers'[p] = peers[p] /\ ~Fits(p))]_vars
  BY <1>1
<1>3. QED
  BY <1>2, Invariance, PTL DEF Spec, FitsUntilMoved

-----------------------------------------------------------------------------
(* Strings, character by character.                                         *)

Str == Seq(Nat)

Less == {ss \in Nat \X Nat : ss[1] < ss[2]}

LEMMA LessWellFounded == IsWellFoundedOn(Less, Nat)
BY NatLessThanWellFounded DEF OpToRel, Less

LEMMA LeastNumber ==
  ASSUME NEW D \in SUBSET Nat, D # {}
  PROVE  \E m \in D : \A n \in D : m <= n
<1>1. PICK m \in D : \A n \in D : ~(<<n, m>> \in Less)
  BY LessWellFounded, WFMin
<1>2. ASSUME NEW n \in D PROVE m <= n
  <2>1. ~(n < m)
    BY <1>1, Zenon DEF Less
  <2>2. QED
    BY <2>1
<1>3. QED
  BY <1>2

LEMMA Prefixes ==
  ASSUME NEW s \in Str, NEW t \in Str
  PROVE  Strings!IsPrefix(s, t) <=> Len(s) <= Len(t) /\ \A n \in 1 .. Len(s) : s[n] = t[n]
<1>1. SubSeq(s, 1, Len(s)) = s
  BY DEF Str
<1>2. ASSUME Len(s) <= Len(t)
      PROVE  /\ Len(SubSeq(t, 1, Len(s))) = Len(s)
             /\ \A n \in 1 .. Len(s) : SubSeq(t, 1, Len(s))[n] = t[n]
             /\ SubSeq(t, 1, Len(s)) \in Str
  BY <1>2 DEF Str
<1>3. QED
  BY <1>1, <1>2 DEF Strings!IsPrefix, Str

LEMMA Equal ==
  ASSUME NEW s \in Str, NEW t \in Str, Len(s) = Len(t), \A n \in 1 .. Len(s) : s[n] = t[n]
  PROVE  s = t
BY DEF Str

LEMMA StrictPrefixes ==
  ASSUME NEW s \in Str, NEW t \in Str
  PROVE  Strings!IsStrictPrefix(s, t) <=> Len(s) < Len(t) /\ \A n \in 1 .. Len(s) : s[n] = t[n]
<1>1. Len(s) \in Nat /\ Len(t) \in Nat
  BY DEF Str
<1>2. QED
  BY <1>1, Prefixes, Equal DEF Strings!IsStrictPrefix

LEMMA Suffixes ==
  ASSUME NEW s \in Str, NEW t \in Str
  PROVE  Strings!IsSuffix(s, t) <=>
           Len(s) <= Len(t) /\ \A n \in 1 .. Len(s) : s[n] = t[Len(t) - Len(s) + n]
<1> DEFINE r == Strings!Reverse(s)
           q == Strings!Reverse(t)
<1>0. Len(s) \in Nat /\ Len(t) \in Nat
  BY DEF Str
<1>1. /\ r \in Str /\ Len(r) = Len(s)
      /\ \A n \in 1 .. Len(s) : r[n] = s[Len(s) - n + 1]
  BY DEF Str, Strings!Reverse
<1>2. /\ q \in Str /\ Len(q) = Len(t)
      /\ \A n \in 1 .. Len(t) : q[n] = t[Len(t) - n + 1]
  BY DEF Str, Strings!Reverse
<1> HIDE DEF r, q
<1>3. Strings!IsSuffix(s, t) <=> Len(s) <= Len(t) /\ \A n \in 1 .. Len(s) : r[n] = q[n]
  BY <1>1, <1>2, Prefixes DEF Strings!IsSuffix, r, q
<1>4. ASSUME Len(s) <= Len(t), \A n \in 1 .. Len(s) : r[n] = q[n], NEW n \in 1 .. Len(s)
      PROVE  s[n] = t[Len(t) - Len(s) + n]
  <2> DEFINE m == Len(s) - n + 1
  <2>1. m \in 1 .. Len(s) /\ m \in 1 .. Len(t) /\ Len(s) - m + 1 = n
        /\ Len(t) - m + 1 = Len(t) - Len(s) + n
    BY <1>0, <1>4
  <2> HIDE DEF m
  <2>2. r[m] = s[n] /\ q[m] = t[Len(t) - Len(s) + n]
    BY <1>1, <1>2, <2>1
  <2>3. QED
    BY <1>4, <2>1, <2>2
<1>5. ASSUME Len(s) <= Len(t), \A n \in 1 .. Len(s) : s[n] = t[Len(t) - Len(s) + n],
             NEW n \in 1 .. Len(s)
      PROVE  r[n] = q[n]
  <2> DEFINE m == Len(s) - n + 1
  <2>1. m \in 1 .. Len(s) /\ n \in 1 .. Len(t) /\ Len(t) - n + 1 = Len(t) - Len(s) + m
    BY <1>0, <1>5
  <2>2. r[n] = s[m] /\ q[n] = t[Len(t) - n + 1]
    BY <1>1, <1>2, <2>1
  <2> HIDE DEF m
  <2>3. QED
    BY <1>5, <2>1, <2>2
<1>6. QED
  BY <1>3, <1>4, <1>5

(* The order of the keys.                                                   *)
LEMMA Order ==
  ASSUME NEW x \in Str, NEW y \in Str
  PROVE  Before(x, y) <=>
           \/ Len(x) < Len(y) /\ \A n \in 1 .. Len(x) : x[n] = y[n]
           \/ \E n \in 1 .. Len(x) :
                /\ n <= Len(y) /\ x[n] < y[n]
                /\ \A m \in 1 .. n - 1 : x[m] = y[m]
BY StrictPrefixes DEF Before

LEMMA Characters ==
  ASSUME NEW x \in Str
  PROVE  Len(x) \in Nat /\ \A n \in 1 .. Len(x) : x[n] \in Nat
BY DEF Str

LEMMA OrderIsStrict ==
  ASSUME NEW x \in Str, NEW y \in Str, Before(x, y)
  PROVE  ~Before(y, x)
<1> SUFFICES ASSUME Before(y, x) PROVE FALSE
  OBVIOUS
<1>1. /\ Len(x) \in Nat /\ Len(y) \in Nat
      /\ \A n \in 1 .. Len(x) : x[n] \in Nat
      /\ \A n \in 1 .. Len(y) : y[n] \in Nat
  BY Characters
<1>2. CASE Len(x) < Len(y) /\ \A n \in 1 .. Len(x) : x[n] = y[n]
  <2>1. PICK n \in 1 .. Len(y) : n <= Len(x) /\ y[n] < x[n]
    BY <1>1, <1>2, Order
  <2>2. QED
    BY <1>1, <1>2, <2>1
<1>3. CASE \E n \in 1 .. Len(x) :
             /\ n <= Len(y) /\ x[n] < y[n]
             /\ \A m \in 1 .. n - 1 : x[m] = y[m]
  <2>1. PICK n \in 1 .. Len(x) :
               /\ n <= Len(y) /\ x[n] < y[n]
               /\ \A m \in 1 .. n - 1 : x[m] = y[m]
    BY <1>3
  <2>2. CASE Len(y) < Len(x) /\ \A m \in 1 .. Len(y) : y[m] = x[m]
    BY <1>1, <2>1, <2>2
  <2>3. CASE \E m \in 1 .. Len(y) :
               /\ m <= Len(x) /\ y[m] < x[m]
               /\ \A l \in 1 .. m - 1 : y[l] = x[l]
    <3>1. PICK m \in 1 .. Len(y) :
                 /\ m <= Len(x) /\ y[m] < x[m]
                 /\ \A l \in 1 .. m - 1 : y[l] = x[l]
      BY <2>3
    <3>2. CASE m < n
      <4>1. m \in 1 .. n - 1 /\ m \in 1 .. Len(x)
        BY <1>1, <2>1, <3>1, <3>2
      <4>2. x[m] = y[m] /\ x[m] \in Nat
        BY <1>1, <2>1, <4>1
      <4>3. QED
        BY <3>1, <4>2
    <3>3. CASE n < m
      <4>1. n \in 1 .. m - 1
        BY <1>1, <2>1, <3>1, <3>3
      <4>2. x[n] = y[n] /\ x[n] \in Nat
        BY <1>1, <3>1, <4>1
      <4>3. QED
        BY <2>1, <4>2
    <3>4. CASE m = n
      <4>1. x[n] \in Nat /\ y[n] \in Nat
        BY <1>1, <2>1
      <4>2. QED
        BY <2>1, <3>1, <3>4, <4>1
    <3>5. QED
      BY <3>2, <3>3, <3>4
  <2>4. QED
    BY <2>2, <2>3, Order
<1>4. QED
  BY <1>2, <1>3, Order

(* What has the prefix p comes after p, and before all else that does.      *)
LEMMA PrefixBefore ==
  ASSUME NEW p \in Str, NEW k \in Str, Strings!IsPrefix(p, k)
  PROVE  ~Before(k, p)
<1>1. /\ Len(p) \in Nat /\ Len(k) \in Nat /\ Len(p) <= Len(k)
      /\ \A n \in 1 .. Len(p) : p[n] = k[n] /\ p[n] \in Nat
  BY Characters, Prefixes
<1>2. ~(Len(k) < Len(p))
  BY <1>1
<1>3. ASSUME NEW n \in 1 .. Len(k), n <= Len(p), k[n] < p[n]
      PROVE  FALSE
  BY <1>1, <1>3
<1>4. QED
  BY <1>2, <1>3, Order

LEMMA PrefixFirst ==
  ASSUME NEW p \in Str, NEW k \in Str, NEW j \in Str,
         Strings!IsPrefix(p, k), ~Strings!IsPrefix(p, j), ~Before(j, p)
  PROVE  Before(k, j)
<1>1. /\ Len(p) \in Nat /\ Len(k) \in Nat /\ Len(j) \in Nat
      /\ \A n \in 1 .. Len(p) : p[n] \in Nat
      /\ \A n \in 1 .. Len(j) : j[n] \in Nat
  BY Characters
<1>2. Len(p) <= Len(k) /\ \A n \in 1 .. Len(p) : p[n] = k[n]
  BY Prefixes
<1> DEFINE D == {n \in 1 .. Len(p) : n <= Len(j) /\ p[n] # j[n]}
<1>3. D # {}
  <2> SUFFICES ASSUME D = {} PROVE FALSE
    OBVIOUS
  <2>1. \A n \in 1 .. Len(p) : n <= Len(j) => p[n] = j[n]
    OBVIOUS
  <2>2. Len(j) < Len(p)
    BY <1>1, <2>1, Prefixes
  <2>3. \A n \in 1 .. Len(j) : j[n] = p[n]
    BY <1>1, <2>1, <2>2
  <2>4. QED
    BY <2>2, <2>3, Order
<1>4. PICK m \in D : \A n \in D : m <= n
  <2>1. D \in SUBSET Nat
    BY <1>1
  <2> HIDE DEF D
  <2>2. QED
    BY <1>3, <2>1, LeastNumber
<1>5. /\ m \in 1 .. Len(p) /\ m \in 1 .. Len(j) /\ m \in 1 .. Len(k)
      /\ p[m] # j[m]
  BY <1>1, <1>2
<1>6. ASSUME NEW n \in 1 .. m - 1
      PROVE  n \in 1 .. Len(p) /\ n <= Len(j) /\ p[n] = j[n]
  <2>1. n \in 1 .. Len(p) /\ n <= Len(j) /\ n < m /\ n \in Nat /\ m \in Nat
    BY <1>1, <1>5
  <2>2. n \notin D
    BY <1>4, <2>1
  <2>3. QED
    BY <2>1, <2>2
<1> HIDE DEF D
<1>7. p[m] < j[m]
  <2>1. p[m] \in Nat /\ j[m] \in Nat
    BY <1>1, <1>5
  <2>2. ~(j[m] < p[m])
    <3>1. \A n \in 1 .. m - 1 : j[n] = p[n]
      BY <1>6
    <3>2. m <= Len(p)
      BY <1>1, <1>5
    <3>3. QED
      BY <1>5, <3>1, <3>2, Order
  <2>3. QED
    BY <1>5, <2>1, <2>2
<1>8. k[m] < j[m] /\ \A n \in 1 .. m - 1 : k[n] = j[n]
  BY <1>2, <1>5, <1>6, <1>7
<1>9. m <= Len(j)
  BY <1>1, <1>5
<1>10. QED
  BY <1>5, <1>8, <1>9, Order

-----------------------------------------------------------------------------
(* The keys, part by part.                                                  *)

LEMMA Concatenation ==
  ASSUME NEW s \in Str, NEW t \in Str
  PROVE  /\ s \o t \in Str
         /\ Len(s \o t) = Len(s) + Len(t)
         /\ \A n \in 1 .. Len(s) : (s \o t)[n] = s[n]
         /\ \A n \in 1 .. Len(t) : (s \o t)[Len(s) + n] = t[n]
<1>1. /\ s \o t \in Str
      /\ Len(s \o t) = Len(s) + Len(t)
      /\ \A n \in 1 .. Len(s) + Len(t) :
           (s \o t)[n] = IF n <= Len(s) THEN s[n] ELSE t[n - Len(s)]
  BY ConcatProperties DEF Str
<1>2. Len(s) \in Nat /\ Len(t) \in Nat
  BY Characters
<1>3. ASSUME NEW n \in 1 .. Len(s)
      PROVE  (s \o t)[n] = s[n]
  <2>1. n \in 1 .. Len(s) + Len(t) /\ n <= Len(s)
    BY <1>2
  <2>2. QED
    BY <1>1, <2>1
<1>4. ASSUME NEW n \in 1 .. Len(t)
      PROVE  (s \o t)[Len(s) + n] = t[n]
  <2>1. /\ Len(s) + n \in 1 .. Len(s) + Len(t)
        /\ ~(Len(s) + n <= Len(s)) /\ Len(s) + n - Len(s) = n
    BY <1>2
  <2>2. QED
    BY <1>1, <2>1
<1>5. QED
  BY <1>1, <1>3, <1>4

LEMMA SlashAlone == <<Slash>> \in Str /\ Len(<<Slash>>) = 1 /\ <<Slash>>[1] = Slash
BY KeySearchAssumption DEF Str

LEMMA WordType ==
  ASSUME NEW w \in Words
  PROVE  /\ w \in Str
         /\ Len(w) \in Nat /\ 1 <= Len(w)
         /\ \A n \in 1 .. Len(w) : w[n] \in Nat /\ w[n] # Slash
<1>1. w \in Str /\ w # <<>>
  BY KeySearchAssumption DEF Str
<1>2. Len(w) \in Nat /\ Len(w) # 0
  BY <1>1 DEF Str
<1>3. \A n \in 1 .. Len(w) : w[n] \in Nat
  BY <1>1, Characters
<1>4. QED
  BY <1>1, <1>2, <1>3, KeySearchAssumption

(* Where a listing of s seeks, and the length of "/peers/".                 *)
PrefixOf(s) == PeerPrefix \o <<Slash>> \o s
BaseLen == Len(PeersWord) + 2

LEMMA PeerPrefixParts ==
  /\ PeerPrefix \in Str /\ Len(PeerPrefix) = Len(PeersWord) + 1
  /\ PeerPrefix[1] = Slash
  /\ \A n \in 1 .. Len(PeersWord) : PeerPrefix[1 + n] = PeersWord[n]
<1>1. PeersWord \in Str
  BY WordType DEF Words
<1>2. QED
  BY <1>1, SlashAlone, Concatenation DEF PeerPrefix

LEMMA BaseParts ==
  /\ PeerPrefix \o <<Slash>> \in Str /\ Len(PeerPrefix \o <<Slash>>) = BaseLen
  /\ BaseLen \in Nat /\ 3 <= BaseLen
  /\ (PeerPrefix \o <<Slash>>)[1] = Slash
  /\ \A n \in 1 .. Len(PeersWord) : (PeerPrefix \o <<Slash>>)[1 + n] = PeersWord[n]
  /\ (PeerPrefix \o <<Slash>>)[BaseLen] = Slash
<1>1. Len(PeersWord) \in Nat /\ 1 <= Len(PeersWord)
  BY WordType DEF Words
<1>2. /\ PeerPrefix \o <<Slash>> \in Str /\ Len(PeerPrefix \o <<Slash>>) = BaseLen
      /\ \A n \in 1 .. Len(PeerPrefix) : (PeerPrefix \o <<Slash>>)[n] = PeerPrefix[n]
      /\ (PeerPrefix \o <<Slash>>)[Len(PeerPrefix) + 1] = Slash
  BY <1>1, PeerPrefixParts, SlashAlone, Concatenation DEF BaseLen
<1>3. 1 \in 1 .. Len(PeerPrefix) /\ \A n \in 1 .. Len(PeersWord) : 1 + n \in 1 .. Len(PeerPrefix)
  BY <1>1, PeerPrefixParts
<1>4. BaseLen \in Nat /\ 3 <= BaseLen /\ BaseLen = Len(PeerPrefix) + 1
  BY <1>1, PeerPrefixParts DEF BaseLen
<1>5. QED
  BY <1>2, <1>3, <1>4, PeerPrefixParts

LEMMA PrefixParts ==
  ASSUME NEW s \in Words
  PROVE  /\ PrefixOf(s) \in Str /\ Len(PrefixOf(s)) = BaseLen + Len(s)
         /\ \A n \in 1 .. BaseLen : PrefixOf(s)[n] = (PeerPrefix \o <<Slash>>)[n]
         /\ \A n \in 1 .. Len(s) : PrefixOf(s)[BaseLen + n] = s[n]
BY WordType, BaseParts, Concatenation DEF PrefixOf

LEMMA PeerKeyParts ==
  ASSUME NEW s \in Words, NEW u \in Words
  PROVE  /\ PeerKey(s, u) \in Str
         /\ Len(PeerKey(s, u)) = BaseLen + Len(s) + 1 + Len(u)
         /\ \A n \in 1 .. BaseLen : PeerKey(s, u)[n] = (PeerPrefix \o <<Slash>>)[n]
         /\ \A n \in 1 .. Len(s) : PeerKey(s, u)[BaseLen + n] = s[n]
         /\ PeerKey(s, u)[BaseLen + Len(s) + 1] = Slash
         /\ \A n \in 1 .. Len(u) : PeerKey(s, u)[BaseLen + Len(s) + 1 + n] = u[n]
<1> DEFINE p == PrefixOf(s)
           q == p \o <<Slash>>
<1>1. /\ s \in Str /\ Len(s) \in Nat /\ u \in Str /\ Len(u) \in Nat /\ BaseLen \in Nat
      /\ p \in Str /\ Len(p) = BaseLen + Len(s)
  BY WordType, BaseParts, PrefixParts
<1>2. /\ q \in Str /\ Len(q) = BaseLen + Len(s) + 1
      /\ \A n \in 1 .. Len(p) : q[n] = p[n]
      /\ q[Len(p) + 1] = Slash
  <2> HIDE DEF p
  <2>1. QED
    BY <1>1, SlashAlone, Concatenation
<1>3. PeerKey(s, u) = q \o u
  BY DEF PeerKey, PrefixOf
<1>4. /\ q \o u \in Str /\ Len(q \o u) = Len(q) + Len(u)
      /\ \A n \in 1 .. Len(q) : (q \o u)[n] = q[n]
      /\ \A n \in 1 .. Len(u) : (q \o u)[Len(q) + n] = u[n]
  <2> HIDE DEF q
  <2>1. QED
    BY <1>1, <1>2, Concatenation
<1> HIDE DEF q
<1>5. ASSUME NEW n \in 1 .. Len(p)
      PROVE  PeerKey(s, u)[n] = p[n]
  <2>1. n \in 1 .. Len(q)
    BY <1>1, <1>2
  <2>2. QED
    BY <1>2, <1>3, <1>4, <2>1
<1>6. ASSUME NEW n \in 1 .. BaseLen
      PROVE  PeerKey(s, u)[n] = (PeerPrefix \o <<Slash>>)[n]
  <2>1. n \in 1 .. Len(p)
    BY <1>1
  <2>2. QED
    BY <1>5, <2>1, PrefixParts
<1>7. ASSUME NEW n \in 1 .. Len(s)
      PROVE  PeerKey(s, u)[BaseLen + n] = s[n]
  <2>1. BaseLen + n \in 1 .. Len(p)
    BY <1>1
  <2>2. QED
    BY <1>5, <2>1, PrefixParts
<1>8. PeerKey(s, u)[BaseLen + Len(s) + 1] = Slash
  <2>1. BaseLen + Len(s) + 1 \in 1 .. Len(q)
    BY <1>1, <1>2
  <2>2. QED
    BY <1>1, <1>2, <1>3, <1>4, <2>1
<1>9. QED
  BY <1>1, <1>2, <1>3, <1>4, <1>6, <1>7, <1>8

LEMMA ServerKeyParts ==
  ASSUME NEW s \in Words
  PROVE  /\ ServerKey(s) \in Str
         /\ Strings!IsPrefix(ServerPrefix, ServerKey(s))
         /\ 2 <= Len(ServerKey(s)) /\ ServerKey(s)[2] = ServersWord[1]
         /\ ServerPrefix \in Str /\ 2 <= Len(ServerPrefix) /\ ServerPrefix[2] = ServersWord[1]
<1> DEFINE q == ServerPrefix \o <<Slash>>
<1>1. ServersWord \in Str /\ Len(ServersWord) \in Nat /\ 1 <= Len(ServersWord)
      /\ s \in Str /\ Len(s) \in Nat
  BY WordType DEF Words
<1>2. /\ ServerPrefix \in Str /\ Len(ServerPrefix) = 1 + Len(ServersWord)
      /\ \A n \in 1 .. Len(ServersWord) : ServerPrefix[1 + n] = ServersWord[n]
  BY <1>1, SlashAlone, Concatenation DEF ServerPrefix
<1>3. 2 <= Len(ServerPrefix) /\ ServerPrefix[2] = ServersWord[1] /\ Len(ServerPrefix) \in Nat
  BY <1>1, <1>2
<1>4. /\ q \in Str /\ Len(q) = Len(ServerPrefix) + 1
      /\ \A n \in 1 .. Len(ServerPrefix) : q[n] = ServerPrefix[n]
  BY <1>2, SlashAlone, Concatenation
<1> HIDE DEF q
<1>5. /\ q \o s \in Str /\ Len(q \o s) = Len(q) + Len(s)
      /\ \A n \in 1 .. Len(q) : (q \o s)[n] = q[n]
  BY <1>1, <1>4, Concatenation
<1>6. ServerKey(s) = q \o s
  BY DEF ServerKey, q
<1>7. /\ Len(ServerPrefix) <= Len(ServerKey(s))
      /\ \A n \in 1 .. Len(ServerPrefix) : ServerPrefix[n] = ServerKey(s)[n]
  BY <1>1, <1>3, <1>4, <1>5, <1>6
<1>8. Strings!IsPrefix(ServerPrefix, ServerKey(s))
  BY <1>2, <1>5, <1>6, <1>7, Prefixes
<1>9. QED
  BY <1>2, <1>3, <1>5, <1>6, <1>7, <1>8, Characters

(* A key of one kind has not the prefix of the other.                       *)
LEMMA KindsDiffer ==
  ASSUME NEW s \in Words, NEW t \in Words, NEW u \in Words
  PROVE  /\ Strings!IsPrefix(PeerPrefix, PeerKey(t, u))
         /\ ~Strings!IsPrefix(ServerPrefix, PeerKey(t, u))
         /\ ~Strings!IsPrefix(PeerPrefix, ServerKey(t))
         /\ ~Strings!IsPrefix(PrefixOf(s), ServerKey(t))
<1> DEFINE base == PeerPrefix \o <<Slash>>
<1>1. /\ PeersWord \in Words /\ Len(PeersWord) \in Nat /\ 1 <= Len(PeersWord)
      /\ Len(s) \in Nat /\ Len(t) \in Nat /\ Len(u) \in Nat
  BY WordType DEF Words
<1>2. /\ BaseLen = Len(PeersWord) + 2
      /\ base[1] = Slash /\ base[2] = PeersWord[1]
      /\ \A n \in 1 .. Len(PeersWord) : base[1 + n] = PeersWord[n]
  BY <1>1, BaseParts DEF BaseLen
<1>3. PeerKey(t, u)[2] = PeersWord[1] /\ PrefixOf(s)[2] = PeersWord[1]
      /\ PeerPrefix[2] = PeersWord[1]
  <2>1. 2 \in 1 .. BaseLen
    BY <1>1, <1>2
  <2>2. PeerPrefix[2] = PeersWord[1]
    <3>1. 1 \in 1 .. Len(PeersWord) /\ 1 + 1 = 2
      BY <1>1
    <3>2. QED
      BY <3>1, PeerPrefixParts
  <2>3. PeerKey(t, u)[2] = base[2]
    BY <2>1, PeerKeyParts
  <2>4. PrefixOf(s)[2] = base[2]
    BY <2>1, PrefixParts
  <2>5. QED
    BY <1>2, <2>2, <2>3, <2>4
<1>4. PeersWord[1] # ServersWord[1]
  BY KeySearchAssumption
<1>5. 2 <= Len(PeerPrefix) /\ 2 <= Len(PrefixOf(s)) /\ 2 <= Len(ServerPrefix)
      /\ Len(PeerPrefix) \in Nat /\ Len(PrefixOf(s)) \in Nat /\ Len(ServerPrefix) \in Nat
  <2>1. Len(PeerPrefix) = Len(PeersWord) + 1
    BY PeerPrefixParts
  <2>2. Len(PrefixOf(s)) = BaseLen + Len(s)
    BY PrefixParts
  <2>3. ServerPrefix \in Str /\ 2 <= Len(ServerPrefix)
    BY ServerKeyParts
  <2>4. QED
    BY <1>1, <1>2, <2>1, <2>2, <2>3, Characters
<1>6. Strings!IsPrefix(PeerPrefix, PeerKey(t, u))
  <2>1. Len(PeerPrefix) <= Len(PeerKey(t, u))
    <3>1. Len(PeerPrefix) = Len(PeersWord) + 1
      BY PeerPrefixParts
    <3>2. Len(PeerKey(t, u)) = BaseLen + Len(t) + 1 + Len(u)
      BY PeerKeyParts
    <3>3. QED
      BY <1>1, <1>2, <3>1, <3>2
  <2>2. ASSUME NEW n \in 1 .. Len(PeerPrefix)
        PROVE  PeerPrefix[n] = PeerKey(t, u)[n]
    <3>1. n \in 1 .. BaseLen
      BY <1>1, <1>2, PeerPrefixParts
    <3>2. PeerKey(t, u)[n] = base[n]
      BY <3>1, PeerKeyParts
    <3>3. PeerPrefix[n] = base[n]
      BY PeerPrefixParts, SlashAlone, Concatenation
    <3>4. QED
      BY <3>2, <3>3
  <2>3. QED
    BY <2>1, <2>2, Prefixes, PeerPrefixParts, PeerKeyParts
<1>7. ~Strings!IsPrefix(ServerPrefix, PeerKey(t, u))
  BY <1>3, <1>4, <1>5, Prefixes, ServerKeyParts, PeerKeyParts
<1>8. ~Strings!IsPrefix(PeerPrefix, ServerKey(t))
  BY <1>3, <1>4, <1>5, Prefixes, ServerKeyParts, PeerPrefixParts
<1>9. ~Strings!IsPrefix(PrefixOf(s), ServerKey(t))
  BY <1>3, <1>4, <1>5, Prefixes, ServerKeyParts, PrefixParts
<1>10. QED
  BY <1>6, <1>7, <1>8, <1>9

(* A listing of s walks over the keys of the servers whose names begin so.  *)
LEMMA PrefixOfPeer ==
  ASSUME NEW s \in Words, NEW t \in Words, NEW u \in Words
  PROVE  Strings!IsPrefix(PrefixOf(s), PeerKey(t, u)) <=> Strings!IsPrefix(s, t)
<1> DEFINE p == PrefixOf(s)
           k == PeerKey(t, u)
<1>1. /\ s \in Str /\ t \in Str
      /\ Len(s) \in Nat /\ Len(t) \in Nat /\ Len(u) \in Nat /\ BaseLen \in Nat
  BY WordType, BaseParts
<1>2. /\ p \in Str /\ Len(p) = BaseLen + Len(s)
      /\ \A n \in 1 .. BaseLen : p[n] = (PeerPrefix \o <<Slash>>)[n]
      /\ \A n \in 1 .. Len(s) : p[BaseLen + n] = s[n]
  BY PrefixParts
<1>3. /\ k \in Str /\ Len(k) = BaseLen + Len(t) + 1 + Len(u)
      /\ \A n \in 1 .. BaseLen : k[n] = (PeerPrefix \o <<Slash>>)[n]
      /\ \A n \in 1 .. Len(t) : k[BaseLen + n] = t[n]
      /\ k[BaseLen + Len(t) + 1] = Slash
  BY PeerKeyParts
<1> HIDE DEF p, k
<1>4. ASSUME Strings!IsPrefix(s, t) PROVE Strings!IsPrefix(p, k)
  <2>1. Len(s) <= Len(t) /\ \A n \in 1 .. Len(s) : s[n] = t[n]
    BY <1>1, <1>4, Prefixes
  <2>2. ASSUME NEW n \in 1 .. Len(p) PROVE p[n] = k[n]
    <3>1. CASE n <= BaseLen
      <4>1. n \in 1 .. BaseLen
        BY <1>1, <1>2, <3>1
      <4>2. QED
        BY <1>2, <1>3, <4>1
    <3>2. CASE BaseLen < n
      <4>1. n - BaseLen \in 1 .. Len(s) /\ n - BaseLen \in 1 .. Len(t)
            /\ BaseLen + (n - BaseLen) = n
        BY <1>1, <1>2, <2>1, <3>2
      <4>2. QED
        BY <1>2, <1>3, <2>1, <4>1
    <3>3. QED
      BY <1>1, <1>2, <3>1, <3>2
  <2>3. Len(p) <= Len(k)
    BY <1>1, <1>2, <1>3, <2>1
  <2>4. QED
    BY <1>2, <1>3, <2>2, <2>3, Prefixes
<1>5. ASSUME Strings!IsPrefix(p, k) PROVE Strings!IsPrefix(s, t)
  <2>1. Len(p) <= Len(k) /\ \A n \in 1 .. Len(p) : p[n] = k[n]
    BY <1>2, <1>3, <1>5, Prefixes
  <2>2. \A n \in 1 .. Len(s) : s[n] = k[BaseLen + n]
    BY <1>1, <1>2, <2>1
  <2>3. Len(s) <= Len(t)
    <3> SUFFICES ASSUME Len(t) < Len(s) PROVE FALSE
      BY <1>1
    <3>1. Len(t) + 1 \in 1 .. Len(s)
      BY <1>1
    <3>2. s[Len(t) + 1] = Slash
      <4>1. BaseLen + (Len(t) + 1) = BaseLen + Len(t) + 1
        BY <1>1
      <4>2. QED
        BY <1>3, <2>2, <3>1, <4>1
    <3>3. QED
      BY <3>1, <3>2, WordType
  <2>4. ASSUME NEW n \in 1 .. Len(s) PROVE s[n] = t[n]
    <3>1. n \in 1 .. Len(t)
      BY <1>1, <2>3
    <3>2. QED
      BY <1>3, <2>2, <3>1
  <2>5. QED
    BY <1>1, <2>3, <2>4, Prefixes
<1>6. QED
  BY <1>4, <1>5 DEF p, k

(* The expression, which looks for s and a slash, wherever they are, with   *)
(* something after it.                                                      *)
LEMMA Matching ==
  ASSUME NEW s \in Words, NEW k \in Str
  PROVE  MatchesServer(s, k) <=>
           \E i \in 0 .. Len(k) :
             /\ i + Len(s) + 1 < Len(k)
             /\ k[i + Len(s) + 1] = Slash
             /\ \A n \in 1 .. Len(s) : k[i + n] = s[n]
<1> DEFINE q == s \o <<Slash>>
           rest(i) == SubSeq(k, i + 1, Len(k))
<1>1. s \in Str /\ Len(s) \in Nat /\ 1 <= Len(s) /\ Len(k) \in Nat
  BY WordType, Characters
<1>2. /\ q \in Str /\ Len(q) = Len(s) + 1
      /\ \A n \in 1 .. Len(s) : q[n] = s[n]
      /\ q[Len(s) + 1] = Slash
  BY <1>1, SlashAlone, Concatenation
<1>3. ASSUME NEW i \in 0 .. Len(k)
      PROVE  /\ rest(i) \in Str /\ Len(rest(i)) = Len(k) - i
             /\ \A n \in 1 .. Len(k) - i : rest(i)[n] = k[i + n]
  <2>1. /\ k \in Seq(Nat) /\ i + 1 \in 1 .. Len(k) + 1 /\ Len(k) \in i + 1 - 1 .. Len(k)
    BY <1>1 DEF Str
  <2>2. /\ rest(i) \in Seq(Nat)
        /\ Len(rest(i)) = Len(k) - (i + 1) + 1
        /\ \A n \in 1 .. Len(k) - (i + 1) + 1 : rest(i)[n] = k[(i + 1) + n - 1]
    BY <2>1, SubSeqProperties
  <2>3. Len(k) - (i + 1) + 1 = Len(k) - i
    BY <1>1
  <2>4. \A n \in 1 .. Len(k) - i : (i + 1) + n - 1 = i + n
    BY <1>1
  <2> HIDE DEF rest
  <2>5. QED
    BY <2>2, <2>3, <2>4 DEF Str
<1>4. MatchesServer(s, k) <=> \E i \in 0 .. Len(k) : Strings!IsStrictPrefix(q, rest(i))
  BY DEF MatchesServer
<1> HIDE DEF q, rest
<1>5. ASSUME NEW i \in 0 .. Len(k)
      PROVE  Strings!IsStrictPrefix(q, rest(i)) <=>
               /\ i + Len(s) + 1 < Len(k)
               /\ k[i + Len(s) + 1] = Slash
               /\ \A n \in 1 .. Len(s) : k[i + n] = s[n]
  <2>1. Strings!IsStrictPrefix(q, rest(i)) <=>
          Len(q) < Len(rest(i)) /\ \A n \in 1 .. Len(q) : q[n] = rest(i)[n]
    BY <1>2, <1>3, StrictPrefixes
  <2>2. Len(q) < Len(rest(i)) <=> i + Len(s) + 1 < Len(k)
    BY <1>1, <1>2, <1>3
  <2>3. ASSUME i + Len(s) + 1 < Len(k)
        PROVE  (\A n \in 1 .. Len(q) : q[n] = rest(i)[n]) <=>
                 /\ k[i + Len(s) + 1] = Slash
                 /\ \A n \in 1 .. Len(s) : k[i + n] = s[n]
    <3>1. \A n \in 1 .. Len(q) : n \in 1 .. Len(k) - i /\ (n = Len(s) + 1 \/ n \in 1 .. Len(s))
      BY <1>1, <1>2, <2>3
    <3>2. \A n \in 1 .. Len(q) : rest(i)[n] = k[i + n]
      BY <1>3, <3>1
    <3>3. Len(s) + 1 \in 1 .. Len(q) /\ i + (Len(s) + 1) = i + Len(s) + 1
      BY <1>1, <1>2
    <3>4. \A n \in 1 .. Len(s) : n \in 1 .. Len(q)
      BY <1>1, <1>2
    <3>5. QED
      BY <1>2, <3>1, <3>2, <3>3, <3>4
  <2>4. QED
    BY <2>1, <2>2, <2>3
<1>6. QED
  BY <1>4, <1>5

(* The slashes of a key are three.                                          *)
LEMMA Slashes ==
  ASSUME NEW t \in Words, NEW u \in Words, NEW n \in 1 .. Len(PeerKey(t, u)),
         PeerKey(t, u)[n] = Slash
  PROVE  n \in {1, BaseLen, BaseLen + Len(t) + 1}
<1> DEFINE k == PeerKey(t, u)
           base == PeerPrefix \o <<Slash>>
<1>1. /\ Len(PeersWord) \in Nat /\ Len(t) \in Nat /\ Len(u) \in Nat
      /\ BaseLen = Len(PeersWord) + 2
      /\ \A m \in 1 .. Len(PeersWord) : PeersWord[m] # Slash
      /\ \A m \in 1 .. Len(t) : t[m] # Slash
      /\ \A m \in 1 .. Len(u) : u[m] # Slash
  BY WordType DEF Words, BaseLen
<1>2. \A m \in 1 .. Len(PeersWord) : base[1 + m] = PeersWord[m]
  BY BaseParts
<1>3. /\ Len(k) = BaseLen + Len(t) + 1 + Len(u)
      /\ \A m \in 1 .. BaseLen : k[m] = base[m]
      /\ \A m \in 1 .. Len(t) : k[BaseLen + m] = t[m]
      /\ \A m \in 1 .. Len(u) : k[BaseLen + Len(t) + 1 + m] = u[m]
  BY PeerKeyParts
<1> HIDE DEF k, base
<1>4. n \in 1 .. Len(k) /\ k[n] = Slash
  BY DEF k
<1>5. CASE 1 < n /\ n < BaseLen
  <2>1. n - 1 \in 1 .. Len(PeersWord) /\ 1 + (n - 1) = n /\ n \in 1 .. BaseLen
    BY <1>1, <1>4, <1>5
  <2>2. k[n] = PeersWord[n - 1]
    BY <1>2, <1>3, <2>1
  <2>3. QED
    BY <1>1, <1>4, <2>1, <2>2
<1>6. CASE BaseLen < n /\ n < BaseLen + Len(t) + 1
  <2> DEFINE m == n - BaseLen
  <2>1. m \in 1 .. Len(t) /\ BaseLen + m = n
    BY <1>1, <1>4, <1>6
  <2> HIDE DEF m
  <2>2. QED
    BY <1>1, <1>3, <1>4, <2>1
<1>7. CASE BaseLen + Len(t) + 1 < n
  <2> DEFINE m == n - (BaseLen + Len(t) + 1)
  <2>1. m \in 1 .. Len(u) /\ BaseLen + Len(t) + 1 + m = n
    BY <1>1, <1>3, <1>4, <1>7
  <2> HIDE DEF m
  <2>2. QED
    BY <1>1, <1>3, <1>4, <2>1
<1>8. n \in Nat /\ BaseLen \in Nat /\ 1 <= n
  BY <1>1, <1>4
<1>9. QED
  BY <1>1, <1>5, <1>6, <1>7, <1>8

LEMMA MatchingPeer ==
  ASSUME NEW s \in Words, NEW t \in Words, NEW u \in Words
  PROVE  MatchesServer(s, PeerKey(t, u)) <=> Matched(s, t)
<1> DEFINE k == PeerKey(t, u)
           base == PeerPrefix \o <<Slash>>
<1>1. /\ s \in Str /\ t \in Str /\ PeersWord \in Str
      /\ Len(s) \in Nat /\ 1 <= Len(s) /\ Len(t) \in Nat /\ Len(u) \in Nat /\ 1 <= Len(u)
      /\ Len(PeersWord) \in Nat /\ BaseLen = Len(PeersWord) + 2
      /\ \A n \in 1 .. Len(s) : s[n] # Slash
  BY WordType DEF Words, BaseLen
<1>2. /\ base[1] = Slash /\ base[BaseLen] = Slash
      /\ \A n \in 1 .. Len(PeersWord) : base[1 + n] = PeersWord[n]
  BY BaseParts
<1>3. /\ k \in Str /\ Len(k) = BaseLen + Len(t) + 1 + Len(u)
      /\ \A n \in 1 .. BaseLen : k[n] = base[n]
      /\ \A n \in 1 .. Len(t) : k[BaseLen + n] = t[n]
      /\ k[BaseLen + Len(t) + 1] = Slash
  BY PeerKeyParts
<1>4. \A n \in 1 .. Len(k) : k[n] = Slash => n \in {1, BaseLen, BaseLen + Len(t) + 1}
  BY Slashes
<1>5. MatchesServer(s, k) <=>
        \E i \in 0 .. Len(k) :
          /\ i + Len(s) + 1 < Len(k)
          /\ k[i + Len(s) + 1] = Slash
          /\ \A n \in 1 .. Len(s) : k[i + n] = s[n]
  BY <1>3, Matching
<1> HIDE DEF k, base
<1>6. \A n \in 1 .. Len(PeersWord) : k[1 + n] = PeersWord[n]
  <2> SUFFICES ASSUME NEW n \in 1 .. Len(PeersWord) PROVE k[1 + n] = PeersWord[n]
    OBVIOUS
  <2>1. 1 + n \in 1 .. BaseLen
    BY <1>1
  <2>2. QED
    BY <1>2, <1>3, <2>1
<1>7. k[1] = Slash /\ k[BaseLen] = Slash
  <2>1. 1 \in 1 .. BaseLen /\ BaseLen \in 1 .. BaseLen
    BY <1>1
  <2>2. QED
    BY <1>2, <1>3, <2>1
<1>8. ASSUME Strings!IsSuffix(s, t) PROVE MatchesServer(s, k)
  <2> DEFINE i == BaseLen + (Len(t) - Len(s))
  <2>1. Len(s) <= Len(t) /\ \A n \in 1 .. Len(s) : s[n] = t[Len(t) - Len(s) + n]
    BY <1>1, <1>8, Suffixes
  <2>2. /\ i \in 0 .. Len(k) /\ i + Len(s) + 1 = BaseLen + Len(t) + 1
        /\ i + Len(s) + 1 < Len(k)
    BY <1>1, <1>3, <2>1
  <2>3. ASSUME NEW n \in 1 .. Len(s) PROVE k[i + n] = s[n]
    <3> DEFINE m == Len(t) - Len(s) + n
    <3>1. m \in 1 .. Len(t) /\ i + n = BaseLen + m
      BY <1>1, <2>1
    <3>2. s[n] = t[m]
      BY <2>1
    <3> HIDE DEF m, i
    <3>3. QED
      BY <1>3, <3>1, <3>2
  <2> HIDE DEF i
  <2>4. QED
    BY <1>3, <1>5, <2>2, <2>3
<1>9. ASSUME Strings!IsSuffix(s, PeersWord) PROVE MatchesServer(s, k)
  <2> DEFINE i == 1 + (Len(PeersWord) - Len(s))
  <2>1. /\ Len(s) <= Len(PeersWord)
        /\ \A n \in 1 .. Len(s) : s[n] = PeersWord[Len(PeersWord) - Len(s) + n]
    BY <1>1, <1>9, Suffixes
  <2>2. /\ i \in 0 .. Len(k) /\ i + Len(s) + 1 = BaseLen
        /\ i + Len(s) + 1 < Len(k)
    BY <1>1, <1>3, <2>1
  <2>3. ASSUME NEW n \in 1 .. Len(s) PROVE k[i + n] = s[n]
    <3> DEFINE m == Len(PeersWord) - Len(s) + n
    <3>1. m \in 1 .. Len(PeersWord) /\ i + n = 1 + m
      BY <1>1, <2>1
    <3>2. s[n] = PeersWord[m]
      BY <2>1
    <3> HIDE DEF m, i
    <3>3. QED
      BY <1>6, <3>1, <3>2
  <2> HIDE DEF i
  <2>4. QED
    BY <1>5, <1>7, <2>2, <2>3
<1>10. ASSUME MatchesServer(s, k) PROVE Matched(s, t)
  <2>1. PICK i \in 0 .. Len(k) :
               /\ i + Len(s) + 1 < Len(k)
               /\ k[i + Len(s) + 1] = Slash
               /\ \A n \in 1 .. Len(s) : k[i + n] = s[n]
    BY <1>5, <1>10
  <2>2. i \in Nat /\ i + Len(s) + 1 \in 1 .. Len(k)
    BY <1>1, <1>3, <2>1
  <2>3. i + Len(s) + 1 # 1
    BY <1>1, <2>2
  <2>4. CASE i + Len(s) + 1 = BaseLen
    <3>1. i # 0
      <4> SUFFICES ASSUME i = 0 PROVE FALSE
        OBVIOUS
      <4>1. 1 \in 1 .. Len(s) /\ i + 1 = 1
        BY <1>1
      <4>2. k[1] = s[1]
        BY <2>1, <4>1
      <4>3. QED
        BY <1>1, <1>7, <4>1, <4>2
    <3>2. Len(s) <= Len(PeersWord) /\ i = 1 + (Len(PeersWord) - Len(s))
      BY <1>1, <2>2, <2>4, <3>1
    <3>3. ASSUME NEW n \in 1 .. Len(s)
          PROVE  s[n] = PeersWord[Len(PeersWord) - Len(s) + n]
      <4> DEFINE m == Len(PeersWord) - Len(s) + n
      <4>1. m \in 1 .. Len(PeersWord) /\ i + n = 1 + m
        BY <1>1, <3>2
      <4>2. k[i + n] = s[n]
        BY <2>1
      <4> HIDE DEF m
      <4>3. s[n] = PeersWord[m]
        BY <1>6, <4>1, <4>2
      <4>4. QED
        BY <4>3 DEF m
    <3>4. QED
      BY <1>1, <3>2, <3>3, Suffixes DEF Matched
  <2>5. CASE i + Len(s) + 1 = BaseLen + Len(t) + 1
    <3>1. Len(s) <= Len(t)
      <4> SUFFICES ASSUME Len(t) < Len(s) PROVE FALSE
        BY <1>1
      <4>1. BaseLen - i \in 1 .. Len(s) /\ i + (BaseLen - i) = BaseLen
        BY <1>1, <2>2, <2>5
      <4>2. k[i + (BaseLen - i)] = s[BaseLen - i]
        BY <2>1, <4>1
      <4>3. s[BaseLen - i] = Slash
        BY <1>7, <4>1, <4>2
      <4>4. QED
        BY <1>1, <4>1, <4>3
    <3>2. i = BaseLen + (Len(t) - Len(s))
      BY <1>1, <2>2, <2>5
    <3>3. ASSUME NEW n \in 1 .. Len(s)
          PROVE  s[n] = t[Len(t) - Len(s) + n]
      <4> DEFINE m == Len(t) - Len(s) + n
      <4>1. m \in 1 .. Len(t) /\ i + n = BaseLen + m
        BY <1>1, <3>1, <3>2
      <4>2. k[i + n] = s[n]
        BY <2>1
      <4> HIDE DEF m
      <4>3. s[n] = t[m]
        BY <1>3, <4>1, <4>2
      <4>4. QED
        BY <4>3 DEF m
    <3>4. QED
      BY <1>1, <3>1, <3>3, Suffixes DEF Matched
  <2>6. QED
    BY <1>4, <2>1, <2>2, <2>3, <2>4, <2>5
<1>11. QED
  BY <1>8, <1>9, <1>10 DEF k, Matched

(* Where s ends, the next character of the longer name is set against the   *)
(* slash.                                                                   *)
LEMMA ShadowsComeFirst ==
  ASSUME NEW s \in Words, NEW t \in Words, NEW u \in Words, NEW v \in Words,
         Strings!IsStrictPrefix(s, t)
  PROVE  /\ t[Len(s) + 1] < Slash => Before(PeerKey(t, v), PeerKey(s, u))
         /\ ~(t[Len(s) + 1] < Slash) => Before(PeerKey(s, u), PeerKey(t, v))
<1> DEFINE k == PeerKey(s, u)
           j == PeerKey(t, v)
           n == BaseLen + Len(s) + 1
<1>1. /\ s \in Str /\ t \in Str /\ BaseLen \in Nat
      /\ Len(s) \in Nat /\ Len(t) \in Nat /\ Len(u) \in Nat /\ Len(v) \in Nat
      /\ \A m \in 1 .. Len(t) : t[m] \in Nat /\ t[m] # Slash
  BY WordType, BaseParts
<1>2. Len(s) < Len(t) /\ \A m \in 1 .. Len(s) : s[m] = t[m]
  BY <1>1, StrictPrefixes
<1>3. /\ k \in Str /\ Len(k) = BaseLen + Len(s) + 1 + Len(u)
      /\ \A m \in 1 .. BaseLen : k[m] = (PeerPrefix \o <<Slash>>)[m]
      /\ \A m \in 1 .. Len(s) : k[BaseLen + m] = s[m]
      /\ k[n] = Slash
  BY PeerKeyParts
<1>4. /\ j \in Str /\ Len(j) = BaseLen + Len(t) + 1 + Len(v)
      /\ \A m \in 1 .. BaseLen : j[m] = (PeerPrefix \o <<Slash>>)[m]
      /\ \A m \in 1 .. Len(t) : j[BaseLen + m] = t[m]
  BY PeerKeyParts
<1> HIDE DEF k, j
<1>5. n \in 1 .. Len(k) /\ n \in 1 .. Len(j) /\ n <= Len(k) /\ n <= Len(j)
  BY <1>1, <1>2, <1>3, <1>4
<1>6. j[n] = t[Len(s) + 1]
  <2>1. Len(s) + 1 \in 1 .. Len(t) /\ BaseLen + (Len(s) + 1) = n
    BY <1>1, <1>2
  <2>2. QED
    BY <1>4, <2>1
<1>7. ASSUME NEW m \in 1 .. n - 1
      PROVE  k[m] = j[m]
  <2>1. CASE m <= BaseLen
    <3>1. m \in 1 .. BaseLen
      BY <1>1, <2>1
    <3>2. QED
      BY <1>3, <1>4, <3>1
  <2>2. CASE BaseLen < m
    <3> DEFINE l == m - BaseLen
    <3>1. l \in 1 .. Len(s) /\ l \in 1 .. Len(t) /\ BaseLen + l = m
      BY <1>1, <1>2, <2>2
    <3> HIDE DEF l
    <3>2. QED
      BY <1>2, <1>3, <1>4, <3>1
  <2>3. QED
    BY <1>1, <2>1, <2>2
<1>8. \A m \in 1 .. n - 1 : j[m] = k[m]
  BY <1>7
<1>9. t[Len(s) + 1] \in Nat /\ Slash \in Nat /\ t[Len(s) + 1] # Slash
  BY <1>1, <1>2, KeySearchAssumption
<1> HIDE DEF n
<1>10. ASSUME t[Len(s) + 1] < Slash PROVE Before(j, k)
  BY <1>3, <1>4, <1>5, <1>6, <1>8, <1>10, Order
<1>11. ASSUME ~(t[Len(s) + 1] < Slash) PROVE Before(k, j)
  <2>1. k[n] < j[n]
    BY <1>3, <1>6, <1>9, <1>11 DEF n
  <2>2. QED
    BY <1>3, <1>4, <1>5, <1>7, <2>1, Order
<1>12. QED
  BY <1>10, <1>11 DEF k, j

-----------------------------------------------------------------------------
(* What a cursor finds among stored keys.                                   *)

KeysOK == keys \subseteq AllPeers \cup AllServers

LEMMA StoredKeys == KeysSpec => []KeysOK
<1>1. KeysInit => KeysOK
  BY DEF KeysInit, KeysOK
<1>2. KeysOK /\ [KeysNext]_keys => KeysOK'
  BY DEF KeysOK, KeysNext, SetKey, DelKey, AllPeers, AllServers, PeersOf
<1>3. QED
  BY <1>1, <1>2, PTL DEF KeysSpec

LEMMA KeyParts ==
  ASSUME KeysOK, NEW k \in keys
  PROVE  /\ k \in Str
         /\ \/ \E t \in Names, u \in Users : k = PeerKey(t, u) /\ k \in AllPeers
            \/ \E t \in Names : k = ServerKey(t) /\ k \in AllServers
<1>1. CASE k \in AllPeers
  <2>1. PICK t \in Names, u \in Users : k = PeerKey(t, u)
    BY <1>1 DEF AllPeers, PeersOf
  <2>2. t \in Words /\ u \in Words
    BY DEF Words
  <2>3. QED
    BY <1>1, <2>1, <2>2, PeerKeyParts
<1>2. CASE k \in AllServers
  <2>1. PICK t \in Names : k = ServerKey(t)
    BY <1>2 DEF AllServers
  <2>2. t \in Words
    BY DEF Words
  <2>3. QED
    BY <1>2, <2>1, <2>2, ServerKeyParts
<1>3. QED
  BY <1>1, <1>2 DEF KeysOK

(* Keys with the prefix are next to each other, and the cursor starts at    *)
(* the first of them: it finds k if all that it passes match.               *)
LEMMA Found ==
  ASSUME KeysOK, NEW prefix \in Str, NEW matches, NEW k \in keys
  PROVE  k \in Search(prefix, matches) <=>
           /\ Strings!IsPrefix(prefix, k) /\ k \in matches
           /\ \A j \in keys :
                Strings!IsPrefix(prefix, j) /\ ~Before(k, j) => j \in matches
<1> DEFINE from == {j \in keys : ~Before(j, prefix)}
           seen == {j \in from : ~Before(k, j)}
<1>1. k \in Str /\ \A j \in keys : j \in Str
  BY KeyParts
<1>2. k \in Search(prefix, matches) <=>
        k \in from /\ \A j \in seen : Strings!IsPrefix(prefix, j) /\ j \in matches
  BY DEF Search
<1>3. ~Before(k, k)
  BY <1>1, OrderIsStrict
<1>4. \A j \in keys : Strings!IsPrefix(prefix, j) => j \in from
  BY <1>1, PrefixBefore
<1>5. ASSUME Strings!IsPrefix(prefix, k), NEW j \in seen
      PROVE  Strings!IsPrefix(prefix, j)
  BY <1>1, <1>5, PrefixFirst
<1>6. QED
  BY <1>2, <1>3, <1>4, <1>5

(* Without an expression: all keys with the prefix.                         *)
LEMMA ListingOfKind ==
  ASSUME KeysOK
  PROVE  ListsAreComplete
<1>1. PeerPrefix \in Str
  BY PeerPrefixParts
<1>2. PeersWord \in Words /\ Names \subseteq Words /\ Users \subseteq Words
  BY DEF Words
<1>3. ServerPrefix \in Str
  BY <1>2, ServerKeyParts
<1>4. ASSUME NEW prefix \in Str
      PROVE  List(prefix) = {k \in keys : Strings!IsPrefix(prefix, k)}
  <2>1. List(prefix) \subseteq keys
    BY DEF List, Search
  <2>2. \A k \in keys : k \in List(prefix) <=> Strings!IsPrefix(prefix, k)
    BY <1>4, Found DEF List
  <2>3. QED
    BY <2>1, <2>2
<1>5. ASSUME NEW k \in keys
      PROVE  /\ Strings!IsPrefix(PeerPrefix, k) <=> k \in AllPeers
             /\ Strings!IsPrefix(ServerPrefix, k) <=> k \in AllServers
  <2>1. CASE k \in AllPeers
    <3>1. PICK t \in Names, u \in Users : k = PeerKey(t, u)
      BY <2>1 DEF AllPeers, PeersOf
    <3>2. Strings!IsPrefix(PeerPrefix, k) /\ ~Strings!IsPrefix(ServerPrefix, k)
      BY <1>2, <3>1, KindsDiffer
    <3>3. k \notin AllServers
      <4> SUFFICES ASSUME NEW r \in Names, k = ServerKey(r) PROVE FALSE
        BY DEF AllServers
      <4>1. QED
        BY <1>2, <3>2, ServerKeyParts
    <3>4. QED
      BY <2>1, <3>2, <3>3
  <2>2. CASE k \in AllServers
    <3>1. PICK t \in Names : k = ServerKey(t)
      BY <2>2 DEF AllServers
    <3>2. ~Strings!IsPrefix(PeerPrefix, k) /\ Strings!IsPrefix(ServerPrefix, k)
      BY <1>2, <3>1, KindsDiffer, ServerKeyParts
    <3>3. k \notin AllPeers
      <4> SUFFICES ASSUME NEW r \in Names, NEW u \in Users, k = PeerKey(r, u) PROVE FALSE
        BY DEF AllPeers, PeersOf
      <4>1. QED
        BY <1>2, <3>2, KindsDiffer
    <3>4. QED
      BY <2>2, <3>2, <3>3
  <2>3. QED
    BY <2>1, <2>2 DEF KeysOK
<1>6. QED
  BY <1>1, <1>3, <1>4, <1>5 DEF ListsAreComplete

(* With the expression, where the keys of servers drop out.                 *)
LEMMA InListing ==
  ASSUME KeysOK, NEW s \in Names, NEW k \in keys
  PROVE  k \in ListByServer(s) <=>
           \E t \in Names, u \in Users :
             /\ k = PeerKey(t, u) /\ k \in PeersOf(t)
             /\ Strings!IsPrefix(s, t) /\ Matched(s, t)
             /\ \A r \in Names, v \in Users :
                  LET j == PeerKey(r, v)
                  IN j \in keys /\ Strings!IsPrefix(s, r) /\ ~Before(k, j) => Matched(s, r)
<1> DEFINE matches == {j \in keys : MatchesServer(s, j)}
<1>1. Names \subseteq Words /\ Users \subseteq Words /\ s \in Words
  BY DEF Words
<1>2. PrefixOf(s) \in Str
  BY <1>1, PrefixParts
<1>3. ListByServer(s) = Search(PrefixOf(s), matches)
  BY DEF ListByServer, PrefixOf
<1>4. k \in ListByServer(s) <=>
        /\ Strings!IsPrefix(PrefixOf(s), k) /\ MatchesServer(s, k)
        /\ \A j \in keys :
             Strings!IsPrefix(PrefixOf(s), j) /\ ~Before(k, j) => MatchesServer(s, j)
  <2>1. \A j \in keys : j \in matches <=> MatchesServer(s, j)
    OBVIOUS
  <2> HIDE DEF matches
  <2>2. k \in Search(PrefixOf(s), matches) <=>
          /\ Strings!IsPrefix(PrefixOf(s), k) /\ k \in matches
          /\ \A j \in keys :
               Strings!IsPrefix(PrefixOf(s), j) /\ ~Before(k, j) => j \in matches
    BY <1>2, Found
  <2>3. QED
    BY <1>3, <2>1, <2>2
<1>5. \A t \in Names, u \in Users :
        /\ Strings!IsPrefix(PrefixOf(s), PeerKey(t, u)) <=> Strings!IsPrefix(s, t)
        /\ MatchesServer(s, PeerKey(t, u)) <=> Matched(s, t)
  BY <1>1, PrefixOfPeer, MatchingPeer
<1>6. \A t \in Names : ~Strings!IsPrefix(PrefixOf(s), ServerKey(t))
  BY <1>1, KindsDiffer
<1>7. \A j \in keys : Strings!IsPrefix(PrefixOf(s), j) =>
        \E t \in Names, u \in Users : j = PeerKey(t, u)
  BY <1>6, KeyParts
<1>8. \A t \in Names, u \in Users : PeerKey(t, u) \in PeersOf(t)
  BY DEF PeersOf
<1>9. ASSUME k \in ListByServer(s)
      PROVE  \E t \in Names, u \in Users :
               /\ k = PeerKey(t, u) /\ k \in PeersOf(t)
               /\ Strings!IsPrefix(s, t) /\ Matched(s, t)
               /\ \A r \in Names, v \in Users :
                    LET j == PeerKey(r, v)
                    IN j \in keys /\ Strings!IsPrefix(s, r) /\ ~Before(k, j) => Matched(s, r)
  <2>1. PICK t \in Names, u \in Users : k = PeerKey(t, u)
    BY <1>4, <1>7, <1>9
  <2>2. Strings!IsPrefix(s, t) /\ Matched(s, t)
    BY <1>4, <1>5, <1>9, <2>1
  <2>3. ASSUME NEW r \in Names, NEW v \in Users, PeerKey(r, v) \in keys,
               Strings!IsPrefix(s, r), ~Before(k, PeerKey(r, v))
        PROVE  Matched(s, r)
    BY <1>4, <1>5, <1>9, <2>3
  <2>4. QED
    BY <1>8, <2>1, <2>2, <2>3
<1>10. ASSUME NEW t \in Names, NEW u \in Users, k = PeerKey(t, u),
              Strings!IsPrefix(s, t), Matched(s, t),
              \A r \in Names, v \in Users :
                LET j == PeerKey(r, v)
                IN j \in keys /\ Strings!IsPrefix(s, r) /\ ~Before(k, j) => Matched(s, r)
       PROVE  k \in ListByServer(s)
  <2>1. Strings!IsPrefix(PrefixOf(s), k) /\ MatchesServer(s, k)
    BY <1>5, <1>10
  <2>2. ASSUME NEW j \in keys, Strings!IsPrefix(PrefixOf(s), j), ~Before(k, j)
        PROVE  MatchesServer(s, j)
    <3>1. PICK r \in Names, v \in Users : j = PeerKey(r, v)
      BY <1>7, <2>2
    <3>2. Strings!IsPrefix(s, r)
      BY <1>5, <2>2, <3>1
    <3>3. Matched(s, r)
      BY <1>10, <2>2, <3>1, <3>2
    <3>4. QED
      BY <1>5, <3>1, <3>3
  <2>3. QED
    BY <1>4, <2>1, <2>2
<1>11. QED
  BY <1>9, <1>10

LEMMA NamesOfServers ==
  ASSUME NEW s \in Names, NEW t \in Names
  PROVE  /\ Strings!IsPrefix(s, s) /\ Matched(s, s)
         /\ Strings!IsStrictPrefix(s, t) <=> Strings!IsPrefix(s, t) /\ s # t
<1>1. s \in Str /\ t \in Str /\ Len(s) \in Nat
  BY WordType DEF Words
<1>2. Strings!IsPrefix(s, s)
  BY <1>1, Prefixes
<1>3. Strings!IsSuffix(s, s)
  <2>1. \A n \in 1 .. Len(s) : s[n] = s[Len(s) - Len(s) + n]
    BY <1>1
  <2>2. QED
    BY <1>1, <2>1, Suffixes
<1>4. QED
  BY <1>2, <1>3 DEF Matched, Strings!IsStrictPrefix

(* A peer of s is found unless a server that shadows s has a peer.          *)
LEMMA OwnListed ==
  ASSUME KeysOK, NEW s \in Names, NEW k \in keys \cap PeersOf(s)
  PROVE  k \in ListByServer(s) <=> \A t \in Shadows(s) : ~HasPeers(t)
<1>1. PICK u \in Users : k = PeerKey(s, u)
  BY DEF PeersOf
<1>2. Names \subseteq Words /\ Users \subseteq Words
  BY DEF Words
<1>3. ASSUME k \in ListByServer(s), NEW t \in Shadows(s), HasPeers(t)
      PROVE  FALSE
  <2>1. PICK v \in Users : PeerKey(t, v) \in keys
    BY <1>3 DEF HasPeers, PeersOf
  <2>2. /\ t \in Names /\ Strings!IsStrictPrefix(s, t)
        /\ t[Len(s) + 1] < Slash /\ ~Matched(s, t)
    BY <1>3 DEF Shadows
  <2>3. Before(PeerKey(t, v), k)
    BY <1>1, <1>2, <2>2, ShadowsComeFirst
  <2>4. PeerKey(t, v) \in Str /\ k \in Str
    BY <2>1, KeyParts
  <2>5. ~Before(k, PeerKey(t, v))
    BY <2>3, <2>4, OrderIsStrict
  <2>6. Strings!IsPrefix(s, t)
    BY <2>2, NamesOfServers
  <2>7. QED
    BY <1>3, <2>1, <2>2, <2>5, <2>6, InListing
<1>4. ASSUME \A t \in Shadows(s) : ~HasPeers(t)
      PROVE  k \in ListByServer(s)
  <2>1. ASSUME NEW r \in Names, NEW v \in Users, PeerKey(r, v) \in keys,
               Strings!IsPrefix(s, r), ~Before(k, PeerKey(r, v))
        PROVE  Matched(s, r)
    <3> SUFFICES ASSUME ~Matched(s, r) PROVE FALSE
      OBVIOUS
    <3>1. Strings!IsStrictPrefix(s, r)
      BY <2>1, NamesOfServers
    <3>2. r[Len(s) + 1] < Slash
      BY <1>1, <1>2, <2>1, <3>1, ShadowsComeFirst
    <3>3. r \in Shadows(s) /\ HasPeers(r)
      BY <2>1, <3>1, <3>2 DEF Shadows, HasPeers, PeersOf
    <3>4. QED
      BY <1>4, <3>3
  <2>2. Strings!IsPrefix(s, s) /\ Matched(s, s)
    BY NamesOfServers
  <2>3. QED
    BY <1>1, <2>1, <2>2, InListing
<1>5. QED
  BY <1>3, <1>4

LEMMA ListingOfServer ==
  ASSUME KeysOK
  PROVE  HiddenOrExact /\ AllOrNone
<1>1. ASSUME NEW s \in Names
      PROVE  LET own == keys \cap PeersOf(s)
             IN ListByServer(s) \cap own \in {own, {}}
  BY <1>1, OwnListed
<1>2. ASSUME NEW s \in Names, \A t \in Echoes(s) : ~HasPeers(t)
      PROVE  ListByServer(s) =
               IF \E t \in Shadows(s) : HasPeers(t) THEN {} ELSE keys \cap PeersOf(s)
  <2>1. ListByServer(s) \subseteq keys
    BY DEF ListByServer, Search
  <2>2. ASSUME NEW k \in ListByServer(s)
        PROVE  k \in PeersOf(s)
    <3>1. PICK t \in Names, u \in Users :
                 k \in PeersOf(t) /\ Strings!IsPrefix(s, t) /\ Matched(s, t)
      BY <2>1, <2>2, InListing
    <3>2. CASE s # t
      <4>1. Strings!IsStrictPrefix(s, t)
        BY <3>1, <3>2, NamesOfServers
      <4>2. t \in Echoes(s) /\ HasPeers(t)
        BY <2>1, <2>2, <3>1, <4>1 DEF Echoes, HasPeers
      <4>3. QED
        BY <1>2, <4>2
    <3>3. QED
      BY <3>1, <3>2
  <2>3. QED
    BY <1>2, <2>1, <2>2, OwnListed
<1>3. QED
  BY <1>1, <1>2 DEF HiddenOrExact, AllOrNone

(* The listings of all peers and of all servers, which pkg/store/client     *)
(* takes with a prefix alone, return every stored object of the kind.       *)
THEOREM ListsComplete == KeysSpec => []ListsAreComplete
<1>1. QED
  BY StoredKeys, ListingOfKind, PTL

(* ListByServer returns the peers of a server exactly, or nothing at all    *)
(* when a server whose name goes on with a character before the slash has a *)
(* peer: for all names, and however many keys are stored.  This is what     *)
(* Registry takes from its constant Shadows.                                *)
THEOREM HiddenExactly == KeysSpec => []HiddenOrExact
<1>1. QED
  BY StoredKeys, ListingOfServer, PTL

(* Also with the peers of an echo in the listing, the peers of the server   *)
(* are in it all or not at all.                                             *)
THEOREM ListingAllOrNone == KeysSpec => []AllOrNone
<1>1. QED
  BY StoredKeys, ListingOfServer, PTL
===============================================================================
