------------------------------ MODULE KeySearch ------------------------------
(***************************************************************************)
(* The lookups of the registry (pkg/store, pkg/store/client): a cursor over *)
(* keys in the order of their bytes, which starts at a prefix and stops at  *)
(* the first key without the prefix or without a match of an expression.    *)
(*                                                                          *)
(* A key is a sequence of characters, and a character a number.  The module *)
(* derives what Registry takes as its constant Shadows.                     *)
(***************************************************************************)
EXTENDS Integers, FiniteSets, Sequences

CONSTANTS
  Slash,                    \* the character between the parts of a key
  PeersWord, ServersWord,   \* "peers" and "wgsconfig"
  Names,                    \* names of servers
  Users,                    \* names of peers
  MaxKeys                   \* bound: keys stored at a time

Words == {PeersWord, ServersWord} \cup Names \cup Users

ASSUME KeySearchAssumption ==
  /\ Slash \in Nat
  /\ Words \subseteq Seq(Nat) \ {<<>>}
  /\ \A w \in Words : \A i \in 1 .. Len(w) : w[i] # Slash
  /\ PeersWord[1] # ServersWord[1]
  /\ MaxKeys \in Nat

VARIABLE keys   \* the keys of the bucket

Strings == INSTANCE SequencesExt

PeerPrefix == <<Slash>> \o PeersWord
ServerPrefix == <<Slash>> \o ServersWord

(* path.Join.                                                               *)
PeerKey(server, user) == PeerPrefix \o <<Slash>> \o server \o <<Slash>> \o user
ServerKey(server) == ServerPrefix \o <<Slash>> \o server

PeersOf(server) == {PeerKey(server, u) : u \in Users}
AllPeers == UNION {PeersOf(s) : s \in Names}
AllServers == {ServerKey(s) : s \in Names}

KeysInit == keys = {}

SetKey(k) ==
  /\ Cardinality(keys \cup {k}) <= MaxKeys
  /\ keys' = keys \cup {k}

DelKey(k) == keys' = keys \ {k}

KeysNext ==
  (\E k \in AllPeers \cup AllServers : SetKey(k)) \/ \E k \in AllServers : DelKey(k)

KeysSpec == KeysInit /\ [][KeysNext]_keys

-----------------------------------------------------------------------------
(* bytes.Compare.                                                           *)
Before(x, y) ==
  \/ Strings!IsStrictPrefix(x, y)
  \/ \E i \in 1 .. Len(x) :
       /\ i <= Len(y) /\ x[i] < y[i]
       /\ \A j \in 1 .. i - 1 : x[j] = y[j]

(* Slip: the expression is "<server>/.$".                                   *)
MatchesServerOne(server, k) ==
  \E i \in 0 .. Len(k) :
    LET rest == SubSeq(k, i + 1, Len(k))
    IN Strings!IsPrefix(server \o <<Slash>>, rest) /\ Len(rest) = Len(server) + 2

(* The expression "<server>/.+" is not anchored.                            *)
MatchesServer(server, k) ==
  \E i \in 0 .. Len(k) : Strings!IsStrictPrefix(server \o <<Slash>>, SubSeq(k, i + 1, Len(k)))

(* Seek goes to the first key that is not before the prefix; a key is seen  *)
(* if it and every key on the way have the prefix and are among the matches *)
(* of the expression.                                                       *)
Search(prefix, matches) ==
  LET from == {k \in keys : ~Before(k, prefix)}
      seen(k) == {j \in from : ~Before(k, j)}
  IN {k \in from : \A j \in seen(k) : Strings!IsPrefix(prefix, j) /\ j \in matches}

(* Slip: the cursor is moved on before the loop.                            *)
ListSecond(prefix) ==
  {k \in Search(prefix, keys) : \E j \in Search(prefix, keys) : Before(j, k)}

List(prefix) == Search(prefix, keys)

(* Slip: the cursor goes on after a key that does not match.                *)
ListByServerSkips(server) ==
  {k \in keys : Strings!IsPrefix(PeerPrefix \o <<Slash>> \o server, k) /\ MatchesServer(server, k)}

ListByServer(server) ==
  Search(PeerPrefix \o <<Slash>> \o server, {k \in keys : MatchesServer(server, k)})

-----------------------------------------------------------------------------
(* "List all the peer objects", "List all wireguard server config objects": *)
(* no key of either kind lies outside the range the cursor walks.           *)
ListsAreComplete ==
  /\ List(PeerPrefix) = keys \cap AllPeers
  /\ List(ServerPrefix) = keys \cap AllServers

HasPeers(server) == keys \cap PeersOf(server) # {}

(* The keys of t have the prefix of a listing of s, and what comes before   *)
(* the slash ends in s: be it the name, or the word "peers".                *)
Matched(s, t) == Strings!IsSuffix(s, t) \/ Strings!IsSuffix(s, PeersWord)

(* Servers whose keys come before those of s and do not match: names that   *)
(* go on from s with a character before the slash.                          *)
Shadows(s) ==
  {t \in Names : Strings!IsStrictPrefix(s, t) /\ t[Len(s) + 1] < Slash /\ ~Matched(s, t)}

(* Servers whose names begin with s, and whose keys match too.              *)
Echoes(s) == {t \in Names : Strings!IsStrictPrefix(s, t) /\ Matched(s, t)}

(* "ListByServer all the peer objects from a given server": not if there is *)
(* a shadowing server, one key of which hides all peers of s.  Nothing else *)
(* hides any, which Registry assumes.  It leaves echoes out.                *)
HiddenOrExact ==
  \A s \in Names : (\A t \in Echoes(s) : ~HasPeers(t)) =>
    ListByServer(s) =
      IF \E t \in Shadows(s) : HasPeers(t) THEN {} ELSE keys \cap PeersOf(s)

(* With echoes as well, a listing has all peers of s or none of them.       *)
AllOrNone ==
  \A s \in Names :
    LET own == keys \cap PeersOf(s)
    IN ListByServer(s) \cap own \in {own, {}}
=============================================================================
