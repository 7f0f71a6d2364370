------------------------------ MODULE ServerKeys ------------------------------
(***************************************************************************)
(* The key pair of a server, and who can use it.                            *)
(*                                                                          *)
(* "server init" draws the pair and stores the private half encrypted with  *)
(* a cipher key, which it was given, or draws too and prints once the       *)
(* upload has succeeded.  Client configs carry the public half.             *)
(*                                                                          *)
(* One server and one peer.  Pairs and drawn cipher keys are numbered; an   *)
(* encrypted key opens with its cipher key and no other.                    *)
(***************************************************************************)
EXTENDS Naturals

CONSTANTS
  Commands,         \* slots for commands and requests, each with a copy
  GivenKeys,        \* values of --cipher-key and CIPHER_KEY
  NoServer, NoPair,
  MaxDrawn          \* bound: random values drawn

Pair == 1 .. MaxDrawn
CipherKey == GivenKeys \cup 1 .. MaxDrawn
Server == [pair : Pair, cipher : CipherKey]

ASSUME ServerKeysAssumption ==
  /\ MaxDrawn \in Nat
  /\ NoServer \notin Server /\ NoPair \notin Pair

VARIABLES
  remote,      \* the server in the bucket
  pc, copy,    \* where each command is, and the server in its copy
  prints,      \* what it shows when its upload succeeds: a cipher key it drew,
  answers,     \* the pair of a client config it made
  drawn,       \* random values drawn so far
  told,        \* cipher keys that the administrators know
  unreported,  \* history: cipher keys whose command failed after the upload
  config       \* the pair in the config of the peer

pairVars == <<remote, pc, copy, prints, answers, drawn, told, unreported, config>>

PairInit ==
  /\ remote = NoServer
  /\ pc = [a \in Commands |-> "idle"]
  /\ copy = [a \in Commands |-> NoServer]
  /\ prints = [a \in Commands |-> {}]
  /\ answers = [a \in Commands |-> NoPair]
  /\ drawn = 0
  /\ told = GivenKeys
  /\ unreported = {}
  /\ config = NoPair

-----------------------------------------------------------------------------
Fetch(a) ==
  /\ pc[a] = "idle"
  /\ pc' = [pc EXCEPT ![a] = "open"]
  /\ copy' = [copy EXCEPT ![a] = remote]
  /\ UNCHANGED <<remote, prints, answers, drawn, told, unreported, config>>

Edit(a, server, printed, answered) ==
  /\ pc[a] = "open"
  /\ pc' = [pc EXCEPT ![a] = "edited"]
  /\ copy' = [copy EXCEPT ![a] = server]
  /\ prints' = [prints EXCEPT ![a] = printed]
  /\ answers' = [answers EXCEPT ![a] = answered]
  /\ UNCHANGED <<remote, told, unreported, config>>

(* With --override if there is a server.                                    *)
InitGivenKey(a) ==
  /\ drawn < MaxDrawn
  /\ drawn' = drawn + 1
  /\ \E k \in GivenKeys : Edit(a, [pair |-> drawn + 1, cipher |-> k], {}, NoPair)

(* Slip: a server that is overridden gets a new key, which is not shown.    *)
InitRandomKeySilent(a) ==
  /\ drawn + 1 < MaxDrawn
  /\ drawn' = drawn + 2
  /\ Edit(a, [pair |-> drawn + 1, cipher |-> drawn + 2],
          IF copy[a] = NoServer THEN {drawn + 2} ELSE {}, NoPair)

(* NewAESCipherKey of an empty string draws one.                            *)
InitRandomKey(a) ==
  /\ drawn + 1 < MaxDrawn
  /\ drawn' = drawn + 2
  /\ Edit(a, [pair |-> drawn + 1, cipher |-> drawn + 2], {drawn + 2}, NoPair)

DeleteServer(a) == Edit(a, NoServer, {}, NoPair) /\ UNCHANGED drawn

(* GET /peers/<link>.                                                       *)
MakeConfig(a) ==
  /\ copy[a] # NoServer
  /\ Edit(a, copy[a], {}, copy[a].pair)
  /\ UNCHANGED drawn

(* Any other command stores the server as it has read it.                   *)
LeaveServer(a) == Edit(a, copy[a], {}, NoPair) /\ UNCHANGED drawn

ToIdle(a) ==
  /\ pc' = [pc EXCEPT ![a] = "idle"]
  /\ copy' = [copy EXCEPT ![a] = NoServer]
  /\ prints' = [prints EXCEPT ![a] = {}]
  /\ answers' = [answers EXCEPT ![a] = NoPair]

(* Slip: a request uploads its peer only and leaves the server as it is.    *)
UploadMerged(a) ==
  /\ pc[a] = "edited"
  /\ remote' = IF answers[a] = NoPair THEN copy[a] ELSE remote
  /\ told' = told \cup prints[a]
  /\ config' = IF answers[a] = NoPair THEN config ELSE answers[a]
  /\ ToIdle(a)
  /\ UNCHANGED <<drawn, unreported>>

Upload(a) ==
  /\ pc[a] = "edited"
  /\ remote' = copy[a]
  /\ told' = told \cup prints[a]
  /\ config' = IF answers[a] = NoPair THEN config ELSE answers[a]
  /\ ToIdle(a)
  /\ UNCHANGED <<drawn, unreported>>

(* An error is reported, or the command dies, after the object is replaced. *)
UploadUnacknowledged(a) ==
  /\ pc[a] = "edited"
  /\ remote' = copy[a]
  /\ unreported' = unreported \cup prints[a]
  /\ ToIdle(a)
  /\ UNCHANGED <<drawn, told, config>>

Abandon(a) ==
  /\ pc[a] # "idle"
  /\ ToIdle(a)
  /\ UNCHANGED <<remote, drawn, told, unreported, config>>

Command(a) ==
  \/ Fetch(a) \/ InitGivenKey(a) \/ InitRandomKey(a) \/ DeleteServer(a)
  \/ MakeConfig(a) \/ LeaveServer(a)
  \/ Upload(a) \/ UploadUnacknowledged(a) \/ Abandon(a)

PairNext == \E a \in Commands : Command(a)

PairSpec == PairInit /\ [][PairNext]_pairVars
-----------------------------------------------------------------------------
(* Stale uploads may bring back any server there was.  Still the private    *)
(* key in the bucket can be opened by somebody, unless the very command     *)
(* that drew the cipher key reported a failure.                             *)
KeyIsKnown == remote # NoServer => remote.cipher \in told \cup unreported

(* A config is answered only when the bucket has the pair it was made for:  *)
(* a request that downloaded before "server init --override" brings the old *)
(* server back rather than hand out a config that cannot connect.  Those it *)
(* has handed out before an override stop working, and nobody is told.      *)
ConfigFitsServer ==
  [][config' # config => remote' # NoServer /\ remote'.pair = config']_pairVars
=============================================================================
