--------------------------- MODULE ServerKeysProofs ---------------------------
(* Whoever overlaps with whom: the private key in the bucket can be opened, *)
(* and a config is made for it.                                             *)
EXTENDS ServerKeys, TLAPS

-----------------------------------------------------------------------------
(* The inductive invariant.                                                 *)

TypeInv ==
  /\ remote \in Server \cup {NoServer}
  /\ pc \in [Commands -> {"idle", "open", "edited"}]
  /\ copy \in [Commands -> Server \cup {NoServer}]
  /\ prints \in [Commands -> SUBSET CipherKey]
  /\ answers \in [Commands -> Pair \cup {NoPair}]
  /\ drawn \in 0 .. MaxDrawn
  /\ told \subseteq CipherKey /\ unreported \subseteq CipherKey
  /\ config \in Pair \cup {NoPair}

Known == told \cup unreported

(* What a command has read can be opened, and so can what it is to upload,  *)
(* by whoever reads what it prints: the object may hold it again, in        *)
(* whatever order the uploads arrive.                                       *)
CopyIsKnown(a) ==
  /\ pc[a] = "open" /\ copy[a] # NoServer => copy[a].cipher \in Known
  /\ pc[a] = "edited" /\ copy[a] # NoServer => copy[a].cipher \in Known \cup prints[a]

(* A config is made for the server in the copy that is uploaded before it.  *)
AnswerFitsCopy(a) ==
  pc[a] = "edited" /\ answers[a] # NoPair =>
    copy[a] # NoServer /\ copy[a].pair = answers[a]

IInv ==
  /\ TypeInv
  /\ GivenKeys \subseteq told
  /\ KeyIsKnown
  /\ \A a \in Commands : CopyIsKnown(a) /\ AnswerFitsCopy(a)

-----------------------------------------------------------------------------
LEMMA InitInv == PairInit => IInv
BY ServerKeysAssumption
   DEF PairInit, IInv, TypeInv, CipherKey, KeyIsKnown, CopyIsKnown, AnswerFitsCopy

(* Every edit is of the same kind: the new server can be opened with a key  *)
(* that is known or that the command prints, and an answer fits it.         *)
LEMMA EditInv ==
  ASSUME IInv, NEW a \in Commands,
         NEW server \in Server \cup {NoServer}, NEW printed \in SUBSET CipherKey,
         NEW answered \in Pair \cup {NoPair},
         Edit(a, server, printed, answered), drawn' \in 0 .. MaxDrawn,
         server # NoServer => server.cipher \in Known \cup printed,
         answered # NoPair => server # NoServer /\ server.pair = answered
  PROVE  IInv'
<1>1. /\ pc'[a] = "edited" /\ copy'[a] = server
      /\ prints'[a] = printed /\ answers'[a] = answered
      /\ UNCHANGED <<remote, told, unreported, config>>
  BY DEF Edit, IInv, TypeInv
<1>2. TypeInv'
  BY DEF Edit, IInv, TypeInv
<1>3. ASSUME NEW b \in Commands, b # a
      PROVE  /\ pc'[b] = pc[b] /\ copy'[b] = copy[b]
             /\ prints'[b] = prints[b] /\ answers'[b] = answers[b]
  BY <1>3 DEF Edit, IInv, TypeInv
<1>4. ASSUME NEW b \in Commands
      PROVE  CopyIsKnown(b)' /\ AnswerFitsCopy(b)'
  BY <1>1, <1>3 DEF IInv, CopyIsKnown, AnswerFitsCopy, Known
<1>5. QED
  BY <1>1, <1>2, <1>4 DEF IInv, KeyIsKnown

LEMMA CommandEdits ==
  ASSUME IInv, NEW a \in Commands,
         InitGivenKey(a) \/ InitRandomKey(a) \/ DeleteServer(a) \/ MakeConfig(a) \/ LeaveServer(a)
  PROVE  IInv'
<1>1. /\ drawn \in Nat /\ drawn <= MaxDrawn /\ MaxDrawn \in Nat
      /\ copy[a] \in Server \cup {NoServer}
  BY ServerKeysAssumption DEF IInv, TypeInv
<1>2. pc[a] = "open" /\ copy[a] # NoServer => copy[a].cipher \in Known
  BY DEF IInv, CopyIsKnown
<1>3. pc[a] = "open"
  BY DEF InitGivenKey, InitRandomKey, DeleteServer, MakeConfig, LeaveServer, Edit
<1>4. CASE InitGivenKey(a)
  <2>1. PICK k \in GivenKeys : Edit(a, [pair |-> drawn + 1, cipher |-> k], {}, NoPair)
    BY <1>4 DEF InitGivenKey
  <2>2. /\ drawn' \in 0 .. MaxDrawn
        /\ [pair |-> drawn + 1, cipher |-> k] \in Server
    BY <1>1, <1>4 DEF InitGivenKey, Server, Pair, CipherKey
  <2>3. k \in Known
    BY DEF IInv, Known
  <2>4. QED
    BY <2>1, <2>2, <2>3, EditInv
<1>5. CASE InitRandomKey(a)
  <2>1. /\ drawn' \in 0 .. MaxDrawn /\ drawn + 2 \in CipherKey
        /\ [pair |-> drawn + 1, cipher |-> drawn + 2] \in Server
    BY <1>1, <1>5 DEF InitRandomKey, Server, Pair, CipherKey
  <2>2. QED
    BY <1>5, <2>1, EditInv DEF InitRandomKey
<1>6. CASE DeleteServer(a)
  BY <1>6, EditInv DEF DeleteServer, IInv, TypeInv
<1>7. CASE MakeConfig(a)
  <2>1. copy[a].pair \in Pair
    BY <1>1, <1>7 DEF MakeConfig, Server
  <2>2. drawn' \in 0 .. MaxDrawn
    BY <1>7 DEF MakeConfig, IInv, TypeInv
  <2>3. QED
    BY <1>1, <1>2, <1>3, <1>7, <2>1, <2>2, EditInv DEF MakeConfig
<1>8. CASE LeaveServer(a)
  <2>1. drawn' \in 0 .. MaxDrawn
    BY <1>8 DEF LeaveServer, IInv, TypeInv
  <2>2. QED
    BY <1>1, <1>2, <1>3, <1>8, <2>1, EditInv DEF LeaveServer
<1>9. QED
  BY <1>4, <1>5, <1>6, <1>7, <1>8

LEMMA FetchInv ==
  ASSUME IInv, NEW a \in Commands, Fetch(a)
  PROVE  IInv'
<1>1. TypeInv'
  BY DEF Fetch, IInv, TypeInv
<1>2. ASSUME NEW b \in Commands
      PROVE  CopyIsKnown(b)' /\ AnswerFitsCopy(b)'
  BY DEF Fetch, IInv, TypeInv, KeyIsKnown, CopyIsKnown, AnswerFitsCopy, Known
<1>3. QED
  BY <1>1, <1>2 DEF Fetch, IInv, KeyIsKnown

(* What one command uploads, prints or gives up takes nothing from another: *)
(* known keys stay known.                                                   *)
LEMMA EndInv ==
  ASSUME IInv, NEW a \in Commands, Upload(a) \/ UploadUnacknowledged(a) \/ Abandon(a)
  PROVE  IInv'
<1>1. TypeInv'
  BY DEF Upload, UploadUnacknowledged, Abandon, ToIdle, IInv, TypeInv
<1>2. told \subseteq told' /\ Known \subseteq Known'
  BY DEF Upload, UploadUnacknowledged, Abandon, Known
<1>3. ToIdle(a)
  BY DEF Upload, UploadUnacknowledged, Abandon
<1>4. ASSUME NEW b \in Commands
      PROVE  CopyIsKnown(b)' /\ AnswerFitsCopy(b)'
  <2>1. CASE b = a
    <3>1. pc'[a] = "idle"
      BY <1>3 DEF ToIdle, IInv, TypeInv
    <3>2. QED
      BY <2>1, <3>1 DEF CopyIsKnown, AnswerFitsCopy
  <2>2. CASE b # a
    <3>1. /\ pc'[b] = pc[b] /\ copy'[b] = copy[b]
          /\ prints'[b] = prints[b] /\ answers'[b] = answers[b]
      BY <1>3, <2>2 DEF ToIdle, IInv, TypeInv
    <3>2. QED
      BY <1>2, <3>1 DEF IInv, CopyIsKnown, AnswerFitsCopy
  <2>3. QED
    BY <2>1, <2>2
<1>5. KeyIsKnown'
  <2>1. CASE Abandon(a)
    BY <2>1 DEF Abandon, IInv, KeyIsKnown
  <2>2. CASE Upload(a) \/ UploadUnacknowledged(a)
    <3>1. pc[a] = "edited" /\ remote' = copy[a] /\ Known' = Known \cup prints[a]
      BY <2>2 DEF Upload, UploadUnacknowledged, Known
    <3>2. QED
      BY <3>1 DEF IInv, CopyIsKnown, KeyIsKnown, Known
  <2>3. QED
    BY <2>1, <2>2
<1>6. QED
  BY <1>1, <1>2, <1>4, <1>5 DEF IInv

LEMMA NextInv ==
  ASSUME IInv, [PairNext]_pairVars
  PROVE  IInv'
<1>1. CASE \E a \in Commands : Command(a)
  BY <1>1, FetchInv, CommandEdits, EndInv DEF Command
<1>2. CASE UNCHANGED pairVars
  BY <1>2 DEF pairVars, IInv, TypeInv, KeyIsKnown, CopyIsKnown, AnswerFitsCopy, Known
<1>3. QED
  BY <1>1, <1>2 DEF PairNext

LEMMA Invariance == PairSpec => []IInv
<1>1. QED
  BY InitInv, NextInv, PTL DEF PairSpec

-----------------------------------------------------------------------------
(* The private key that the bucket holds opens with a cipher key that an    *)
(* administrator was given or shown, or whose command failed only after its *)
(* upload: "server init" prints what it drew, and a stale upload can only   *)
(* bring back a server that was once uploaded.                              *)
THEOREM KeyStaysKnown == PairSpec => []KeyIsKnown
<1>1. IInv => KeyIsKnown
  BY DEF IInv
<1>2. QED
  BY <1>1, Invariance, PTL

(* The config that a request answers with fits the server that the bucket   *)
(* holds from that upload on, also if the key pair was replaced while the   *)
(* request was handled.                                                     *)
THEOREM ConfigsFit == PairSpec => ConfigFitsServer
<1>1. ASSUME IInv, PairNext, config' # config
      PROVE  remote' # NoServer /\ remote'.pair = config'
  <2>1. PICK a \in Commands : Command(a)
    BY <1>1 DEF PairNext
  <2>2. Upload(a) /\ answers[a] # NoPair
    BY <1>1, <2>1
       DEF Command, Fetch, InitGivenKey, InitRandomKey, DeleteServer, MakeConfig, LeaveServer,
           Edit, Upload, UploadUnacknowledged, Abandon
  <2>3. remote' = copy[a] /\ config' = answers[a] /\ pc[a] = "edited"
    BY <2>2 DEF Upload
  <2>4. QED
    BY <1>1, <2>2, <2>3 DEF IInv, AnswerFitsCopy
<1>2. IInv /\ [PairNext]_pairVars =>
        [config' # config => remote' # NoServer /\ remote'.pair = config']_pairVars
  BY <1>1
<1>3. QED
  BY <1>2, Invariance, PTL DEF PairSpec, ConfigFitsServer
=============================================================================
