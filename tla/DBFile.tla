-------------------------------- MODULE DBFile --------------------------------
(***************************************************************************)
(* How a program opens, edits and uploads the registry through a local file *)
(* (pkg/store, pkg/store/client), when several do so on one machine.        *)
(*                                                                          *)
(* FetchFromGCS creates the file anew and only then bolt locks it: the file *)
(* of whoever holds the lock is truncated and rewritten under its mapping.  *)
(* SyncRemote gives the lock up and only then reads the file it uploads.    *)
(* FetchFromGCS also loses the error of a download that breaks off, and     *)
(* writes whatever had arrived.                                             *)
(*                                                                          *)
(* A slot is a place for one request of the web application, or one command *)
(* of the CLI, at a time; the slots of a host share its file.  Each works   *)
(* on the record of one user: the link to a config, and whether it is spent.*)
(***************************************************************************)
EXTENDS Naturals

CONSTANTS
  Users, Slots, Hosts,
  UserOf,                  \* UserOf[r]: the user whose record slot r works on
  Placements,              \* which slots are on which host
  LocalSlots,              \* slots that also run commands with --local
  Truncated, Corrupt,      \* a file of no bytes; one with pages missing or mixed up
  Free, Leaked,            \* nobody has the lock; a lost handle has it
  MaxLinks                 \* bound: links drawn

Record == [link : 0 .. MaxLinks, spent : BOOLEAN, local : BOOLEAN]
Database == [Users -> Record]
NoRecord == [link |-> 0, spent |-> TRUE, local |-> FALSE]
EmptyDB == [u \in Users |-> NoRecord]
Contents == Database \cup {Truncated, Corrupt}

ASSUME DBFileAssumption ==
  /\ UserOf \in [Slots -> Users] /\ Placements \subseteq [Slots -> Hosts]
  /\ LocalSlots \subseteq Slots
  /\ {Truncated, Corrupt} \cap Database = {} /\ Truncated # Corrupt
  /\ {Free, Leaked} \cap Slots = {} /\ Free # Leaked
  /\ MaxLinks \in Nat

VARIABLES
  HostOf,    \* the host of each slot; it does not change
  remote,    \* the object in the bucket
  file,      \* the database file of each host
  holder,    \* who has the lock on it
  replaced,  \* whether it was rewritten since the holder opened it
  pc,        \* where each slot is
  isRemote,  \* FALSE for a command with --local
  data,      \* what a slot has downloaded and not yet written
  record,    \* the user's record as the slot read it, then as it wrote it
  buys,      \* the slot is to answer with a config
  drawn,     \* links drawn so far
  sold       \* history: configs handed out for each link, counted up to 2

vars == <<remote, file, holder, replaced, pc, isRemote, data, record, buys, drawn, sold>>

Init ==
  /\ HostOf \in Placements
  /\ remote = EmptyDB
  /\ file = [h \in Hosts |-> Truncated]
  /\ holder = [h \in Hosts |-> Free]
  /\ replaced = [h \in Hosts |-> FALSE]
  /\ pc = [r \in Slots |-> "idle"]
  /\ isRemote = [r \in Slots |-> TRUE]
  /\ data = [r \in Slots |-> Truncated]
  /\ record = [r \in Slots |-> NoRecord]
  /\ buys = [r \in Slots |-> FALSE]
  /\ drawn = 0
  /\ sold = [u \in Users |-> [l \in 0 .. MaxLinks |-> 0]]

ThisFile(r) == file[HostOf[r]]

Goto(r, from, to) == pc[r] = from /\ pc' = [pc EXCEPT ![r] = to]

-----------------------------------------------------------------------------
(* storeclient.New with FetchFromGCS as OpenFile, or, with --local, without.*)

(* What a download that breaks off has got: nothing, a file without some of *)
(* its pages, or one whose last page ends early and lists fewer records.    *)
Part(db, kept) == [u \in Users |-> IF u \in kept THEN db[u] ELSE NoRecord]
Torn(object) ==
  {Truncated, Corrupt} \cup
    IF object \in Database THEN {Part(object, kept) : kept \in SUBSET Users} ELSE {}

(* The error of ReadAll is overwritten by that of os.Create.                *)
Download(r) ==
  /\ Goto(r, "idle", "fetched")
  /\ isRemote' = [isRemote EXCEPT ![r] = TRUE]
  /\ \E got \in {remote} \cup Torn(remote) : data' = [data EXCEPT ![r] = got]
  /\ UNCHANGED <<remote, file, holder, replaced, record, buys, drawn, sold>>

OpenLocal(r) ==
  /\ r \in LocalSlots
  /\ Goto(r, "idle", "ready")
  /\ isRemote' = [isRemote EXCEPT ![r] = FALSE]
  /\ UNCHANGED <<remote, file, holder, replaced, data, record, buys, drawn, sold>>

Rewrite(h, content) ==
  /\ file' = [file EXCEPT ![h] = content]
  /\ replaced' = [replaced EXCEPT ![h] = holder[h] # Free]

(* Slip: the file is opened as it is.  An operator commented "Slip" is not  *)
(* part of the model: it is the one after it with a mistake, and shows that *)
(* a property notices it.                                                   *)
CreateKeeps(r) ==
  /\ Goto(r, "fetched", "created")
  /\ UNCHANGED <<file, replaced, remote, holder, isRemote, data, record, buys, drawn, sold>>

(* os.Create, before anything is locked.                                    *)
Create(r) ==
  /\ Goto(r, "fetched", "created")
  /\ Rewrite(HostOf[r], Truncated)
  /\ UNCHANGED <<remote, holder, isRemote, data, record, buys, drawn, sold>>

WriteFile(r) ==
  /\ Goto(r, "created", "ready")
  /\ IF data[r] = Truncated THEN UNCHANGED <<file, replaced>> ELSE Rewrite(HostOf[r], data[r])
  /\ data' = [data EXCEPT ![r] = Truncated]
  /\ UNCHANGED <<remote, holder, isRemote, record, buys, drawn, sold>>

(* bolt polls for the lock, without a timeout; an empty file becomes a new  *)
(* database.                                                                *)
Lock(r) ==
  /\ Goto(r, "ready", "locked")
  /\ holder[HostOf[r]] = Free
  /\ holder' = [holder EXCEPT ![HostOf[r]] = r]
  /\ replaced' = [replaced EXCEPT ![HostOf[r]] = FALSE]
  /\ file' = [file EXCEPT ![HostOf[r]] = IF @ = Truncated THEN EmptyDB ELSE @]
  /\ UNCHANGED <<remote, isRemote, data, record, buys, drawn, sold>>

CreateBucket(r) ==
  /\ Goto(r, "locked", "open")
  /\ ThisFile(r) # Truncated
  /\ UNCHANGED <<remote, file, holder, replaced, isRemote, data, record, buys, drawn, sold>>

Forget(r) ==
  /\ pc' = [pc EXCEPT ![r] = "idle"]
  /\ isRemote' = [isRemote EXCEPT ![r] = TRUE]
  /\ data' = [data EXCEPT ![r] = Truncated]
  /\ record' = [record EXCEPT ![r] = NoRecord]
  /\ buys' = [buys EXCEPT ![r] = FALSE]

(* New returns an error and a client nobody closes, or bolt panics and the  *)
(* web application goes on.  The garbage collector closes the file, but the *)
(* mapping still holds it, and the lock with it, until the process ends.    *)
CreateBucketFails(r) ==
  /\ pc[r] = "locked"
  /\ holder' = [holder EXCEPT ![HostOf[r]] = Leaked]
  /\ Forget(r)
  /\ UNCHANGED <<remote, file, replaced, drawn, sold>>

-----------------------------------------------------------------------------
(* The handler between opening and SyncRemote.                              *)

(* What may be found in a file of which not everything makes sense: any     *)
(* link that has been drawn, spent or not.                                  *)
Found(r) ==
  IF ThisFile(r) \in Database THEN {ThisFile(r)[UserOf[r]]}
  ELSE [link : 0 .. drawn, spent : BOOLEAN, local : {FALSE}]

(* Get or List: a transaction of its own.                                   *)
Read(r) ==
  /\ Goto(r, "open", "read")
  /\ ThisFile(r) # Truncated
  /\ \E found \in Found(r) : record' = [record EXCEPT ![r] = found]
  /\ UNCHANGED <<remote, file, holder, replaced, isRemote, data, buys, drawn, sold>>

(* What Update stores.  Rubbish stays rubbish.                              *)
Edited(r, stored) ==
  IF ThisFile(r) \in Database THEN [ThisFile(r) EXCEPT ![UserOf[r]] = stored] ELSE Corrupt

(* Update: another transaction.  If the file was replaced in between, bolt  *)
(* may allocate pages that are in use.                                      *)
Update(r, new) ==
  /\ Goto(r, "read", "written")
  /\ ThisFile(r) # Truncated
  /\ LET stored == [new EXCEPT !.local = @ \/ ~isRemote[r]]
     IN /\ \E content \in {Edited(r, stored)} \cup
                          IF replaced[HostOf[r]] THEN {Corrupt} ELSE {} :
             file' = [file EXCEPT ![HostOf[r]] = content]
        /\ record' = [record EXCEPT ![r] = stored]
  /\ UNCHANGED <<remote, holder, replaced, isRemote, data, sold>>

(* Slip: the bound on links is forgotten.                                   *)
RenewUncounted(r) ==
  /\ isRemote[r]
  /\ drawn' = drawn + 1
  /\ Update(r, [record[r] EXCEPT !.link = drawn + 1, !.spent = FALSE])
  /\ UNCHANGED buys

(* POST /peers/: a new link.                                                *)
RenewPeer(r) ==
  /\ isRemote[r]
  /\ drawn < MaxLinks
  /\ drawn' = drawn + 1
  /\ Update(r, [record[r] EXCEPT !.link = drawn + 1, !.spent = FALSE])
  /\ UNCHANGED buys

(* GET /peers/<link>: spend the link.                                       *)
SpendLink(r) ==
  /\ isRemote[r]
  /\ ~record[r].spent
  /\ Update(r, [record[r] EXCEPT !.spent = TRUE])
  /\ buys' = [buys EXCEPT ![r] = TRUE]
  /\ UNCHANGED drawn

(* Any other edit, such as "peer block", stores the record it has read.     *)
Touch(r) == Update(r, record[r]) /\ UNCHANGED <<buys, drawn>>

Release(r) ==
  holder' = [holder EXCEPT ![HostOf[r]] = IF @ = r THEN Free ELSE @]

(* Slip: an early return that closes nothing.                               *)
GiveUpOpen(r) ==
  /\ pc[r] # "idle"
  /\ Forget(r)
  /\ UNCHANGED <<remote, file, holder, replaced, drawn, sold>>

(* A page or a listing, and every early return: closed without an upload.   *)
(* So does bolt with a file it refuses, and a process of the CLI that ends. *)
GiveUp(r) ==
  /\ pc[r] # "idle"
  /\ Release(r)
  /\ Forget(r)
  /\ UNCHANGED <<remote, file, replaced, drawn, sold>>

(* The mapping of a file that was cut, or that makes no sense, faults: the  *)
(* whole process dies, as it does when it is killed or calls log.Fatal.     *)
(* Only this gives the lock of a lost handle back.                          *)
Crash(h) ==
  /\ holder[h] = Leaked \/ \E r \in Slots : HostOf[r] = h /\ pc[r] # "idle"
  /\ pc' = [r \in Slots |-> IF HostOf[r] = h THEN "idle" ELSE pc[r]]
  /\ isRemote' = [r \in Slots |-> HostOf[r] = h \/ isRemote[r]]
  /\ data' = [r \in Slots |-> IF HostOf[r] = h THEN Truncated ELSE data[r]]
  /\ record' = [r \in Slots |-> IF HostOf[r] = h THEN NoRecord ELSE record[r]]
  /\ buys' = [r \in Slots |-> HostOf[r] # h /\ buys[r]]
  /\ holder' = [holder EXCEPT ![h] = Free]
  /\ UNCHANGED <<remote, file, replaced, drawn, sold>>

Fault(r) ==
  /\ pc[r] \in {"locked", "open", "read"}
  /\ ThisFile(r) \in {Truncated, Corrupt}
  /\ Crash(HostOf[r])

-----------------------------------------------------------------------------
(* SyncRemote.                                                              *)

Close(r) ==
  /\ Goto(r, "written", "closed")
  /\ Release(r)
  /\ UNCHANGED <<remote, file, replaced, isRemote, data, record, buys, drawn, sold>>

Answered(r) ==
  IF ~buys[r] THEN UNCHANGED sold
  ELSE sold' = [sold EXCEPT ![UserOf[r]][record[r].link] = IF @ < 2 THEN @ + 1 ELSE @]

(* Slip: what was downloaded is sent back.                                  *)
UploadEmpty(r) ==
  /\ pc[r] = "closed"
  /\ remote' = IF isRemote[r] THEN data[r] ELSE remote
  /\ Answered(r)
  /\ Forget(r)
  /\ UNCHANGED <<file, holder, replaced, drawn>>

(* The file is opened again by its name and sent as it is then; a store     *)
(* that is not remote is not sent at all.                                   *)
Upload(r) ==
  /\ pc[r] = "closed"
  /\ remote' = IF isRemote[r] THEN ThisFile(r) ELSE remote
  /\ Answered(r)
  /\ Forget(r)
  /\ UNCHANGED <<file, holder, replaced, drawn>>

(* Slip: the error is not looked at.                                        *)
UploadFailsUnseen(r) ==
  /\ pc[r] = "closed" /\ isRemote[r]
  /\ UNCHANGED remote
  /\ Answered(r)
  /\ Forget(r)
  /\ UNCHANGED <<file, holder, replaced, drawn>>

(* The object is replaced, but the caller sees an error.                    *)
UploadUnacknowledged(r) ==
  /\ pc[r] = "closed" /\ isRemote[r]
  /\ remote' = ThisFile(r)
  /\ Forget(r)
  /\ UNCHANGED <<file, holder, replaced, drawn, sold>>

Open(r) ==
  \/ Create(r) \/ WriteFile(r) \/ Lock(r)
  \/ CreateBucket(r) \/ CreateBucketFails(r)
Handle(r) == Read(r) \/ RenewPeer(r) \/ SpendLink(r) \/ Touch(r) \/ Fault(r)
SyncRemote(r) == Close(r) \/ Upload(r) \/ UploadUnacknowledged(r)
Work(r) == Open(r) \/ Handle(r) \/ SyncRemote(r)

Next ==
  /\ UNCHANGED HostOf
  /\ \/ \E r \in Slots : Download(r) \/ OpenLocal(r) \/ Work(r) \/ GiveUp(r)
     \/ \E h \in Hosts : Crash(h)

Spec == Init /\ [][Next]_<<vars, HostOf>>

(* A program that is running goes on.  bolt asks for the lock every 50 ms,  *)
(* and does not find it taken for ever if it is free again and again.  No   *)
(* process has to end, so nothing ever has to give back a lost lock.        *)
Fairness == \A r \in Slots : WF_vars(Work(r)) /\ SF_vars(Lock(r))

FairSpec == Spec /\ Fairness
-----------------------------------------------------------------------------
TypeOK ==
  /\ HostOf \in Placements
  /\ remote \in Contents
  /\ file \in [Hosts -> Contents]
  /\ holder \in [Hosts -> Slots \cup {Free, Leaked}]
  /\ replaced \in [Hosts -> BOOLEAN]
  /\ pc \in [Slots -> {"idle", "fetched", "created", "ready", "locked", "open",
                       "read", "written", "closed"}]
  /\ isRemote \in [Slots -> BOOLEAN]
  /\ data \in [Slots -> Contents]
  /\ record \in [Slots -> Record]
  /\ buys \in [Slots -> BOOLEAN]
  /\ drawn \in 0 .. MaxLinks
  /\ sold \in [Users -> [0 .. MaxLinks -> 0 .. 2]]

(* No two programs share a file.                                            *)
Apart == \A r, q \in Slots : HostOf[r] = HostOf[q] => r = q

Held(got) == IF got = Truncated THEN EmptyDB ELSE got
TornCopies(object) == {Held(got) : got \in Torn(object)}

Private == INSTANCE CopyStore WITH
  Clients <- Slots,
  Databases <- Database,
  Torn <- TornCopies,
  NoCopy <- Truncated,
  object <- remote,
  copy <- [r \in Slots |->
             IF pc[r] = "idle" \/ ~isRemote[r] THEN Truncated
             ELSE Held(IF pc[r] \in {"fetched", "created"} THEN data[r] ELSE ThisFile(r))]

(* What Registry takes for granted: a copy is private from the download to  *)
(* the upload, and only a download that broke off can make it rubbish.      *)
(* Programs that share a file have no such thing.                           *)
CopiesArePrivate ==
  (Apart => Private!Init) /\ [][Apart => Private!Next \/ UNCHANGED Private!vars]_vars

Spent(db, u, l) == db \in Database /\ db[u] = [link |-> l, spent |-> TRUE, local |-> FALSE]

(* Before a config is answered, exactly its link is stored as spent, unless *)
(* the file was rubbish already when it was downloaded.  If programs share  *)
(* a file it may store the download of another.                             *)
AnsweredIsStored ==
  [][\A u \in Users : \A l \in 0 .. MaxLinks :
       Apart /\ sold'[u][l] > sold[u][l] => remote' = Corrupt \/ Spent(remote', u, l)]_vars

(* "Fetch from local database instead of remote": what a command with       *)
(* --local wrote is never uploaded, though it stays in the very file that   *)
(* the next command works on, unless that one runs at the same time.        *)
LocalStaysLocal ==
  Apart /\ remote \in Database => \A u \in Users : ~remote[u].local

(* Every program gets the lock and ends, although bolt waits without a      *)
(* timeout and other processes die with the lock, unless a handle is lost   *)
(* with it: then programs wait until that process ends, which may be never. *)
Terminates ==
  \A r \in Slots : pc[r] # "idle" ~> pc[r] = "idle" \/ holder[HostOf[r]] = Leaked

=============================================================================
