---------------------------- MODULE DBFileProofs ----------------------------
(* Programs that share no file work on private copies of the registry: for  *)
(* any number of machines, users and links, whatever fails.                 *)
EXTENDS DBFile, TLAPS

-----------------------------------------------------------------------------
(* The inductive invariant.  As long as no other program shares its file, a *)
(* program knows who has the lock on it and what is in it.                  *)

Locked == {"locked", "open", "read", "written"}
Stale == {"idle", "fetched", "created"}   \* the file is not the copy

NoneLocal(db) == db \in Database => \A u \in Users : ~db[u].local

(* The lock is the program's from Lock to Close, and nobody rewrites a file *)
(* that is locked.                                                          *)
LockIsOwn(r) ==
  /\ pc[r] \in Locked <=> holder[HostOf[r]] = r
  /\ pc[r] \in Locked => ~replaced[HostOf[r]]

(* The file is empty after Create, not empty after Lock, and after Update   *)
(* it holds the record as the program wrote it, unless it is rubbish.       *)
FileIsOwn(r) ==
  /\ pc[r] = "created" => ThisFile(r) = Truncated
  /\ pc[r] \in Locked \cup {"closed"} => ThisFile(r) # Truncated
  /\ pc[r] \in {"written", "closed"} /\ ThisFile(r) \in Database =>
       ThisFile(r)[UserOf[r]] = record[r]

(* What a program without --local downloads, reads and writes has nothing   *)
(* in it that was written with --local.                                     *)
NothingLocal(r) ==
  /\ NoneLocal(data[r])
  /\ isRemote[r] /\ pc[r] \notin Stale => NoneLocal(ThisFile(r))
  /\ isRemote[r] /\ pc[r] \in {"read", "written", "closed"} => ~record[r].local

Buying(r) ==
  buys[r] => pc[r] \in {"written", "closed"} /\ isRemote[r] /\ record[r].spent

RemoteIsClean == remote # Truncated /\ NoneLocal(remote)

SlotInv(r) == LockIsOwn(r) /\ FileIsOwn(r) /\ NothingLocal(r) /\ Buying(r)

IInv == TypeOK /\ (Apart => RemoteIsClean /\ \A r \in Slots : SlotInv(r))

-----------------------------------------------------------------------------
(* Types.                                                                   *)

PCs == {"idle", "fetched", "created", "ready", "locked", "open", "read", "written",
        "closed"}

LEMMA PlacesType ==
  ASSUME TypeOK
  PROVE  /\ HostOf \in [Slots -> Hosts]
         /\ pc \in [Slots -> PCs]
BY DBFileAssumption DEF TypeOK, PCs

LEMMA EmptyDBType == NoRecord \in Record /\ EmptyDB \in Database
BY DBFileAssumption DEF NoRecord, EmptyDB, Record, Database

LEMMA TornType == remote \in Contents => Torn(remote) \subseteq Contents
BY EmptyDBType DEF Torn, Part, Contents, Database

LEMMA InitType == Init => TypeOK
BY EmptyDBType, DBFileAssumption DEF Init, TypeOK, Contents

LEMMA OpenType ==
  ASSUME TypeOK, UNCHANGED HostOf, NEW r \in Slots,
         Download(r) \/ OpenLocal(r) \/ Open(r)
  PROVE  TypeOK'
<1> USE PlacesType, EmptyDBType DEF TypeOK, Goto, Contents
<1>1. CASE Download(r)
  <2>1. \E got \in Contents : data' = [data EXCEPT ![r] = got]
    BY <1>1, TornType DEF Download
  <2>2. QED
    BY <1>1, <2>1 DEF Download
<1>2. CASE OpenLocal(r)
  BY <1>2 DEF OpenLocal
<1>3. CASE Create(r)
  BY <1>3 DEF Create, Rewrite
<1>4. CASE WriteFile(r)
  BY <1>4 DEF WriteFile, Rewrite
<1>5. CASE Lock(r)
  BY <1>5 DEF Lock
<1>6. CASE CreateBucket(r)
  BY <1>6 DEF CreateBucket
<1>7. CASE CreateBucketFails(r)
  BY <1>7 DEF CreateBucketFails, Forget
<1>8. QED
  BY <1>1, <1>2, <1>3, <1>4, <1>5, <1>6, <1>7 DEF Open

LEMMA UpdateType ==
  ASSUME TypeOK, NEW r \in Slots, NEW new \in Record, Update(r, new)
  PROVE  /\ file' \in [Hosts -> Contents]
         /\ record' \in [Slots -> Record]
         /\ pc' \in [Slots -> PCs]
<1> DEFINE stored == [new EXCEPT !.local = @ \/ ~isRemote[r]]
           edited == Edited(r, stored)
<1>1. stored \in Record
  BY DEF Record
<1>2. edited \in Contents
  BY <1>1 DEF Edited, Database, Contents
<1>3. /\ record' = [record EXCEPT ![r] = stored]
      /\ \E content \in {edited, Corrupt} : file' = [file EXCEPT ![HostOf[r]] = content]
  BY DEF Update
<1> HIDE DEF stored, edited
<1>4. QED
  BY <1>1, <1>2, <1>3, PlacesType DEF TypeOK, Contents, PCs, Update, Goto

LEMMA CrashType ==
  ASSUME TypeOK, UNCHANGED HostOf, NEW h \in Hosts, Crash(h)
  PROVE  TypeOK'
<1>1. isRemote' \in [Slots -> BOOLEAN] /\ buys' \in [Slots -> BOOLEAN]
  BY DEF TypeOK, Crash
<1>2. QED
  BY <1>1, PlacesType, EmptyDBType DEF TypeOK, Crash, Contents

LEMMA HandleType ==
  ASSUME TypeOK, UNCHANGED HostOf, NEW r \in Slots, Handle(r)
  PROVE  TypeOK'
<1>1. HostOf[r] \in Hosts /\ UserOf[r] \in Users /\ record[r] \in Record
  BY PlacesType, DBFileAssumption DEF TypeOK
<1>2. CASE Read(r)
  <2>1. Found(r) \subseteq Record
    <3>1. 0 .. drawn \subseteq 0 .. MaxLinks
      BY DBFileAssumption DEF TypeOK
    <3>2. QED
      BY <1>1, <3>1 DEF Found, Database, Record
  <2>2. \E found \in Record : record' = [record EXCEPT ![r] = found]
    BY <1>2, <2>1 DEF Read
  <2>3. QED
    BY <1>2, <2>2, PlacesType DEF Read, Goto, TypeOK, PCs
<1>3. CASE RenewPeer(r)
  <2>1. drawn + 1 \in 0 .. MaxLinks
    BY <1>3, DBFileAssumption DEF RenewPeer, TypeOK
  <2>2. [record[r] EXCEPT !.link = drawn + 1, !.spent = FALSE] \in Record
    BY <1>1, <2>1 DEF Record
  <2>3. QED
    BY <1>3, <2>1, <2>2, UpdateType DEF RenewPeer, Update, TypeOK, PCs
<1>4. CASE SpendLink(r)
  <2>1. [record[r] EXCEPT !.spent = TRUE] \in Record
    BY <1>1 DEF Record
  <2>2. QED
    BY <1>4, <2>1, UpdateType DEF SpendLink, Update, TypeOK, PCs
<1>5. CASE Touch(r)
  BY <1>1, <1>5, UpdateType DEF Touch, Update, TypeOK, PCs
<1>6. CASE Fault(r)
  BY <1>1, <1>6, CrashType DEF Fault
<1>7. QED
  BY <1>2, <1>3, <1>4, <1>5, <1>6 DEF Handle

LEMMA EndType ==
  ASSUME TypeOK, UNCHANGED HostOf, NEW r \in Slots, SyncRemote(r) \/ GiveUp(r)
  PROVE  TypeOK'
<1> USE PlacesType, EmptyDBType
<1>1. ThisFile(r) \in Contents
  BY DEF TypeOK, ThisFile
<1>2. CASE Close(r)
  <2>1. holder' \in [Hosts -> Slots \cup {Free, Leaked}]
    BY <1>2 DEF Close, Release, TypeOK
  <2>2. pc' \in [Slots -> PCs]
    BY <1>2 DEF Close, Goto, PCs
  <2>3. QED
    BY <1>2, <2>1, <2>2 DEF Close, TypeOK, PCs
<1>3. ASSUME Answered(r)
      PROVE  sold' \in [Users -> [0 .. MaxLinks -> 0 .. 2]]
  <2> DEFINE l == record[r].link
             n == sold[UserOf[r]][l]
             more == [sold[UserOf[r]] EXCEPT ![l] = IF n < 2 THEN n + 1 ELSE n]
  <2>1. sold[UserOf[r]] \in [0 .. MaxLinks -> 0 .. 2] /\ l \in 0 .. MaxLinks
    BY DBFileAssumption DEF TypeOK, Record
  <2>2. more \in [0 .. MaxLinks -> 0 .. 2]
    <3>1. n \in 0 .. 2
      BY <2>1
    <3>2. (IF n < 2 THEN n + 1 ELSE n) \in 0 .. 2
      BY <3>1
    <3> HIDE DEF n, l
    <3>3. QED
      BY <2>1, <3>2
  <2>3. sold' = sold \/ sold' = [sold EXCEPT ![UserOf[r]] = more]
    BY <1>3 DEF Answered
  <2> HIDE DEF more
  <2>4. QED
    BY <2>2, <2>3 DEF TypeOK
<1>4. CASE Upload(r)
  BY <1>1, <1>3, <1>4 DEF Upload, Forget, TypeOK, Contents
<1>5. CASE UploadUnacknowledged(r)
  BY <1>1, <1>5 DEF UploadUnacknowledged, Forget, TypeOK, Contents
<1>6. CASE GiveUp(r)
  BY <1>6 DEF GiveUp, Release, Forget, TypeOK, Contents
<1>7. QED
  BY <1>2, <1>4, <1>5, <1>6 DEF SyncRemote

LEMMA NextType ==
  ASSUME TypeOK, [Next]_<<vars, HostOf>>
  PROVE  TypeOK'
<1>1. CASE UNCHANGED HostOf /\ \E r \in Slots :
             Download(r) \/ OpenLocal(r) \/ Work(r) \/ GiveUp(r)
  BY <1>1, OpenType, HandleType, EndType DEF Work
<1>2. CASE UNCHANGED HostOf /\ \E h \in Hosts : Crash(h)
  BY <1>2, CrashType
<1>3. CASE UNCHANGED <<vars, HostOf>>
  BY <1>3 DEF vars, TypeOK
<1>4. QED
  BY <1>1, <1>2, <1>3 DEF Next

(* Whoever truncates, rewrites, locks, loses or kills what: every variable  *)
(* keeps its type, so that no program runs past its last link and no file   *)
(* has other contents than a database, nothing, or rubbish.                 *)
THEOREM TypeCorrect == Spec => []TypeOK
<1>1. QED
  BY InitType, NextType, PTL DEF Spec

-----------------------------------------------------------------------------
(* A step of one program leaves alone whatever belongs to another, whose    *)
(* host is a different one.                                                 *)

Unaffected(q) ==
  /\ HostOf'[q] = HostOf[q]
  /\ file'[HostOf[q]] = file[HostOf[q]]
  /\ holder'[HostOf[q]] = holder[HostOf[q]]
  /\ replaced'[HostOf[q]] = replaced[HostOf[q]]
  /\ pc'[q] = pc[q] /\ isRemote'[q] = isRemote[q] /\ data'[q] = data[q]
  /\ record'[q] = record[q] /\ buys'[q] = buys[q]

LEMMA UnaffectedInv ==
  ASSUME NEW q \in Slots, SlotInv(q), Unaffected(q)
  PROVE  SlotInv(q)'
BY DEF Unaffected, SlotInv, LockIsOwn, FileIsOwn, NothingLocal, Buying, ThisFile

Step(r) ==
  \/ Download(r) \/ OpenLocal(r) \/ Open(r)
  \/ Read(r) \/ RenewPeer(r) \/ SpendLink(r) \/ Touch(r)
  \/ SyncRemote(r) \/ GiveUp(r)

LEMMA StepIsLocal ==
  ASSUME TypeOK, Apart, UNCHANGED HostOf,
         NEW r \in Slots, Step(r), NEW q \in Slots \ {r}
  PROVE  Unaffected(q)
<1>1. HostOf[q] # HostOf[r]
  BY DEF Apart
<1> USE PlacesType, <1>1 DEF TypeOK, Unaffected, Goto
<1>2. CASE Download(r) \/ OpenLocal(r)
  BY <1>2 DEF Download, OpenLocal
<1>3. CASE Create(r) \/ WriteFile(r)
  BY <1>3 DEF Create, WriteFile, Rewrite
<1>4. CASE Lock(r) \/ CreateBucket(r) \/ CreateBucketFails(r)
  BY <1>4 DEF Lock, CreateBucket, CreateBucketFails, Forget
<1>5. CASE Read(r)
  <2>1. \E found : record' = [record EXCEPT ![r] = found]
    BY <1>5 DEF Read
  <2>2. QED
    BY <1>5, <2>1 DEF Read
<1>6. CASE RenewPeer(r) \/ SpendLink(r) \/ Touch(r)
  <2>1. \E new : Update(r, new)
    BY <1>6 DEF RenewPeer, SpendLink, Touch
  <2>2. /\ \E content : file' = [file EXCEPT ![HostOf[r]] = content]
        /\ \E stored : record' = [record EXCEPT ![r] = stored]
        /\ pc' = [pc EXCEPT ![r] = "written"]
        /\ UNCHANGED <<holder, replaced, isRemote, data>>
    BY <2>1 DEF Update
  <2>3. buys'[q] = buys[q]
    BY <1>6 DEF RenewPeer, SpendLink, Touch
  <2>4. QED
    BY <2>2, <2>3
<1>7. CASE Close(r)
  BY <1>7 DEF Close, Release
<1>8. CASE Upload(r) \/ UploadUnacknowledged(r)
  BY <1>8 DEF Upload, UploadUnacknowledged, Forget
<1>9. CASE GiveUp(r)
  BY <1>9 DEF GiveUp, Release, Forget
<1>10. QED
  BY <1>2, <1>3, <1>4, <1>5, <1>6, <1>7, <1>8, <1>9 DEF Step, Open, SyncRemote

LEMMA CrashIsLocal ==
  ASSUME TypeOK, UNCHANGED HostOf, NEW h \in Hosts, Crash(h), NEW q \in Slots, HostOf[q] # h
  PROVE  Unaffected(q)
BY PlacesType DEF TypeOK, Unaffected, Crash

-----------------------------------------------------------------------------
(* A step of a program keeps what it knows about its own file.              *)

LEMMA NewDBClean ==
  /\ NoneLocal(EmptyDB) /\ NoneLocal(Truncated) /\ NoneLocal(Corrupt)
  /\ Truncated \notin Database /\ Corrupt \notin Database /\ Corrupt # Truncated
  /\ EmptyDB # Truncated
BY EmptyDBType, DBFileAssumption DEF NoneLocal, EmptyDB, NoRecord

LEMMA TornClean ==
  ASSUME NoneLocal(remote), NEW got \in {remote} \cup Torn(remote)
  PROVE  NoneLocal(got)
<1>1. ASSUME remote \in Database, NEW kept \in SUBSET Users
      PROVE  NoneLocal(Part(remote, kept))
  BY <1>1 DEF NoneLocal, Part, NoRecord
<1>2. QED
  BY <1>1, NewDBClean DEF Torn

LEMMA OpenInv ==
  ASSUME TypeOK, RemoteIsClean, UNCHANGED HostOf, NEW r \in Slots, SlotInv(r),
         Download(r) \/ OpenLocal(r) \/ Open(r)
  PROVE  RemoteIsClean' /\ SlotInv(r)'
<1> DEFINE h == HostOf[r]
<1>h. HostOf'[r] = h /\ h \in Hosts
  BY PlacesType
<1>1. RemoteIsClean'
  BY DEF Download, OpenLocal, Open, Create, WriteFile, Lock, CreateBucket, CreateBucketFails,
         RemoteIsClean, NoneLocal
<1> SUFFICES SlotInv(r)'
  BY <1>1
<1>2. CASE Download(r)
  <2>1. /\ pc[r] = "idle" /\ pc'[r] = "fetched" /\ isRemote'[r] = TRUE
        /\ data'[r] \in {remote} \cup Torn(remote)
        /\ UNCHANGED <<file, holder, replaced, record, buys>>
    BY <1>2, PlacesType DEF Download, Goto, TypeOK
  <2>2. NoneLocal(data'[r])
    BY <2>1, TornClean DEF RemoteIsClean
  <2>3. QED
    BY <1>h, <2>1, <2>2 DEF NoneLocal, SlotInv, LockIsOwn, FileIsOwn, NothingLocal, Buying,
                      ThisFile, Locked, Stale
<1>3. CASE OpenLocal(r)
  <2>1. /\ pc[r] = "idle" /\ pc'[r] = "ready" /\ isRemote'[r] = FALSE
        /\ UNCHANGED <<file, holder, replaced, data, record, buys>>
    BY <1>3, PlacesType DEF OpenLocal, Goto, TypeOK
  <2>2. QED
    BY <1>h, <2>1 DEF SlotInv, LockIsOwn, FileIsOwn, NothingLocal, Buying, ThisFile, Locked, Stale
<1>4. CASE Create(r)
  <2>1. /\ pc[r] = "fetched" /\ pc'[r] = "created" /\ file'[h] = Truncated
        /\ UNCHANGED <<holder, isRemote, data, record, buys>>
    BY <1>4, <1>h, PlacesType DEF Create, Rewrite, Goto, TypeOK
  <2>2. QED
    BY <1>h, <2>1 DEF SlotInv, LockIsOwn, FileIsOwn, NothingLocal, Buying, ThisFile, Locked, Stale
<1>5. CASE WriteFile(r)
  <2>1. /\ pc[r] = "created" /\ pc'[r] = "ready" /\ data'[r] = Truncated
        /\ file'[h] = IF data[r] = Truncated THEN file[h] ELSE data[r]
        /\ UNCHANGED <<holder, isRemote, record, buys>>
    BY <1>5, <1>h, PlacesType DEF WriteFile, Rewrite, Goto, TypeOK
  <2>2. QED
    BY <1>h, <2>1, NewDBClean
       DEF NoneLocal, SlotInv, LockIsOwn, FileIsOwn, NothingLocal, Buying, ThisFile, Locked, Stale
<1>6. CASE Lock(r)
  <2>1. /\ pc[r] = "ready" /\ pc'[r] = "locked" /\ holder'[h] = r /\ replaced'[h] = FALSE
        /\ file'[h] = IF file[h] = Truncated THEN EmptyDB ELSE file[h]
        /\ UNCHANGED <<isRemote, data, record, buys>>
    BY <1>6, <1>h, PlacesType DEF Lock, Goto, TypeOK
  <2>2. QED
    BY <1>h, <2>1, EmptyDBType, NewDBClean
       DEF SlotInv, LockIsOwn, FileIsOwn, NothingLocal, Buying, ThisFile, Locked, Stale
<1>7. CASE CreateBucket(r)
  <2>1. /\ pc[r] = "locked" /\ pc'[r] = "open"
        /\ UNCHANGED <<file, holder, replaced, isRemote, data, record, buys>>
    BY <1>7, PlacesType DEF CreateBucket, Goto, TypeOK
  <2>2. QED
    BY <1>h, <2>1 DEF SlotInv, LockIsOwn, FileIsOwn, NothingLocal, Buying, ThisFile, Locked, Stale
<1>8. CASE CreateBucketFails(r)
  <2>1. /\ pc'[r] = "idle" /\ holder'[h] # r /\ data'[r] = Truncated /\ buys'[r] = FALSE
        /\ UNCHANGED file
    BY <1>8, <1>h, PlacesType, DBFileAssumption DEF CreateBucketFails, Forget, TypeOK
  <2>2. QED
    BY <1>h, <2>1, NewDBClean
       DEF NoneLocal, SlotInv, LockIsOwn, FileIsOwn, NothingLocal, Buying, ThisFile, Locked, Stale
<1>9. QED
  BY <1>2, <1>3, <1>4, <1>5, <1>6, <1>7, <1>8 DEF Open

(* What is written is the file as it is, with the record as it was handed   *)
(* to Update: bolt finds its pages as it left them.                         *)
LEMMA UpdateEffect ==
  ASSUME TypeOK, UNCHANGED HostOf, NEW r \in Slots, SlotInv(r), NEW new \in Record,
         Update(r, new)
  PROVE  /\ pc[r] = "read" /\ pc'[r] = "written"
         /\ ThisFile(r) # Truncated
         /\ ThisFile(r)' = Edited(r, record'[r])
         /\ record'[r] \in Record
         /\ record'[r].link = new.link /\ record'[r].spent = new.spent
         /\ record'[r].local = (new.local \/ ~isRemote[r])
         /\ UNCHANGED <<remote, holder, replaced, isRemote, data, sold>>
<1> DEFINE h == HostOf[r]
           stored == [new EXCEPT !.local = @ \/ ~isRemote[r]]
           edited == Edited(r, stored)
<1>1. /\ pc[r] = "read" /\ pc'[r] = "written" /\ ThisFile(r) # Truncated
      /\ UNCHANGED <<remote, holder, replaced, isRemote, data, sold>>
  BY PlacesType DEF Update, Goto, TypeOK
<1>2. /\ stored \in Record /\ stored.link = new.link /\ stored.spent = new.spent
      /\ stored.local = (new.local \/ ~isRemote[r])
  BY DEF Record
<1>3. ~replaced[h]
  BY <1>1 DEF SlotInv, LockIsOwn, Locked
<1>4. file' = [file EXCEPT ![h] = edited] /\ record' = [record EXCEPT ![r] = stored]
  BY <1>3 DEF Update
<1> HIDE DEF edited, stored
<1>5. file'[h] = edited /\ record'[r] = stored
  BY <1>4, PlacesType DEF TypeOK
<1>6. QED
  BY <1>1, <1>2, <1>5 DEF edited, stored, ThisFile

LEMMA UpdateInv ==
  ASSUME TypeOK, UNCHANGED HostOf, NEW r \in Slots, SlotInv(r), NEW new \in Record,
         Update(r, new), new.local = record[r].local,
         buys'[r] => isRemote[r] /\ new.spent
  PROVE  SlotInv(r)'
<1>1. /\ pc[r] = "read" /\ pc'[r] = "written"
      /\ ThisFile(r)' = Edited(r, record'[r])
      /\ record'[r] \in Record /\ record'[r].spent = new.spent
      /\ record'[r].local = (record[r].local \/ ~isRemote[r])
      /\ UNCHANGED <<holder, replaced, isRemote, data>>
  BY UpdateEffect
<1>2. ThisFile(r)' # Truncated
      /\ (ThisFile(r)' \in Database => ThisFile(r)'[UserOf[r]] = record'[r])
  BY <1>1, NewDBClean, DBFileAssumption DEF Edited, Database
<1>3. isRemote[r] => NoneLocal(ThisFile(r)')
  <2>1. isRemote[r] => NoneLocal(ThisFile(r)) /\ ~record[r].local
    BY <1>1 DEF SlotInv, NothingLocal, Stale
  <2>2. QED
    BY <1>1, <2>1, NewDBClean, DBFileAssumption DEF Edited, Database, NoneLocal
<1>4. LockIsOwn(r)'
  BY <1>1 DEF SlotInv, LockIsOwn, Locked
<1>5. FileIsOwn(r)'
  BY <1>1, <1>2 DEF FileIsOwn, ThisFile
<1>6. NothingLocal(r)'
  BY <1>1, <1>2, <1>3 DEF SlotInv, NothingLocal
<1>7. Buying(r)'
  BY <1>1 DEF Buying
<1>8. QED
  BY <1>4, <1>5, <1>6, <1>7 DEF SlotInv

LEMMA HandleInv ==
  ASSUME TypeOK, UNCHANGED HostOf, NEW r \in Slots, SlotInv(r),
         Read(r) \/ RenewPeer(r) \/ SpendLink(r) \/ Touch(r)
  PROVE  SlotInv(r)'
<1>1. record[r] \in Record /\ UserOf[r] \in Users
  BY DBFileAssumption DEF TypeOK
<1>2. CASE Read(r)
  <2>1. /\ pc[r] = "open" /\ pc'[r] = "read" /\ record'[r] \in Found(r)
        /\ UNCHANGED <<file, holder, replaced, isRemote, data, buys>>
    BY <1>2, PlacesType DEF Read, Goto, TypeOK
  <2>2. isRemote[r] => ~record'[r].local
    BY <1>1, <2>1 DEF Found, SlotInv, NothingLocal, Stale, NoneLocal
  <2>3. QED
    BY <2>1, <2>2 DEF SlotInv, LockIsOwn, FileIsOwn, NothingLocal, Buying, ThisFile, Locked, Stale
<1>3. CASE RenewPeer(r)
  <2> DEFINE new == [record[r] EXCEPT !.link = drawn + 1, !.spent = FALSE]
  <2>0. drawn + 1 \in 0 .. MaxLinks
    BY <1>3, DBFileAssumption DEF RenewPeer, TypeOK
  <2>1. new \in Record /\ new.local = record[r].local
    BY <1>1, <2>0 DEF Record
  <2>2. Update(r, new) /\ UNCHANGED buys
    BY <1>3 DEF RenewPeer
  <2> HIDE DEF new
  <2>3. ~buys'[r]
    BY <2>1, <2>2, UpdateEffect DEF SlotInv, Buying
  <2>4. QED
    BY <2>1, <2>2, <2>3, UpdateInv
<1>4. CASE SpendLink(r)
  <2> DEFINE new == [record[r] EXCEPT !.spent = TRUE]
  <2>1. new \in Record /\ new.local = record[r].local /\ new.spent
    BY <1>1 DEF Record
  <2>2. Update(r, new) /\ isRemote[r]
    BY <1>4 DEF SpendLink
  <2>3. QED
    BY <2>1, <2>2, UpdateInv
<1>5. CASE Touch(r)
  <2>1. Update(r, record[r]) /\ UNCHANGED buys
    BY <1>5 DEF Touch
  <2>2. ~buys'[r]
    BY <1>1, <2>1, UpdateEffect DEF SlotInv, Buying
  <2>3. QED
    BY <1>1, <2>1, <2>2, UpdateInv
<1>6. QED
  BY <1>2, <1>3, <1>4, <1>5

LEMMA EndInv ==
  ASSUME TypeOK, RemoteIsClean, UNCHANGED HostOf, NEW r \in Slots, SlotInv(r),
         SyncRemote(r) \/ GiveUp(r)
  PROVE  RemoteIsClean' /\ SlotInv(r)'
<1> DEFINE h == HostOf[r]
<1>1. h \in Hosts /\ r \notin {Free, Leaked}
  BY PlacesType, DBFileAssumption
<1>2. CASE Close(r)
  <2>1. /\ pc[r] = "written" /\ pc'[r] = "closed" /\ holder'[h] # r
        /\ UNCHANGED <<remote, file, replaced, isRemote, data, record, buys>>
    BY <1>1, <1>2, PlacesType DEF Close, Release, Goto, TypeOK
  <2>2. QED
    BY <2>1 DEF RemoteIsClean, SlotInv, LockIsOwn, FileIsOwn, NothingLocal, Buying, ThisFile,
                NoneLocal, Locked, Stale
<1>3. ASSUME Forget(r), holder'[h] # r, UNCHANGED file
      PROVE  SlotInv(r)'
  <2>1. pc'[r] = "idle" /\ data'[r] = Truncated /\ buys'[r] = FALSE
    BY <1>3, PlacesType DEF Forget, TypeOK
  <2>2. QED
    BY <1>3, <2>1, NewDBClean
       DEF NoneLocal, SlotInv, LockIsOwn, FileIsOwn, NothingLocal, Buying, ThisFile, Locked, Stale
<1>4. CASE Upload(r) \/ UploadUnacknowledged(r)
  <2>1. /\ pc[r] = "closed" /\ remote' \in {remote, ThisFile(r)}
        /\ remote' # remote => isRemote[r]
        /\ Forget(r) /\ UNCHANGED <<file, holder>>
    BY <1>4 DEF Upload, UploadUnacknowledged
  <2>2. holder[h] # r
    BY <2>1 DEF SlotInv, LockIsOwn, Locked
  <2>3. isRemote[r] => ThisFile(r) # Truncated /\ NoneLocal(ThisFile(r))
    BY <2>1 DEF SlotInv, FileIsOwn, NothingLocal, Stale
  <2>4. RemoteIsClean'
    BY <2>1, <2>3 DEF RemoteIsClean, NoneLocal
  <2>5. QED
    BY <1>3, <2>1, <2>2, <2>4
<1>5. CASE GiveUp(r)
  <2>1. Forget(r) /\ holder'[h] # r /\ UNCHANGED <<remote, file>>
    BY <1>1, <1>5 DEF GiveUp, Release, TypeOK
  <2>2. QED
    BY <1>3, <2>1 DEF RemoteIsClean, NoneLocal
<1>6. QED
  BY <1>2, <1>4, <1>5 DEF SyncRemote

(* A program that died has neither a copy nor the lock.                     *)
LEMMA CrashInv ==
  ASSUME TypeOK, UNCHANGED HostOf, NEW h \in Hosts, Crash(h), NEW q \in Slots, SlotInv(q)
  PROVE  SlotInv(q)'
<1>1. CASE HostOf[q] # h
  BY <1>1, CrashIsLocal, UnaffectedInv
<1>2. CASE HostOf[q] = h
  <2>1. q \notin {Free, Leaked}
    BY DBFileAssumption
  <2>2. pc'[q] = "idle" /\ data'[q] = Truncated /\ buys'[q] = FALSE
        /\ holder'[HostOf[q]] = Free /\ UNCHANGED file
    BY <1>2 DEF Crash, TypeOK
  <2>3. QED
    BY <2>1, <2>2, NewDBClean
       DEF SlotInv, LockIsOwn, FileIsOwn, NothingLocal, Buying, ThisFile, Locked, Stale
<1>3. QED
  BY <1>1, <1>2

LEMMA InitInv == Init => IInv
<1> SUFFICES ASSUME Init PROVE IInv
  OBVIOUS
<1>1. TypeOK /\ HostOf \in [Slots -> Hosts]
  BY InitType, PlacesType
<1>2. RemoteIsClean
  BY EmptyDBType, NewDBClean DEF Init, RemoteIsClean
<1>3. ASSUME NEW r \in Slots PROVE SlotInv(r)
  BY <1>1, NewDBClean, DBFileAssumption
     DEF Init, SlotInv, LockIsOwn, FileIsOwn, NothingLocal, Buying, ThisFile, Locked, Stale
<1>4. QED
  BY <1>1, <1>2, <1>3 DEF IInv

LEMMA NextInv ==
  ASSUME IInv, [Next]_<<vars, HostOf>>
  PROVE  IInv'
<1>1. TypeOK /\ TypeOK'
  BY NextType DEF IInv
<1>2. UNCHANGED HostOf /\ (Apart' => Apart)
  BY DEF Next, vars, Apart
<1> SUFFICES ASSUME Apart
             PROVE  RemoteIsClean' /\ \A q \in Slots : SlotInv(q)'
  BY <1>1, <1>2 DEF IInv
<1>3. RemoteIsClean /\ \A q \in Slots : SlotInv(q)
  BY DEF IInv
<1>4. ASSUME NEW r \in Slots, Step(r)
      PROVE  RemoteIsClean' /\ \A q \in Slots : SlotInv(q)'
  <2>1. RemoteIsClean' /\ SlotInv(r)'
    <3>1. CASE Read(r) \/ RenewPeer(r) \/ SpendLink(r) \/ Touch(r)
      <4>1. UNCHANGED remote
        BY <3>1 DEF Read, RenewPeer, SpendLink, Touch, Update
      <4>2. QED
        BY <1>1, <1>2, <1>3, <3>1, <4>1, HandleInv DEF RemoteIsClean, NoneLocal
    <3>2. QED
      BY <1>1, <1>2, <1>3, <1>4, <3>1, OpenInv, EndInv DEF Step
  <2>2. ASSUME NEW q \in Slots \ {r} PROVE SlotInv(q)'
    BY <1>1, <1>2, <1>3, <1>4, StepIsLocal, UnaffectedInv
  <2>3. QED
    BY <2>1, <2>2
<1>5. ASSUME NEW h \in Hosts, Crash(h)
      PROVE  RemoteIsClean' /\ \A q \in Slots : SlotInv(q)'
  <2>1. UNCHANGED remote
    BY <1>5 DEF Crash
  <2>2. QED
    BY <1>1, <1>2, <1>3, <1>5, <2>1, CrashInv DEF RemoteIsClean, NoneLocal
<1>6. ASSUME NEW r \in Slots, Download(r) \/ OpenLocal(r) \/ Work(r) \/ GiveUp(r)
      PROVE  Step(r) \/ (Crash(HostOf[r]) /\ HostOf[r] \in Hosts)
  BY <1>1, <1>6, PlacesType DEF Work, Handle, Step, Fault
<1>7. CASE UNCHANGED <<vars, HostOf>>
  <2>1. \A q \in Slots : Unaffected(q)
    BY <1>7 DEF vars, Unaffected
  <2>2. QED
    BY <1>3, <1>7, <2>1, UnaffectedInv DEF vars, RemoteIsClean, NoneLocal
<1>8. QED
  BY <1>4, <1>5, <1>6, <1>7 DEF Next

LEMMA Invariance == Spec => []IInv
<1>1. QED
  BY InitInv, NextInv, PTL DEF Spec

-----------------------------------------------------------------------------
(* "Fetch from local database instead of remote": nothing that a command    *)
(* with --local wrote reaches the bucket, though the file it wrote to is    *)
(* the one that the next command opens, edits and uploads.                  *)
THEOREM LocalNeverUploaded == Spec => []LocalStaysLocal
<1>1. IInv => LocalStaysLocal
  BY DEF IInv, LocalStaysLocal, RemoteIsClean, NoneLocal
<1>2. QED
  BY <1>1, Invariance, PTL

-----------------------------------------------------------------------------
(* Only an upload hands a config out, and only to the slot's own user, for  *)
(* the link it has read.                                                    *)
LEMMA OnlyUploadSells ==
  ASSUME TypeOK, [Next]_<<vars, HostOf>>, NEW u \in Users, NEW l \in 0 .. MaxLinks,
         sold'[u][l] > sold[u][l]
  PROVE  \E r \in Slots : Upload(r) /\ buys[r] /\ u = UserOf[r] /\ l = record[r].link
<1>1. sold[u] \in [0 .. MaxLinks -> 0 .. 2] /\ sold[u][l] \in 0 .. 2
  BY DEF TypeOK
<1>2. sold' # sold
  BY <1>1
<1>3. \E r \in Slots : Upload(r)
  BY <1>2
     DEF Next, vars, Download, OpenLocal, Work, Open, Create, WriteFile, Lock, CreateBucket,
         CreateBucketFails, Handle, Read, RenewPeer, SpendLink, Touch, Update, Fault,
         SyncRemote, Close, UploadUnacknowledged, GiveUp, Crash
<1>4. PICK r \in Slots : Upload(r)
  BY <1>3
<1>5. Answered(r)
  BY <1>4 DEF Upload
<1>6. buys[r]
  BY <1>2, <1>5 DEF Answered
<1> DEFINE k == record[r].link
           n == sold[UserOf[r]][k]
           more == [sold[UserOf[r]] EXCEPT ![k] = IF n < 2 THEN n + 1 ELSE n]
<1>7. sold' = [sold EXCEPT ![UserOf[r]] = more]
  BY <1>5, <1>6 DEF Answered
<1>8. u = UserOf[r]
  <2> HIDE DEF more
  <2>1. u # UserOf[r] => sold'[u] = sold[u]
    BY <1>7 DEF TypeOK
  <2>2. QED
    BY <1>1, <2>1
<1>9. l = k
  <2>1. sold'[u] = more
    <3> HIDE DEF more
    <3>1. QED
      BY <1>7, <1>8 DEF TypeOK
  <2> HIDE DEF n
  <2>2. l # k => more[l] = sold[u][l]
    BY <1>1, <1>8
  <2>3. QED
    BY <1>1, <2>1, <2>2
<1>10. QED
  BY <1>4, <1>6, <1>8, <1>9

(* Before a config is answered, the object in the bucket holds its link as  *)
(* spent, and neither a failed upload nor the file of another program comes *)
(* in between; only a file that was rubbish from the download on is stored  *)
(* as rubbish.                                                              *)
THEOREM AnswerIsStored == Spec => AnsweredIsStored
<1>1. ASSUME IInv, [Next]_<<vars, HostOf>>, NEW u \in Users, NEW l \in 0 .. MaxLinks,
             Apart, sold'[u][l] > sold[u][l]
      PROVE  remote' = Corrupt \/ Spent(remote', u, l)
  <2>1. TypeOK /\ \A r \in Slots : SlotInv(r)
    BY <1>1 DEF IInv
  <2>2. PICK r \in Slots : Upload(r) /\ buys[r] /\ u = UserOf[r] /\ l = record[r].link
    BY <1>1, <2>1, OnlyUploadSells
  <2>3. pc[r] = "closed" /\ isRemote[r] /\ remote' = ThisFile(r)
    BY <2>1, <2>2 DEF Upload, SlotInv, Buying
  <2>4. /\ ThisFile(r) # Truncated
        /\ ThisFile(r) \in Database => ThisFile(r)[u] = record[r]
        /\ record[r].spent /\ ~record[r].local
    BY <2>1, <2>2, <2>3 DEF SlotInv, Buying, FileIsOwn, NothingLocal
  <2>5. record[r] \in Record /\ ThisFile(r) \in Contents
    BY <2>1, PlacesType DEF TypeOK, ThisFile
  <2>6. record[r] = [link |-> l, spent |-> TRUE, local |-> FALSE]
    BY <2>2, <2>4, <2>5 DEF Record
  <2>7. QED
    BY <2>3, <2>4, <2>5, <2>6 DEF Spent, Contents
<1>2. IInv /\ [Next]_<<vars, HostOf>> =>
        [\A u \in Users : \A l \in 0 .. MaxLinks :
           Apart /\ sold'[u][l] > sold[u][l] =>
             remote' = Corrupt \/ Spent(remote', u, l)]_vars
  BY <1>1
<1>3. QED
  BY <1>2, Invariance, PTL DEF Spec, AnsweredIsStored

-----------------------------------------------------------------------------
(* The refinement of CopyStore.  Between download and write the copy of a   *)
(* program is in its memory, afterwards it is its file.                     *)

Copy(r) ==
  IF pc[r] = "idle" \/ ~isRemote[r] THEN Truncated
  ELSE Held(IF pc[r] \in {"fetched", "created"} THEN data[r] ELSE ThisFile(r))

Copies == [r \in Slots |-> Copy(r)]

(* One program moves, as CopyStore lets a client move, or seems to rest.    *)
Moves(r) ==
  \/ remote' = remote /\ Copy(r)' = Copy(r)
  \/ remote' = remote /\ Copy(r) = Truncated /\ Copy(r)' \in {remote} \cup TornCopies(remote)
  \/ remote' = remote /\ Copy(r) \in Database /\ Copy(r)' \in Database
  \/ remote' = remote /\ Copy(r)' = Truncated
  \/ remote' = Copy(r) /\ Copy(r) # Truncated /\ Copy(r)' = Truncated

LEMMA MoveIsCopyStep ==
  ASSUME NEW r \in Slots, Moves(r), \A q \in Slots \ {r} : Copy(q)' = Copy(q)
  PROVE  Private!Next \/ UNCHANGED Private!vars
<1>1. Copies' = [Copies EXCEPT ![r] = Copies'[r]]
  BY DEF Copies
<1>2. Copies[r] = Copy(r) /\ Copies'[r] = Copy(r)'
  BY DEF Copies
<1>3. CASE remote' = remote /\ Copy(r)' = Copy(r)
  <2>1. Copies' = Copies
    BY <1>3 DEF Copies
  <2>2. QED
    BY <1>3, <2>1 DEF Private!vars, Copies, Copy
<1>4. CASE /\ remote' = remote /\ Copy(r) = Truncated
           /\ Copy(r)' \in {remote} \cup TornCopies(remote)
  <2>1. Private!Open(r)
    <3>1. Copies[r] = Truncated
          /\ Copies' \in {[Copies EXCEPT ![r] = got] : got \in {remote} \cup TornCopies(remote)}
      BY <1>1, <1>2, <1>4
    <3>2. QED
      BY <1>4, <3>1 DEF Private!Open, Copies, Copy
  <2>2. QED
    BY <2>1 DEF Private!Next
<1>5. CASE remote' = remote /\ Copy(r) \in Database /\ Copy(r)' \in Database
  <2>1. Private!Edit(r)
    <3>1. Copies[r] \in Database /\ Copies'[r] \in Database
      BY <1>2, <1>5
    <3>2. QED
      BY <1>1, <1>5, <3>1 DEF Private!Edit, Copies, Copy
  <2>2. QED
    BY <2>1 DEF Private!Next
<1>6. CASE remote' = remote /\ Copy(r)' = Truncated
  <2>1. Private!Drop(r)
    <3>1. Copies' = [Copies EXCEPT ![r] = Truncated]
      BY <1>1, <1>2, <1>6
    <3>2. QED
      BY <1>6, <3>1 DEF Private!Drop, Copies, Copy
  <2>2. QED
    BY <2>1 DEF Private!Next
<1>7. CASE remote' = Copy(r) /\ Copy(r) # Truncated /\ Copy(r)' = Truncated
  <2>1. Private!Upload(r)
    <3>1. /\ Copies[r] # Truncated /\ remote' = Copies[r]
          /\ Copies' = [Copies EXCEPT ![r] = Truncated]
      BY <1>1, <1>2, <1>7
    <3>2. QED
      BY <3>1 DEF Private!Upload, Copies, Copy
  <2>2. QED
    BY <2>1 DEF Private!Next
<1>8. QED
  BY <1>3, <1>4, <1>5, <1>6, <1>7 DEF Moves

LEMMA ForgetDrops ==
  ASSUME TypeOK, NEW r \in Slots, Forget(r)
  PROVE  Copy(r)' = Truncated
<1>1. pc'[r] = "idle"
  BY PlacesType DEF Forget, TypeOK
<1>2. QED
  BY <1>1 DEF Copy

LEMMA OpenMoves ==
  ASSUME TypeOK, RemoteIsClean, UNCHANGED HostOf, NEW r \in Slots, SlotInv(r),
         Download(r) \/ OpenLocal(r) \/ Open(r)
  PROVE  Moves(r)
<1> DEFINE h == HostOf[r]
<1>h. HostOf'[r] = h /\ h \in Hosts /\ Truncated \notin Database
  BY PlacesType, DBFileAssumption
<1>1. remote' = remote
  BY DEF Download, OpenLocal, Open, Create, WriteFile, Lock, CreateBucket, CreateBucketFails
<1>2. CASE Download(r)
  <2>1. /\ pc[r] = "idle" /\ pc'[r] = "fetched" /\ isRemote'[r] = TRUE
        /\ data'[r] \in {remote} \cup Torn(remote)
    BY <1>2, PlacesType DEF Download, Goto, TypeOK
  <2>2. Copy(r) = Truncated /\ Copy(r)' = Held(data'[r])
    BY <2>1 DEF Copy, Held
  <2>3. Held(remote) = remote
    BY DEF RemoteIsClean, Held
  <2>4. Copy(r)' \in {remote} \cup TornCopies(remote)
    BY <2>1, <2>2, <2>3 DEF TornCopies
  <2>5. QED
    BY <1>1, <2>2, <2>4 DEF Moves
<1>3. CASE OpenLocal(r)
  <2>1. isRemote'[r] = FALSE
    BY <1>3 DEF OpenLocal, TypeOK
  <2>2. Copy(r)' = Truncated
    BY <2>1 DEF Copy
  <2>3. QED
    BY <1>1, <2>2 DEF Moves
<1>4. CASE Create(r)
  <2>1. pc[r] = "fetched" /\ pc'[r] = "created" /\ UNCHANGED <<isRemote, data>>
    BY <1>4, PlacesType DEF Create, Goto, TypeOK
  <2>2. Copy(r)' = Copy(r)
    BY <2>1 DEF Copy, Held
  <2>3. QED
    BY <1>1, <2>2 DEF Moves
<1>5. CASE WriteFile(r)
  <2>1. /\ pc[r] = "created" /\ pc'[r] = "ready" /\ UNCHANGED isRemote
        /\ file'[h] = IF data[r] = Truncated THEN file[h] ELSE data[r]
    BY <1>5, <1>h, PlacesType DEF WriteFile, Rewrite, Goto, TypeOK
  <2>2. file[h] = Truncated
    BY <2>1 DEF SlotInv, FileIsOwn, ThisFile
  <2>3. Copy(r)' = Copy(r)
    BY <1>h, <2>1, <2>2 DEF Copy, Held, ThisFile
  <2>4. QED
    BY <1>1, <2>3 DEF Moves
<1>6. CASE Lock(r)
  <2>1. /\ pc[r] = "ready" /\ pc'[r] = "locked" /\ UNCHANGED isRemote
        /\ file'[h] = IF file[h] = Truncated THEN EmptyDB ELSE file[h]
    BY <1>6, <1>h, PlacesType DEF Lock, Goto, TypeOK
  <2>2. Copy(r)' = Copy(r)
    BY <1>h, <2>1 DEF Copy, Held, ThisFile
  <2>3. QED
    BY <1>1, <2>2 DEF Moves
<1>7. CASE CreateBucket(r)
  <2>1. pc[r] = "locked" /\ pc'[r] = "open" /\ UNCHANGED <<file, isRemote>>
    BY <1>7, PlacesType DEF CreateBucket, Goto, TypeOK
  <2>2. Copy(r)' = Copy(r)
    BY <1>h, <2>1 DEF Copy, Held, ThisFile
  <2>3. QED
    BY <1>1, <2>2 DEF Moves
<1>8. CASE CreateBucketFails(r)
  BY <1>1, <1>8, ForgetDrops DEF CreateBucketFails, Moves
<1>9. QED
  BY <1>2, <1>3, <1>4, <1>5, <1>6, <1>7, <1>8 DEF Open

LEMMA HandleMoves ==
  ASSUME TypeOK, UNCHANGED HostOf, NEW r \in Slots, SlotInv(r),
         Read(r) \/ RenewPeer(r) \/ SpendLink(r) \/ Touch(r)
  PROVE  Moves(r)
<1>1. CASE Read(r)
  <2>1. pc[r] = "open" /\ pc'[r] = "read" /\ UNCHANGED <<remote, file, isRemote>>
    BY <1>1, PlacesType DEF Read, Goto, TypeOK
  <2>2. Copy(r)' = Copy(r)
    BY <2>1 DEF Copy, Held, ThisFile
  <2>3. QED
    BY <2>1, <2>2 DEF Moves
<1>2. ASSUME NEW new \in Record, Update(r, new)
      PROVE  Moves(r)
  <2>1. /\ pc[r] = "read" /\ pc'[r] = "written"
        /\ ThisFile(r) # Truncated
        /\ ThisFile(r)' = Edited(r, record'[r])
        /\ record'[r] \in Record
        /\ UNCHANGED <<remote, isRemote>>
    BY <1>2, UpdateEffect
  <2>2. ThisFile(r) \in Contents /\ Truncated \notin Database
    BY PlacesType, DBFileAssumption DEF TypeOK, ThisFile
  <2>3. CASE isRemote[r]
    <3>1. Copy(r) = ThisFile(r)
      BY <2>1, <2>3 DEF Copy, Held
    <3>2. CASE ThisFile(r) \in Database
      <4>1. ThisFile(r)' \in Database
        BY <2>1, <3>2, DBFileAssumption DEF Edited, Database
      <4>2. Copy(r)' = ThisFile(r)'
        BY <2>1, <2>2, <2>3, <4>1 DEF Copy, Held
      <4>3. QED
        BY <2>1, <3>1, <3>2, <4>1, <4>2 DEF Moves
    <3>3. CASE ThisFile(r) = Corrupt
      <4>1. ThisFile(r)' = ThisFile(r)
        BY <2>1, <3>3, DBFileAssumption DEF Edited
      <4>2. Copy(r)' = Copy(r)
        BY <2>1, <2>3, <3>1, <4>1 DEF Copy, Held
      <4>3. QED
        BY <2>1, <4>2 DEF Moves
    <3>4. QED
      BY <2>1, <2>2, <3>2, <3>3 DEF Contents
  <2>4. CASE ~isRemote[r]
    BY <2>1, <2>4 DEF Copy, Moves
  <2>5. QED
    BY <2>3, <2>4
<1>3. record[r] \in Record
  BY DEF TypeOK
<1>4. CASE RenewPeer(r)
  <2>1. drawn + 1 \in 0 .. MaxLinks
    BY <1>4, DBFileAssumption DEF RenewPeer, TypeOK
  <2>2. [record[r] EXCEPT !.link = drawn + 1, !.spent = FALSE] \in Record
    BY <1>3, <2>1 DEF Record
  <2>3. QED
    BY <1>2, <1>4, <2>2 DEF RenewPeer
<1>5. CASE SpendLink(r)
  <2>1. [record[r] EXCEPT !.spent = TRUE] \in Record
    BY <1>3 DEF Record
  <2>2. QED
    BY <1>2, <1>5, <2>1 DEF SpendLink
<1>6. CASE Touch(r)
  BY <1>2, <1>3, <1>6 DEF Touch
<1>7. QED
  BY <1>1, <1>4, <1>5, <1>6

LEMMA EndMoves ==
  ASSUME TypeOK, UNCHANGED HostOf, NEW r \in Slots, SlotInv(r), SyncRemote(r) \/ GiveUp(r)
  PROVE  Moves(r)
<1>1. CASE Close(r)
  <2>1. pc[r] = "written" /\ pc'[r] = "closed" /\ UNCHANGED <<remote, file, isRemote>>
    BY <1>1, PlacesType DEF Close, Goto, TypeOK
  <2>2. Copy(r)' = Copy(r)
    BY <2>1 DEF Copy, Held, ThisFile
  <2>3. QED
    BY <2>1, <2>2 DEF Moves
<1>2. CASE Upload(r) \/ UploadUnacknowledged(r)
  <2>1. pc[r] = "closed" /\ remote' = IF isRemote[r] THEN ThisFile(r) ELSE remote
    BY <1>2 DEF Upload, UploadUnacknowledged
  <2>2. ThisFile(r) # Truncated
    BY <2>1 DEF SlotInv, FileIsOwn
  <2>3. isRemote[r] => Copy(r) = ThisFile(r) /\ Copy(r) # Truncated
    BY <2>1, <2>2 DEF Copy, Held
  <2>4. Copy(r)' = Truncated
    BY <1>2, ForgetDrops DEF Upload, UploadUnacknowledged
  <2>5. QED
    BY <2>1, <2>3, <2>4 DEF Moves
<1>3. CASE GiveUp(r)
  BY <1>3, ForgetDrops DEF GiveUp, Moves
<1>4. QED
  BY <1>1, <1>2, <1>3 DEF SyncRemote

LEMMA UnaffectedRests ==
  ASSUME NEW q \in Slots, Unaffected(q)
  PROVE  Copy(q)' = Copy(q)
BY DEF Unaffected, Copy, Held, ThisFile

LEMMA NextIsCopyStep ==
  ASSUME IInv, Apart, [Next]_<<vars, HostOf>>
  PROVE  Private!Next \/ UNCHANGED Private!vars
<1>1. TypeOK /\ RemoteIsClean /\ \A r \in Slots : SlotInv(r)
  BY DEF IInv
<1>2. UNCHANGED HostOf
  BY DEF Next, vars
<1>3. ASSUME NEW r \in Slots, Step(r)
      PROVE  Private!Next \/ UNCHANGED Private!vars
  <2>1. Moves(r)
    BY <1>1, <1>2, <1>3, OpenMoves, HandleMoves, EndMoves DEF Step
  <2>2. \A q \in Slots \ {r} : Copy(q)' = Copy(q)
    BY <1>1, <1>2, <1>3, StepIsLocal, UnaffectedRests
  <2>3. QED
    BY <2>1, <2>2, MoveIsCopyStep
<1>4. ASSUME NEW h \in Hosts, Crash(h)
      PROVE  Private!Next \/ UNCHANGED Private!vars
  <2>0. CASE \A r \in Slots : HostOf[r] # h
    <3>1. \A q \in Slots : Copy(q)' = Copy(q)
      BY <1>1, <1>2, <1>4, <2>0, CrashIsLocal, UnaffectedRests
    <3>2. Copies' = Copies /\ UNCHANGED remote
      BY <1>4, <3>1 DEF Copies, Crash
    <3>3. QED
      BY <3>2 DEF Private!vars, Copies, Copy
  <2> SUFFICES ASSUME NEW r \in Slots, HostOf[r] = h
               PROVE  Private!Next \/ UNCHANGED Private!vars
    BY <2>0
  <2>1. HostOf[r] = h
    OBVIOUS
  <2>2. Moves(r)
    <3>1. pc'[r] = "idle" /\ UNCHANGED remote
      BY <1>4, <2>1 DEF Crash
    <3>2. QED
      BY <3>1 DEF Moves, Copy
  <2>3. \A q \in Slots \ {r} : Copy(q)' = Copy(q)
    BY <1>1, <1>2, <1>4, <2>1, CrashIsLocal, UnaffectedRests DEF Apart
  <2>4. QED
    BY <2>2, <2>3, MoveIsCopyStep
<1>5. ASSUME UNCHANGED <<remote, file, pc, isRemote, data>>
      PROVE  UNCHANGED Private!vars
  BY <1>2, <1>5 DEF Private!vars, Held, ThisFile
<1>6. ASSUME NEW r \in Slots, Download(r) \/ OpenLocal(r) \/ Work(r) \/ GiveUp(r)
      PROVE  Step(r) \/ (Crash(HostOf[r]) /\ HostOf[r] \in Hosts)
  BY <1>1, <1>6, PlacesType DEF Work, Handle, Step, Fault
<1>7. QED
  BY <1>3, <1>4, <1>5, <1>6 DEF Next, vars

(* What Registry takes for granted of a client holds whenever programs do   *)
(* not share a file: from the download to the upload its copy is private,   *)
(* wherever the program keeps it, and whatever fails or dies in between.    *)
THEOREM PrivateCopies == Spec => CopiesArePrivate
<1>1. Init /\ Apart => Private!Init
  BY EmptyDBType DEF Init, Private!Init
<1>2. IInv /\ [Next]_<<vars, HostOf>> => [Apart => Private!Next \/ UNCHANGED Private!vars]_vars
  BY NextIsCopyStep
<1>3. QED
  BY <1>1, <1>2, Invariance, PTL DEF Spec, CopiesArePrivate
=============================================================================
