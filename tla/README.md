# wgadmin: specification, model checking and proofs

wgadmin administers WireGuard servers. Administrators run a command line tool,
users download client configurations from a web application, and two daemons on
every VPN host bring the WireGuard interface in line. Everything they share is
one bolt database file, stored as one object in a Google Cloud Storage bucket.
Nothing locks that object: every program downloads it, edits its copy and
uploads the copy over whatever is there. This directory models that system in
TLA+, checks it with TLC and proves its main properties with TLAPS.

Source paths below are relative to the repository; `PROJECT.json` maps every
definition to its lines.

## 1. Inventory

| Component | State | Operations | Interacts with |
|---|---|---|---|
| Peer object (`pkg/api`, `RoundTime` in `pkg/util`) | none: pure functions of an object and the clock | `GetPublicKey`, `GetStatus`, `IsExpired`, `ShouldAutoLock`, `GetExpirationDuration` | called by all others |
| Registry (`pkg/store`, `pkg/store/client`) | the object in the bucket; on each machine a local file and bolt's lock on it | open with `FetchFromGCS` or, with `--local`, without; `Get`, `Update`, `Delete`, `List`, `ListByServer`, `SearchByPubKey`; `SyncRemote` | shared by every process |
| CLI (`pkg/cli/servers.go`, `peers.go`) | none of its own | `server init/delete/list`, `peer add/block/unblock/apply/info/list` | one download and one upload of the registry per command |
| Web application, peers (`pkg/webapp`) | none of its own | `Peers` POST (renew) and GET (download) | concurrent requests on one local file |
| Web application, session (`pkg/webapp`) | a key drawn at every start; the allowed domains; a cookie in each browser | `Index`, `Signin`, `Signout` | the browser, its tabs and the clock |
| sync-servers (`pkg/cli/daemons.go`) | the configuration file, the `.dirty` marker, the interface | `fetchState`, `checkDirty`, `setDirty`, `conciliateState` | reads the registry; runs wg-quick |
| sync-peers (`pkg/cli/daemons.go`) | the peers of the interface; its position in a pass | revoke, show, prune, show, add | reads the registry; runs `wg`; shares interface, database file and lock with sync-servers |
| systemd units (`pkg/systemd`) | the units | install, stop, `Restart=always` | restart the daemons |
| IP allocation (`util.IPMap`) | a set of free addresses per command | `NewIPMap`, `Del`, `IsAvailable`, `Pop` | `peer add`, `peer apply` |
| Keys and encryption | who holds which cipher key and key pair | key generation, AES | `server init`, client configs |

What is hard in this code, and what makes each part correct:

* **Registry.** Lost updates between download and upload; uploads that fail, or
  succeed without an answer; a download that breaks off unnoticed and leaves a part
  of the database, or rubbish; a cursor that depends on the order of keys. Correct
  means: no two peers of a server share an address, a peer has a download link or a
  key and never both, a config is only handed out when its key is stored, a link buys
  one config, and a blocked peer gets none.
* **The local file.** It is truncated before it is locked, read again after the
  lock is given up, and locked without a timeout; handles are lost on an error and
  keep the lock until their process ends. Correct means: a program works on the copy
  it downloaded, `--local` stays local, every program ends.
* **Leases, addresses, lookups.** Durations that overflow, timestamps without a
  fraction, addresses that wrap around, keys that hide other keys. Correct means:
  each agrees with a plain definition of what it should compute.
* **Sessions.** A cookie outlives the key that signed it and the configuration that
  allowed it. Correct means: nobody is served whom the server would not sign in
  now, and nobody is locked out for good.
* **sync-servers.** A pass writes two files and restarts an interface, and may be
  cut between any two of these. Correct means: a stale interface or half a file
  is never taken for up to date, and the interface eventually runs what the
  registry says, as soon as the host can read it: an override may encrypt the private
  key with a cipher key the host does not have.
* **sync-peers.** A pass takes three readings of the world at different moments
  while four other parties change it. Correct means: an undisturbed pass leaves
  exactly the keys to be served and interrupts none; a revoked key is gone and
  stays so; in the end the interface converges.
* **Both daemons on a host.** Each undoes some of the work of the other, and one
  waits for a lock the other holds for whole passes. Correct means: together they
  still settle.

`PROJECT.json` lists the hazards at their lines, each with the properties that
would notice it going wrong, or the reason why none does.

## 2. Modules

`Peer.tla` is the pure part, extended by the others. Keys and secrets are
numbers (0 is the nil key and the empty secret), time counts ticks, and
`Resolution` ticks make a second. A timestamp is a number; the zero `time.Time`
is `ZeroTime`. `Overflows` keeps the one place where 64 bits matter: with an
unknown action and no duration `RoundTime` overflows to a positive lease.

`CopyStore.tla` is the abstract specification of the store: an object that every
client copies, edits in private and writes back whole. A copy is the object or, if
the download broke off, something `Torn` made of it. It promises nothing more, in
particular nothing about two clients that overlap.

`Registry.tla` has the object (`remote`), and for each concurrent command or
request (`Actors`) its copy (`local`) and its place (`pc`). A command is three
kinds of step: `Fetch` or `FetchTorn`; an edit of the copy, one action per
command (`InitServer`, `PeerAddGivenKey`, `RenewPeer`, `DownloadConfig`, ...)
with all its checks as guards; and `Upload`, `UploadUnacknowledged` or `Abandon`.
Every early return, failed call or killed process is `Abandon`, which is possible
at every point. `Torn` is what bolt may find in a download that broke off: nothing, or
some of the peers and servers. A file in which it does not find its way kills the
command (`Abandon`) or is what `DBFile` calls `Corrupt`. `peer apply` is a loop whose rounds are steps (`ApplyEntry`).
`links` and `configs` are history: what users were shown. That an edit is one
step, on a copy nobody else touches, is an abstraction: `Registry` implements
`CopyStore` (`WorksOnCopies`), and `DBFile` shows that the files do too.

`DBFile.tla` is the store as it is built: download, create (which truncates), write,
lock, bucket, transactions, close, read again, upload, with `--local` and every
failure. A download that breaks off is written as far as it came (`Torn`): an empty
file, one that lists fewer records, or `Corrupt`, of which a request may read anything
(`Found`) and which it uploads as rubbish (`Edited`). Slots of one host share `file` and `holder`. `HostOf`, chosen at the
start, says which slots do; if none do (`Apart`) the module implements `CopyStore`
(`CopiesArePrivate`). A handle that New lost keeps the lock (`Leaked`) until its process
ends: the garbage collector closes the file, but not the mapping, and the mapping keeps
the lock. A page that bolt may hand out twice after its file was
replaced is the outcome `Corrupt`, and a mapping that was cut is `Fault`.

`KeySearch.tla` is the cursor of `Search` over keys in the order of their bytes. A
character is a number and a key a sequence of them: a slash, the word "peers" or
"wgsconfig", a slash, a name. The expression `<server>/.+` is not anchored, so it looks
for the name wherever a slash follows, in the word too: a server called `s` matches
every key below `/peers/`. The module derives what `Registry` takes as the constant
`Shadows`: the names that hide the peers of another (`HiddenOrExact`). A name in the
expression stands for itself; characters that mean something else there, like the dot,
are left out.

`IPAlloc.tla` is the loop of `NewIPMap` address by address, the loop of `buildIPMap`
peer by peer, and the checks and masks of `peer add` and `peer apply`. It derives
what `Registry` takes as the available hosts (`MapIsExact`).

`Lease.tla` follows one peer by a clock finer than a second and keeps as history
when things really happened. It also computes `RoundTime` and `time.Time.Sub` with
a width, where `Peer` has a case distinction (`WidthIsModelled`).

`Session.tla` has the server's key and domains, one browser with its cookie and
tabs, and the requests and answers between them. A request carries the cookie of
when it was sent, an answer changes the cookie when it arrives.

`ServerKeys.tla` looks at one server only, but at its keys: which pair and cipher
key are in the bucket and in each copy, which were printed, which pair is in the
client config.

`SyncServers.tla` follows `conciliate` call by call. File, marker and interface
outlive the process; `Crash` and `Reboot` may come at any point, and writing the
file is two steps because `WriteFile` truncates first. `ChangeServer` is any edit of
the server; without `--cipher-key`, or by a delete, it leaves one the host cannot read
(`Unreadable`), and then `fetchState` fails in every pass (`FetchFails`).

`SyncPeers.tla` follows `conciliate` command by command, with an index into the
listing for the loops over it and the set of keys left for the loop over
`wg show`. `dbfile` is the database file that `SearchByPubKey` reads again each
time and that sync-servers may have rewritten (`Refetch`). Either download may be torn
(`FetchTorn`); the listing is then a prefix of the registry's, since the cursor stops at
the first key that is not there. Interference:
`ChangeRemote`, `Tick`, `Refetch`, `InterfaceDown`, `InterfaceUp`, `Crash`. `dirty`
is the counter of the code as a flag; `quiet` is history: whether anybody else
acted since the pass began.

`Host.tla` composes the two. It EXTENDS `SyncServers` and INSTANCEs `SyncPeers` over
shared variables: `iface` of the one is `up` of the other, `RestartPeers` empties `keys`
whenever wg-quick acts, and `dbfile` and `dbserver` are what is in the one database file.
Either daemon opens the registry in two steps, as the code does: it downloads over
whatever is there, without asking for the lock (`DownloadState`, `DownloadPeers`, and
their torn variants), and then waits for the lock (`Lock`, `LockPeers`), so that it reads
what the last download of either left. Creating the file and writing it are one step
here; the file as just created is what a torn download with nothing leaves. The
interference of SyncPeers (`Refetch`, `InterfaceDown`, `InterfaceUp`) is bounded to
zero and comes from sync-servers instead; `HostReboot` takes both down. The pass of
sync-servers is cut as finely as in its own module, any of its calls may return an
error (`ServersGiveUp`, `ReadFails`), and so may the open of either (`OpenFails`).

`MCx` holds the instance of module `x` for TLC. Two of them hold several modules that
share no state: `MCBuildIPMap` has `KeySearch` and `IPAlloc`, on which `buildIPMap` rests,
and `MCCredentials` has `Lease`, `ServerKeys` and `Session`, which say how long a credential
is good for. A step there is a step of one of them, and TLC lets only one leave its
beginning (`KeysWait`, `LeaseTurn` and so on), so it explores the sum of them and not the product.
`xProofs` holds the theorems about `x`:
`RegistryProofs`, `DBFileProofs`, `ServerKeysProofs`, `SessionProofs`, `LeaseProofs`,
`SyncPeersProofs`; `HostProofs` has those about `SyncServers` and `Host`, and
`BuildIPMapProofs` those about `IPAlloc` and `KeySearch`. An operator commented "Slip" is a faulty
variant of the operator after it. It is no part of the model: substituted for the
right one it must make a property fail, which shows that the property says
something about the code.

## 3. Runs

| Run | Checks | Shows |
|---|---|---|
| Registry | `TypeOK`, `LinkExcludesKey`, `UniqueAddresses`, `ExpiredStaysExpired`, `ConfigIsStored`, `WorksOnCopies` | administrators, a web request and the clock: links, keys and expiry stay coherent; two administrators who add, move and swap addresses at the same time never make two peers share one; the registry implements CopyStore |
| RegistrySequential | `OneConfigPerLink` | it holds if commands do not overlap, even when downloads are torn and uploads fail or go unanswered |
| RegistryTwoDownloads | `OneConfigPerLink` | *violated* by two overlapping GETs |
| RegistryShadowed | `UniqueAddresses` | *violated* if the name of one server hides the peers of another |
| DBFile | `TypeOK`, `LocalStaysLocal`, `CopiesArePrivate`, `AnsweredIsStored`, `Terminates` | on machines of their own programs work on private copies, of whole or torn downloads; on a shared one every program gets the lock and ends, unless a handle is lost with it |
| BuildIPMap | `TypeOK`, `MapIsExact`, `AddressesDiffer`, `FitsUntilMoved`, `Terminates`; `ListsAreComplete`, `HiddenOrExact`, `AllOrNone` | the loops find exactly the free addresses, for every kind of network, and only a move of the server misplaces a peer; a listing by server is complete, or empty when a name hides it, never a part |
| IPAllocOverlap | `NoOverlap` | *violated* by an address with a mask |
| Credentials | `LeaseIsExact`, `LinkIsShort`, `ListIsKept`, `WidthIsModelled`; `KeyIsKnown`, `ConfigFitsServer`; `ServedIsAllowed`, `LockoutEnds` | rounding costs at most a second and a half and never prolongs, overflow is as `Peer` has it; stale and failed uploads leave a server that somebody can open and configs that fit it; restarts with other domains take effect at once, and a refused cookie goes away |
| LeaseNever | `PersistentNeverExpires` | *violated* by a persistent key with an expire action |
| SyncServers | `TypeOK`, `CleanRunsFile`, `CleanIsUp`, `SynchronizedOrDown` | the marker protocol is right at every point of failure |
| SyncPeers | `TypeOK`, `PassIsExact`, `RevokedIsGone`, `NoInterruption`, `Converges` | a pass does what it should; revocation survives interference; the interface converges |
| Host | `PassIsExact`, `GetsLock`, `HostConverges` | the two daemons share a host without undoing each other for good, and neither starves the other |

Each of the four violated ones contradicts a text of the repository, a comment or the
help of a flag, which is quoted in `PROJECT.json` under "findings".

It is worth a word why overwriting is harmless for `UniqueAddresses` and
`LinkExcludesKey`: an upload replaces the whole object, so the object is always a
copy that one command made from one earlier object, or from a part of it, and each edit
keeps these properties. What races break is history: what was shown to users.

One thing that goes wrong has no property: the GET handler looks at the phase in the
copy it downloaded, so a "peer block" that is uploaded after that neither stops the
config nor survives the upload of the old copy, although `PeerBlocked` is said to be
"unable to download a configuration" (`pkg/api/types.go`). Restricted to what holds, a
property about it only repeats the guard of `DownloadConfig`.

Some properties have an exception in their statement because the code does not
promise more, and TLC finds a counterexample at once without it:

* A config may be answered with an object in the bucket that is rubbish, if the download
  was (`AnsweredIsStored`): a GET on a torn file can read a link that bolt still finds,
  answer, and upload a file with pages missing.
* Two programs that share a file may upload the download of each other, and what
  `--local` wrote (`Apart` in `DBFile`). The requests of one web application do
  share a file.
* Programs wait for a lock that a lost handle keeps until its process ends
  (`Terminates` of `DBFile`).
* One peer of a server `vpn-a` empties the listing of the server `vpn` (`HiddenOrExact`,
  RegistryShadowed), and the listing of `vpn` has the peers of `vpn-vpn` too.
* `server init --override` may take the address of a peer or leave its network: only
  what is given out fits (`FitsUntilMoved`).
* A token posted in its last second makes a cookie without an expiry (the
  exception in `LockoutEnds`).
* A cipher key is printed after the upload; if the upload took effect but reported an
  error nobody knows it (`unreported` in `ServerKeys`). After an override, configs
  handed out before no longer connect.
* After a reboot sync-servers leaves the interface down until the server is edited: file
  and registry agree, there is no marker, and nothing looks whether there is an
  interface. With a server it cannot read it leaves everything as it is, a pass that was
  cut included (`SynchronizedOrDown`).
* "peer list" says "never" of a persistent key with an action; `ListIsKept` says that it
  is served to the end of the lease that is not shown (LeaseNever).
* sync-peers does not give a key on the interface another address.

### Bounds

* *Registry*: one server, two users, two free hosts, which is what a clash of addresses
  needs; a peer that was downloaded before (a renewal must drop its key); two
  administrators and a request; manifests that swap the addresses of both peers, that
  move one and that make one never expire; one tick, two random values: one renewal and
  one download, with a lease and a link of one tick, so both run out. `TimeOrAddresses`
  keeps TLC to two stories: one administrator, the request and the clock about one peer
  that does not move (`OnePeerInTime`), and two administrators about the addresses of two
  peers while the clock stands still, on which addresses do not depend
  (`TwoPeersAtOnce`). The administrators are alike (`SYMMETRY`), which is sound because
  no property is a liveness property. The theorems cover every size and every mixture.
* *RegistrySequential*: one slot that runs either kind of command; four random
  values allow two renewals and two downloads, two ticks.
* *DBFile*: one user, two slots that work on the same record, one of them with `--local`,
  on hosts of their own or on the same one; one link. `LinksOrLostHandles`: on hosts of
  their own no handle is lost, and on the same one no link is drawn, which the lock has
  nothing to do with.
* *BuildIPMap* and *Credentials*: each of their modules to its own bounds, the others
  waiting.
* *KeySearch*: the fourteen names of up to three characters from "-", which is before
  the slash, and "s", which is after it: prefixes, suffixes and both. The word for peers
  is a letter and "s", so one name is its suffix, as `s` is of "peers". Two users, up to
  three keys at a time: the listed server's, one in its way, one more. The theorems
  cover all names and any number of keys.
* *IPAlloc*: addresses of four bits with a last byte of two; networks inside a byte,
  across bytes up to the last address, and of all addresses; two peers.
* *Lease*: five ticks to a second; durations of seven bits, of which the largest, 63,
  rounds up and overflows; 22 ticks.
* *Session*: a user who is verified and one who is not; two tabs; two restarts, each with the domain
  allowed or not, so it can be withdrawn and given back; a session of two seconds.
* *ServerKeys*: two commands that overlap, one given key, three random values.
* *SyncServers*: two configurations (the daemon only compares them) and one that cannot
  be read, two edits, two crashes, one reboot.
* *SyncPeers*: up to two peers, two keys, listings with an expiring, a blocked,
  a renewed, a contested, a missing, two misspelt and a lone entry; one edit, one
  tick, and two of one download by sync-servers, one bounce of the interface, one crash,
  one torn download or pass-ending error (`TwoDisturbances`). The theorems cover every size.
* *Host*: two configurations and one that cannot be read, one peer that is blocked or
  not and expires; one error, torn download, crash or reboot, and one edit or tick
  (`OneFaultOneEdit`). The two configurations are alike, so the first is not the second. More
  is what the modules of the two daemons explore, and the theorems cover.

`TimeOrAddresses`, `LinksOrLostHandles`, `TwoDisturbances`, `OneFaultOneEdit`, the waiting of
`MCBuildIPMap` and `MCCredentials`, `MaxTime`, `MaxDrawn`, `MaxLinks`, `MaxKeys`,
`MaxTokenLife`, `MaxChanges`, `MaxRefetches`, `MaxErrors`, `MaxBounces`, `MaxCrashes`,
`MaxReboots` and `MaxRestarts` are the only bounds: the first four are constraints of
TLC, the others guards. The constraints on counters cut nothing off that comes back, since
those never go down. Deadlock is checked in every run; nothing
here ever stops.

### Fairness

The daemons' control loops run for ever (`WF(Daemon)`, `WF(Pass)`), and systemd
restarts them. A call that is tried in pass after pass
must not fail every time: strong fairness of each call of sync-servers
succeeding, and of each `wg set` of sync-peers per key. Strong, because the call
is not continuously enabled: the daemon goes to sleep in between. Nothing is assumed of
a registry that cannot be read: reading it is not enabled, every pass fails, and the
liveness properties say nothing of the interface for as long as it is so. `InterfaceUp`
is weakly fair because sync-servers guarantees it (`SynchronizedOrDown`; a reboot
is outside SyncPeers, and `Host` does without the assumption). Errors that end a
whole pass of sync-peers are bounded rather than fair.

bolt asks for its lock every 50 ms, so a lock that is free again and again is got in
the end: `SF(Lock)` in `DBFile` and `Host`, `SF(LockPeers)` in `Host`, and strong fairness
of beginning a pass in `SyncPeers`. In `DBFile` a program that runs goes on, and nothing
has to give a lost lock back; in `IPAlloc` a command goes on. In `Session` only
time is sure to pass, in `ServerKeys`, `KeySearch` and `Lease` nothing is. Nothing is
assumed of administrators, users or, elsewhere, the clock.

`Converges` leaves *contested* keys out: a key that one peer is to lose and
another to have. Every pass takes it away and gives it back, so the interface
never settles for it.

## 4. Proofs

All proofs are checked by TLAPS for every value of the constants that satisfies
the named assumptions of their modules. Most of these give the constants their
types or say that a model value such as `NoPeer` is not one of the things it stands
apart from. Four say more:

* `InputAssumption` (`Registry`): the first object has unique addresses, and no link
  beside a key; neither have the status entries of manifests.
* `PowersOfTwo` (`IPAlloc`): 2 ^ n is a positive number. The provers do not know `^`.
* `LeaseAssumption` (`Lease`): the program runs for less than a Duration can hold.
* `KeySearchAssumption` (`KeySearch`): a name is not empty and has no slash in it, and
  "peers" and "wgsconfig" begin differently.

Where a theorem needs more it says so as a hypothesis, by name: `NothingShadowed`,
`NewManifests`, `NewDraws`, `OneAtATime`, `DurationsFit`. Each of them holds of the
instance on which TLC finds the property to hold.

**RegistryProofs.** `TypeCorrect` needs one more fact, `Applying`: a slot in the
apply loop has an entry left. The other theorems sort the steps of `Next` by what
they do to an object, once for each kind of question.

*What is stored.* `Edit` says what a command may do to a copy (`ProperEdit`: store
one peer with an address that was available or its own, and an exclusive status);
`NextStep` proves that every step either uploads a copy or leaves the object, and
that every copy stays, is fetched, or is edited so. Then a property of databases
that holds of the object and of all copies (`AllUnique`, `AllExclusive`) is
inductive if an `Edit` keeps it.
* `AddressesNeverShared`: `[]UniqueAddresses`, under the hypothesis
  `NothingShadowed`. It is needed: two servers of which one hides the keys of the
  other are a counterexample, and `HiddenOrExact` says which names do.
* `LinksExcludeKeysAlways`: `[]LinkExcludesKey`.
* `ConfigsAreStored`: `ConfigIsStored`, from `ReplyStored`: a config waiting for
  its upload is stored in the copy to be uploaded.
* `RegistryIsCopyStore`: `WorksOnCopies`, the refinement. `NextIsCopyStep` gives
  for each action the action of `CopyStore` it implements: a download opens a copy, all
  commands and each entry of a manifest edit their own, the end of a command drops the
  copy or puts it in the place of the object; a tick changes nothing there. A torn copy
  is a part of the object (`Part`), and all that is proved of databases holds of a part of
  one if it holds of the whole.

*Where a link or a key comes from.* `NextSorted` sorts the steps as `Opens`, `Works`,
`Renews`, `Downloads`, `Ends`: only a renewal draws a link, only a download draws a
key, and every other edit passes the status of a peer on, together with the start
of its lease, or forgets it. `NewManifests` (manifests carry no status) and
`NewDraws` (the first object has no value that is still to be drawn) keep it so; a
manifest with a status could bring in a value from nowhere. `DrawInvariant` proves
from it that no copy holds a value before it is drawn.
* `ExpiredIsFinal`: `ExpiredStaysExpired`. A stale upload may bring an old version of a
  peer back, so the object alone is no invariant: `OneLease` says of any two versions,
  in the object or in copies, that the same key has the same start of its lease. A key
  that has expired in one version has then expired in all of them with the action
  "reset", and time only adds to that.
* `LinkBuysOneConfig`: `[]OneConfigPerLink` with one slot (`OneAtATime`). That a link is
  spent is not enough: the object can still hold it while the config waits, and a
  failed upload leaves it there. The invariant says that a link is drawn once
  (`LinksDrawn`, `SecretsOnce`), that what waits is the first config for its link
  (`WaitingIsFirst`), and that a link that has bought one is in no database any more
  (`SpentIsGone`). Without `OneAtATime` it is false, as the run RegistryTwoDownloads
  shows; without `NewManifests` too: a manifest with the spent link, applied after a
  download that broke off and lost the peer, revives it.

**DBFileProofs.** `TypeCorrect` holds of every placement of programs on hosts. The
others concern programs that share no file (`Apart`). `SlotInv` says what such a program
knows of its host: it has the lock exactly from Lock to Close (`LockIsOwn`), the file
is empty, a database, rubbish, or holds the record as it was written, depending on how
far the program is (`FileIsOwn`), and, unless the program runs with `--local`, has nothing in it that was
(`NothingLocal`). A step of one program leaves alone what belongs to another
(`Unaffected`), so each step needs to be looked at for its own slot only.
* `LocalNeverUploaded`: `[]LocalStaysLocal`.
* `AnswerIsStored`: `AnsweredIsStored`, from `Buying`: what a program is to answer with is a
  spent link in the file it uploads, unless that file has been rubbish from the download on.
* `PrivateCopies`: `CopiesArePrivate`, the second refinement of `CopyStore`: creating,
  locking, mapping and writing the file are stutters or edits, whatever dies in between, of
  a copy that is the object or one of the `TornCopies` of it. Rubbish that is edited stays
  rubbish, which the abstract store sees as no step.

**ServerKeysProofs.** The object may be replaced by any copy at any time, so the
invariant says of each copy what `KeyIsKnown` says of the object: the private key in it
opens with a key that is known, or that the command is about to print
(`CopyIsKnown`). `EditInv` proves it for all edits at once.
* `KeyStaysKnown`: `[]KeyIsKnown`.
* `ConfigsFit`: `ConfigFitsServer`, from `AnswerFitsCopy`.

**SessionProofs.** `OnlyAllowedAreServed`: `ServedIsAllowed`. A cookie is `Sound` if the
present key does not open it or its user is allowed by the present configuration.
It must be so wherever a cookie is: in the browser, in a request sent before a
restart and in an answer that has not arrived (`TabInv`). A restart keeps it so because
it draws a new key.

**BuildIPMapProofs.** `buildIPMap` lists the peers of a server and takes their addresses
away, so the two modules about it are proved side by side.

*What the listing finds.* Keys are compared position by position, so the first half is
about sequences: `Order`, `Prefixes` and `Suffixes` turn the operators into statements
about positions, `OrderIsStrict` and `PrefixFirst` say that keys with a prefix lie next
to each other, at the place where the cursor starts. Hence `Found`: the cursor
finds a key exactly if all it passes on the way match. `PrefixOfPeer` and `MatchingPeer`
then say what prefix and expression mean for the parts of a key: a peer key has
three slashes (`Slashes`), and a name and a slash can only be found at the second or
third. `ShadowsComeFirst` compares two keys at the place where the shorter name ends.
The invariant itself is small (`KeysOK`: what is stored is a key).
* `ListsComplete`: `[]ListsAreComplete`.
* `HiddenExactly`: `[]HiddenOrExact`. This is what `Registry` assumes of `Shadows`.
* `ListingAllOrNone`: `[]AllOrNone`.

The proof showed what the first version of the model had missed: `Shadows` is only right
for names that are not a suffix of the word "peers".

*What the loops compute.* Three lemmas on division say that masking cuts the addresses into
blocks without gaps (`MaskIsFirst`, `NetworkIsConvex`). So the loop, which only ever
tests the next address, has seen all of the network below it (`LoopInv`), also when
the increment wraps around; `DelInv` says the same of the loop over the peers.
* `TypeCorrect`: `[]TypeOK`.
* `MapExact`: `[]MapIsExact`.
* `NoSharedAddress`: `[]AddressesDiffer`.
* `OnlyMovesMisplace`: `FitsUntilMoved`, an action property: what the map offers lies in the
  network and is not the server's, so only `InitServer` can make a peer unfit.

**LeaseProofs.** The invariant is that both timestamps are the stamps of the instants
in the history, and that durations and instants have their types. The work is in the
arithmetic: what a stamp loses (`StampIs`), what rounding changes (`RoundTimeIs`), what
is left of a duration that saturates.
* `LeaseExact`: `[]LeaseIsExact`. `LinkShort`: `[]LinkIsShort`. `ListKept`: `[]ListIsKept`,
  with the three cases of what is shown: a time, "never" without an action, and "never" of a
  persistent key that has one, where what is served ends with the lease all the same.
* `WidthModelled`: `[]WidthIsModelled`, under `DurationsFit`: facts of arithmetic on the width,
  which the 64 bits of Go and the seven of the run both satisfy, and leases of a second at least.

**SyncPeersProofs.**
* `RevokedStaysGone`: `[]RevokedIsGone`. The strengthening `RevokedSoFar` says it
  of the peers that the first loop has passed. Later only the add loop puts keys
  on the interface, and a peer it adds is not blocked. The listing may be
  torn (`Downloads`): a pass that reads one is not `quiet`, and what it is told to revoke it does.
* `PassesAreExact`: `[]PassIsExact`. `Exact` says, as long as the pass is quiet and
  no command failed, what each loop has achieved: `Revoked`, `Pruned`, `Listed`,
  `Added`. The three loops meet in step ShowToAdd of `WorkExact`: each key left has
  an active peer (pruning), which is not due for locking (revoking), so it is
  served.
* `ServedKeysStay`: `NoInterruption`, an action property, from the same invariant.

**HostProofs.** *sync-servers alone.* `MarkerInv` adds to the properties that the marker is
there from before the file is touched (`Marked`), that the pass knows what it
wrote (`Rendered`, `Written`), and that it removes the marker only when the
interface runs the file (`Running`). `CleanRunsFile` alone is not inductive:
nothing in it says that the marker stands while the file is being written.
* `TypeCorrect`: `[]TypeOK`. `NeverStaleAndClean`: `[]CleanRunsFile`. `CleanMeansUp`: `[]CleanIsUp`.

*Both daemons.* The theorems about sync-peers are used once more, of the instance that is
part of the host: `PeersStepIsNext` shows that the steps of sync-peers, of
administrators and of the clock are steps of `SyncPeers` there, and `ForeignStep` that
the other steps, which replace the database file or empty the interface, keep its
invariants, because a pass they disturb is no longer `quiet`. `HostInv` joins both halves
with three facts that tie them together: sync-servers has a client only between two of
its passes (`Waiting`), a download leaves what the registry held of the server, or none
(`Downloaded`), and an interface that does not exist has no peers (`NoPeers`), which needs that
without one sync-peers adds nothing (`DownKeepsKeys`).
* `HostPassesAreExact`: `[]PassIsExact` of `Host`.
* `HostNeverStaleAndClean`: `CleanRunsFile` and `CleanIsUp`, although sync-servers now writes what it
  finds in a file that may be older than the registry, and sometimes finds nothing it can read.
* `HostRevokedStaysGone`, `HostServedKeysStay`: `RevokedIsGone` and `NoInterruption` of `SyncPeers`,
  on the host.

**Only model-checked.** Liveness, which is beyond this prover: `Converges`,
`SynchronizedOrDown`, `GetsLock`, `HostConverges`, `LockoutEnds`, `Terminates` of `DBFile` and of
`IPAlloc`. Every invariant and every action property that a passing run checks is also a
theorem. The properties that a run violates are, of course, neither.

## 5. Not modelled

* Data: key encoding, Curve25519, AES and its padding, base64, templates, output
  formats. An encrypted key opens with its cipher key and no other.
* The sign-in page of `Signin`, which has no state, and the signature of the token,
  which the code does not verify.
* Durations that are negative: the flags and manifests accept them, and no text says
  what they mean. Nor the branch of
  `GetDeltaDuration` for years.
* IPv6. `NewIPMap` tests byte 3 for zero, which is the last one of an IPv4 address
  only: with a zero there no IPv6 address would ever be free.
* How long the address loop takes, and how much memory: a /8 is a long loop that ends.
* systemd itself. `install-daemons` writes two constant files and makes D-Bus calls
  once, by hand; only `Restart=always` matters at run time.
* Terraform, Kubernetes, build files: no program logic.
* Buckets, `NewInstance`, `Transaction` and the delete method of peers have no caller.

## 6. Plan

Built, in this order: `Peer`, `Registry` with its runs and proofs, `SyncServers`,
`SyncPeers`, their proofs, `CopyStore`, `DBFile`, `KeySearch`, `IPAlloc`, `Lease`,
`Session`, `ServerKeys`, `Host`, and the proofs of section 4, those of `Host` and
`KeySearch` last. Nothing of the plan is left. Two extensions would be worth their while:

1. Names with characters that mean something in an expression, in `KeySearch`.
2. IPv6 in `IPAlloc`, once the code supports it.
