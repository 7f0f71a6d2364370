----------------------------- MODULE SyncServers -----------------------------
(***************************************************************************)
(* The "sync-servers" daemon of one host (pkg/cli/daemons.go): it keeps the *)
(* wg-quick configuration file, and the WireGuard interface wg-quick makes  *)
(* from it, equal to the server configuration in the registry.              *)
(*                                                                          *)
(* Three things outlive the process: the configuration file, the marker     *)
(* file "<config>.dirty", and the interface, which the kernel keeps until   *)
(* the host reboots.  The marker is there so that a pass cut short between  *)
(* writing the file and restarting the interface is done again.             *)
(***************************************************************************)
EXTENDS Naturals

CONSTANTS
  Configs,              \* rendered configurations, compared by their hash
  Unreadable,           \* the registry holds nothing the host can render
  NoFile, Partial,      \* the file does not exist; it was cut while written
  Down,                 \* there is no interface
  MaxChanges,           \* bound: edits of the server in the registry
  MaxCrashes,           \* bound: times the daemon dies and is restarted
  MaxReboots            \* bound: reboots of the host

ASSUME SyncServersAssumption ==
  /\ {NoFile, Partial, Down, Unreadable} \cap Configs = {}
  /\ NoFile # Partial /\ Partial # Down /\ NoFile # Down
  /\ MaxChanges \in Nat /\ MaxCrashes \in Nat /\ MaxReboots \in Nat

VARIABLES
  registry,    \* the configuration the registry holds for this server; not
               \* to be read if the server is not there, or its private key
               \* was encrypted with another cipher key than the host's
  file,        \* content of the configuration file
  dirty,       \* whether the marker file exists
  iface,       \* the configuration the interface was brought up with
  pc,          \* where the daemon is
  localData,   \* the file as fetchState read it
  remoteData,  \* the configuration as fetchState read and rendered it
  changes, crashes, reboots

env == <<registry, changes, crashes, reboots>>
vars == <<registry, file, dirty, iface, pc, localData, remoteData,
          changes, crashes, reboots>>

Contents == Configs \cup {NoFile, Partial}
Registries == Configs \cup {Unreadable}

TypeOK ==
  /\ registry \in Registries
  /\ file \in Contents
  /\ dirty \in BOOLEAN
  /\ iface \in Contents \cup {Down}
  /\ pc \in {"sleep", "compare", "mark", "write", "written", "down", "up", "clear"}
  /\ localData \in Contents
  /\ remoteData \in Contents
  /\ changes \in 0 .. MaxChanges
  /\ crashes \in 0 .. MaxCrashes
  /\ reboots \in 0 .. MaxReboots

(* A freshly installed host.                                                *)
Init ==
  /\ registry \in Registries
  /\ file = NoFile
  /\ dirty = FALSE
  /\ iface = Down
  /\ pc = "sleep"
  /\ localData = NoFile
  /\ remoteData = NoFile
  /\ changes = 0 /\ crashes = 0 /\ reboots = 0

-----------------------------------------------------------------------------
(* One pass of the loop.  An error ends the pass; the next one starts after *)
(* SyncTime, or after the restart of a daemon that is not a control loop.   *)

Goto(from, to) == pc = from /\ pc' = to

EndPass == pc' = "sleep" /\ localData' = NoFile /\ remoteData' = NoFile

(* fetchState.                                                              *)
FetchState ==
  /\ registry \in Configs
  /\ Goto("sleep", "compare")
  /\ localData' = file
  /\ remoteData' = registry
  /\ UNCHANGED <<file, dirty, iface>> /\ UNCHANGED env

(* The download fails, the server is not found, or its key not decrypted:   *)
(* the pass changes nothing.                                                *)
FetchFails == pc = "sleep" /\ UNCHANGED vars

UpToDate ==
  /\ pc = "compare"
  /\ localData = remoteData /\ ~dirty
  /\ EndPass
  /\ UNCHANGED <<file, dirty, iface>> /\ UNCHANGED env

(* Slip: the marker is not looked at.  An operator commented "Slip" is not  *)
(* part of the model: it is the one after it with a mistake, and shows that *)
(* a property notices it.                                                   *)
MustConciliateUnmarked ==
  /\ Goto("compare", "mark")
  /\ localData # remoteData
  /\ UNCHANGED <<file, dirty, iface, localData, remoteData>> /\ UNCHANGED env

MustConciliate ==
  /\ Goto("compare", "mark")
  /\ localData # remoteData \/ dirty
  /\ UNCHANGED <<file, dirty, iface, localData, remoteData>> /\ UNCHANGED env

(* Slip: the marker is not written.                                         *)
SetDirtyForgotten ==
  /\ Goto("mark", "write")
  /\ UNCHANGED <<file, dirty, iface, localData, remoteData>> /\ UNCHANGED env

SetDirty ==
  /\ Goto("mark", "write")
  /\ dirty' = TRUE
  /\ UNCHANGED <<file, iface, localData, remoteData>> /\ UNCHANGED env

(* WriteFile truncates first and then writes.                               *)
TruncateFile ==
  /\ Goto("write", "written")
  /\ file' = Partial
  /\ UNCHANGED <<dirty, iface, localData, remoteData>> /\ UNCHANGED env

WriteFile ==
  /\ Goto("written", "down")
  /\ file' = remoteData
  /\ UNCHANGED <<dirty, iface, localData, remoteData>> /\ UNCHANGED env

(* The result of wg-quick down is ignored, so it may as well not work.      *)
WGQuickDown ==
  /\ Goto("down", "up")
  /\ iface' \in {iface, Down}
  /\ UNCHANGED <<file, dirty, localData, remoteData>> /\ UNCHANGED env

WGQuickUp ==
  /\ Goto("up", "clear")
  /\ iface = Down
  /\ iface' = file
  /\ UNCHANGED <<file, dirty, localData, remoteData>> /\ UNCHANGED env

(* Slip: the error of wg-quick up is not looked at.                         *)
WGQuickUpFailsUnseen ==
  /\ Goto("up", "clear")
  /\ UNCHANGED <<iface, file, dirty, localData, remoteData>> /\ UNCHANGED env

(* wg-quick refuses an interface that exists and leaves it; if one of its   *)
(* own commands fails it takes the half-made interface away again.          *)
WGQuickUpFails ==
  /\ pc = "up"
  /\ EndPass
  /\ UNCHANGED <<iface, file, dirty>> /\ UNCHANGED env

ClearDirty ==
  /\ pc = "clear"
  /\ dirty' = FALSE
  /\ EndPass
  /\ UNCHANGED <<file, iface>> /\ UNCHANGED env

(* Any other call of the pass that returns an error.                        *)
GiveUp ==
  /\ pc \in {"compare", "mark", "write", "written", "clear"}
  /\ EndPass
  /\ UNCHANGED <<file, dirty, iface>> /\ UNCHANGED env

-----------------------------------------------------------------------------
(* The surroundings: "server init", with --override or after a "server      *)
(* delete"; a killed daemon that systemd starts again; and a reboot, after  *)
(* which there is no interface.                                             *)

(* Without --cipher-key the new private key is encrypted with a key drawn   *)
(* for it, which the host's settings do not have.                           *)
ChangeServer ==
  /\ changes < MaxChanges
  /\ changes' = changes + 1
  /\ registry' \in Registries
  /\ UNCHANGED <<file, dirty, iface, pc, localData, remoteData, crashes, reboots>>

Restart ==
  /\ EndPass
  /\ UNCHANGED <<registry, file, dirty, changes>>

(* Slip: the count leaves its range.                                        *)
CrashUncounted ==
  /\ crashes' = crashes + 1
  /\ Restart
  /\ UNCHANGED <<iface, reboots>>

Crash ==
  /\ crashes < MaxCrashes
  /\ crashes' = crashes + 1
  /\ Restart
  /\ UNCHANGED <<iface, reboots>>

Reboot ==
  /\ reboots < MaxReboots
  /\ reboots' = reboots + 1
  /\ iface' = Down
  /\ Restart
  /\ UNCHANGED crashes

Daemon ==
  \/ FetchState \/ UpToDate \/ MustConciliate \/ SetDirty
  \/ TruncateFile \/ WriteFile \/ WGQuickDown
  \/ WGQuickUp \/ WGQuickUpFails \/ ClearDirty

Next ==
  \/ Daemon \/ FetchFails \/ GiveUp
  \/ ChangeServer \/ Crash \/ Reboot

(* The loop runs for ever, and a call that is tried again and again does    *)
(* not fail every time: a registry that can be read is read in the end, and *)
(* wg-quick down does take the interface away.  Nothing is assumed of a     *)
(* registry that cannot be read: there FetchState is never enabled.         *)
Fairness ==
  /\ WF_vars(Daemon)
  /\ SF_vars(SetDirty) /\ SF_vars(MustConciliate)
  /\ SF_vars(TruncateFile) /\ SF_vars(WriteFile)
  /\ SF_vars(WGQuickDown /\ iface' = Down)
  /\ SF_vars(WGQuickUp) /\ SF_vars(ClearDirty)

Spec == Init /\ [][Next]_vars
FairSpec == Spec /\ Fairness
-----------------------------------------------------------------------------
(* Without the marker the file is whole and the interface runs it or is     *)
(* absent: at whatever step a pass was cut, a stale interface or a half-    *)
(* written file is never taken for an up-to-date one.                       *)
CleanRunsFile == ~dirty => file # Partial /\ iface \in {file, Down}

(* Without the marker the interface is absent only on a host that never     *)
(* finished a pass, or that rebooted.                                       *)
CleanIsUp == ~dirty /\ reboots = 0 => (iface = file \/ file = NoFile)

(* Once the registry is left alone with a server the host can read, the     *)
(* interface runs its configuration for good, or has been absent since a    *)
(* reboot.  With one it cannot read every pass fails, and a pass cut short  *)
(* before is not done again: the interface stays what it was left as.       *)
SynchronizedOrDown ==
  <>[](registry \in Configs => iface = registry \/ (iface = Down /\ reboots > 0))
=============================================================================
