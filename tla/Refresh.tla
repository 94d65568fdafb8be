------------------------------- MODULE Refresh -------------------------------
(***************************************************************************)
(* The weekly refresh of a cold-standby node: coldstandby/replication.py,  *)
(* restore.py, nfs.py, backups.py and the qm/qmrestore half of proxmox.py. *)
(*                                                                         *)
(* A run mounts main's backup share, takes the latest archive of each      *)
(* guest, keeps those whose embedded config carries the standby tag,       *)
(* destroys the local standby guests none of them accounts for, restores   *)
(* the rest over the local copies, unmounts, and powers the node off when  *)
(* nothing failed.  Several controller processes may do this at once: the  *)
(* unit's own boot run and an operator's --replicate-now.  Around them main *)
(* writes and prunes archives, the operator makes guests by hand, tools    *)
(* fail or time out, processes are killed and the power goes.              *)
(***************************************************************************)
EXTENDS Integers, FiniteSets

CONSTANTS
  VMID,       \* guest ids, the same on main and on the standby node
  Proc,       \* controller processes that can run on this node
  MaxStamp,   \* bound: how many archives main ever writes
  Configs     \* the settings a run may start with

Settings == [remove_orphans : BOOLEAN,  \* cfg.remove_orphans
             fenced : BOOLEAN,          \* cfg.standby_vmid_range is set ...
             low : Nat, high : Nat,     \* ... to low-high
             dry_run : BOOLEAN,         \* --dry-run
             may_power_off : BOOLEAN]   \* shutdown_after_replication and allow_shutdown

ASSUME VMIDAssumption == VMID \subseteq Nat
ASSUME StampAssumption == MaxStamp \in Nat
ASSUME ConfigsAssumption ==
  /\ Configs \subseteq Settings
  /\ Configs # {}
  /\ \A c \in Configs : c.fenced => c.low <= c.high

VARIABLES
  share,      \* the archives on main's backup share
  clock,      \* stamp of the newest archive main ever wrote
  guest,      \* the guests of this node, by id
  mounted,    \* how often the share is mounted at cfg.nfs_mount_point
  power,      \* "on", "stopping" (poweroff asked for) or "off"
  pc,         \* where each controller process stands
  cfg,        \* the settings it runs with
  mine,       \* it made the mount, so it will unmount
  found,      \* latest archive of each guest, as it saw the share
  backups,    \* those of them it selected for the standby set
  todo,       \* archives still to read, later still to restore
  orphans,    \* ids it still has to destroy
  restored,   \* RefreshResult.restored
  failed,     \* RefreshResult.failed
  raised      \* an exception left the refresh

machine == <<share, clock, guest, mounted, power>>
result == <<restored, failed, raised>>
run == <<pc, cfg, mine, found, backups, todo, orphans, result>>
vars == <<machine, run>>

Torn == -1    \* the disk a half-done restore or destroy leaves

Archive == [vmid : VMID, taken : 1..MaxStamp, tagged : BOOLEAN]

\* conf: no guest, an untagged guest, or one whose config has the standby tag.
\* disk: the stamp restored, or 0 for a disk no archive made.
Guest == [conf : {"none", "other", "standby"}, disk : {Torn} \cup 0..MaxStamp, onboot : BOOLEAN]

NoGuest == [conf |-> "none", disk |-> Torn, onboot |-> FALSE]
HandMadeGuest == [conf |-> "other", disk |-> 0, onboot |-> FALSE]
TornGuest == [conf |-> "standby", disk |-> Torn, onboot |-> TRUE]

\* What qmrestore makes of an archive: main's guest, its onboot flag included.
Restored(a) == [conf |-> "standby", disk |-> a.taken, onboot |-> TRUE]

\* What qm set --onboot 0 makes of a guest.
Quiet(g) == [g EXCEPT !.onboot = FALSE]

Stages == {"idle", "check", "mount", "scan", "read", "orphans", "restore", "onboot", "unmount",
           "verdict"}

TypeOK ==
  /\ share \subseteq Archive
  /\ clock \in 0..MaxStamp
  /\ guest \in [VMID -> Guest]
  /\ mounted \in Nat
  /\ power \in {"on", "stopping", "off"}
  /\ pc \in [Proc -> Stages]
  /\ cfg \in [Proc -> Configs]
  /\ mine \in [Proc -> BOOLEAN]
  /\ found \in [Proc -> SUBSET Archive]
  /\ backups \in [Proc -> SUBSET Archive]
  /\ todo \in [Proc -> SUBSET Archive]
  /\ orphans \in [Proc -> SUBSET VMID]
  /\ restored \in [Proc -> SUBSET VMID]
  /\ failed \in [Proc -> SUBSET VMID]
  /\ raised \in [Proc -> BOOLEAN]

AnyConfig == CHOOSE c \in Configs : TRUE

NoRun ==
  /\ pc = [p \in Proc |-> "idle"]
  /\ cfg = [p \in Proc |-> AnyConfig]
  /\ mine = [p \in Proc |-> FALSE]
  /\ found = [p \in Proc |-> {}]
  /\ backups = [p \in Proc |-> {}]
  /\ todo = [p \in Proc |-> {}]
  /\ orphans = [p \in Proc |-> {}]
  /\ restored = [p \in Proc |-> {}]
  /\ failed = [p \in Proc |-> {}]
  /\ raised = [p \in Proc |-> FALSE]

Init ==
  /\ share = {}
  /\ clock = 0
  /\ guest = [v \in VMID |-> NoGuest]
  /\ mounted = 0
  /\ power = "on"
  /\ NoRun

-----------------------------------------------------------------------------
(* What the steps of a run look at. *)

\* Under the mount point there is the share, or an empty directory.
Visible == IF mounted > 0 THEN share ELSE {}

\* Mutant: older archives of a guest are not left out.
LatestIsEvery(S) == S

\* The archive of each guest that no other archive of it is newer than.
Latest(S) == {a \in S : \A b \in S : b.vmid = a.vmid => b.taken <= a.taken}

\* Archives are read and restored in the order of their guests' ids.
IsNext(a, S) == a \in S /\ \A b \in S : a.vmid <= b.vmid

\* Local guests are listed in the order of their files' names, which for ids
\* of as many digits is the order of the ids.
IsLowest(v, S) == v \in S /\ \A w \in S : v <= w

Wanted(p) == {a.vmid : a \in backups[p]}

\* Mutant: the upper end of the range off by one.
InFenceOffByOne(c, v) == c.fenced => (c.low <= v /\ v <= c.high + 1)

InFence(c, v) == c.fenced => (c.low <= v /\ v <= c.high)

\* Mutant: the tag of the local guest is not looked at.
OrphansUntagged(p) == {v \in VMID : /\ guest[v].conf # "none"
                                    /\ v \notin Wanted(p)
                                    /\ InFence(cfg[p], v)}

\* Mutant: that a guest is about to be restored is not looked at.
OrphansRegardless(p) == {v \in VMID : guest[v].conf = "standby" /\ InFence(cfg[p], v)}

Orphans(p) == {v \in VMID : /\ guest[v].conf = "standby"
                            /\ v \notin Wanted(p)
                            /\ InFence(cfg[p], v)}

\* Mutant: a partial success counts as a success.
OkWhenPartial(p) == restored[p] # {}

Ok(p) == failed[p] = {} /\ restored[p] # {}

\* What is left of guest v when a tool that overwrites or destroys it stops
\* half-way: nothing was touched yet, all of it is gone, or it has a config
\* and no sound disk.
Damages == {"untouched", "gone", "torn"}
Damaged(v, d) == CASE d = "untouched" -> guest[v]
                   [] d = "gone"      -> NoGuest
                   [] d = "torn"      -> TornGuest

\* The guest a command of process p is working on.
InFlight(p) == {v \in VMID : /\ ~cfg[p].dry_run
                             /\ \/ pc[p] = "restore" /\ \E a \in todo[p] : IsNext(a, todo[p]) /\ v = a.vmid
                                \/ pc[p] = "orphans" /\ IsLowest(v, orphans[p])}

Goto(p, stage) == pc' = [pc EXCEPT ![p] = stage]

\* Processes P are gone, and their memory with them.
Forget(P) ==
  /\ pc' = [p \in Proc |-> IF p \in P THEN "idle" ELSE pc[p]]
  /\ cfg' = [p \in Proc |-> IF p \in P THEN AnyConfig ELSE cfg[p]]
  /\ mine' = [p \in Proc |-> p \notin P /\ mine[p]]
  /\ found' = [p \in Proc |-> IF p \in P THEN {} ELSE found[p]]
  /\ backups' = [p \in Proc |-> IF p \in P THEN {} ELSE backups[p]]
  /\ todo' = [p \in Proc |-> IF p \in P THEN {} ELSE todo[p]]
  /\ orphans' = [p \in Proc |-> IF p \in P THEN {} ELSE orphans[p]]
  /\ restored' = [p \in Proc |-> IF p \in P THEN {} ELSE restored[p]]
  /\ failed' = [p \in Proc |-> IF p \in P THEN {} ELSE failed[p]]
  /\ raised' = [p \in Proc |-> p \notin P /\ raised[p]]

-----------------------------------------------------------------------------
(* The steps of a run when every tool does what it is asked. *)

Begin(p, c) ==
  /\ power = "on"
  /\ pc[p] = "idle"
  /\ Goto(p, "check")
  /\ cfg' = [cfg EXCEPT ![p] = c]
  /\ UNCHANGED <<machine, mine, found, backups, todo, orphans, result>>

\* Mutant: a mount that is there already is an error.
CheckRefusesLeftover(p) ==
  /\ pc[p] = "check"
  /\ raised' = [raised EXCEPT ![p] = ~cfg[p].dry_run /\ mounted > 0]
  /\ Goto(p, IF cfg[p].dry_run THEN "scan" ELSE IF mounted > 0 THEN "verdict" ELSE "mount")
  /\ UNCHANGED <<machine, cfg, mine, found, backups, todo, orphans, restored, failed>>

\* A dry run mounts nothing; a mount that findmnt shows is used and left.
CheckMount(p) ==
  /\ pc[p] = "check"
  /\ Goto(p, IF cfg[p].dry_run \/ mounted > 0 THEN "scan" ELSE "mount")
  /\ UNCHANGED <<machine, cfg, mine, found, backups, todo, orphans, result>>

\* Another run may have mounted the share since the check: then this is a second
\* mount on top of the first.
Mount(p) ==
  /\ pc[p] = "mount"
  /\ mounted' = mounted + 1
  /\ mine' = [mine EXCEPT ![p] = TRUE]
  /\ Goto(p, "scan")
  /\ UNCHANGED <<share, clock, guest, power, cfg, found, backups, todo, orphans, result>>

\* mount exits non-zero, as it may when another run was faster and the mount point
\* is busy: the RuntimeError ends the run before the with block.
MountFails(p) ==
  /\ pc[p] = "mount"
  /\ raised' = [raised EXCEPT ![p] = TRUE]
  /\ Goto(p, "verdict")
  /\ UNCHANGED <<machine, cfg, mine, found, backups, todo, orphans, restored, failed>>

Scan(p) ==
  /\ pc[p] = "scan"
  /\ found' = [found EXCEPT ![p] = Latest(Visible)]
  /\ todo' = [todo EXCEPT ![p] = Latest(Visible)]
  /\ Goto(p, "read")
  /\ UNCHANGED <<machine, cfg, mine, backups, orphans, result>>

\* Mutant: the loop ends at the first guest of the standby set.
ReadConfigOfFirst(p, a, readable) ==
  /\ pc[p] = "read"
  /\ IsNext(a, todo[p])
  /\ backups' = [backups EXCEPT ![p] = IF readable /\ a.tagged THEN @ \cup {a} ELSE @]
  /\ todo' = [todo EXCEPT ![p] = IF readable /\ a.tagged THEN {} ELSE @ \ {a}]
  /\ UNCHANGED <<machine, pc, cfg, mine, found, orphans, result>>

\* Reads the config embedded in the next archive; one that cannot be read is
\* dropped without a trace in the result.
ReadConfig(p, a, readable) ==
  /\ pc[p] = "read"
  /\ IsNext(a, todo[p])
  /\ backups' = [backups EXCEPT ![p] = IF readable /\ a.tagged THEN @ \cup {a} ELSE @]
  /\ todo' = [todo EXCEPT ![p] = @ \ {a}]
  /\ UNCHANGED <<machine, pc, cfg, mine, found, orphans, result>>

\* No tagged archive: no orphan is looked for and nothing is restored.
NothingFound(p) ==
  /\ pc[p] = "read"
  /\ todo[p] = {}
  /\ backups[p] = {}
  /\ Goto(p, "unmount")
  /\ UNCHANGED <<machine, cfg, mine, found, backups, todo, orphans, result>>

\* Mutant: no early return when nothing tagged was found.
PlanOnEmptyShare(p) ==
  /\ pc[p] = "read"
  /\ todo[p] = {}
  /\ todo' = [todo EXCEPT ![p] = backups[p]]
  /\ orphans' = [orphans EXCEPT ![p] = IF cfg[p].remove_orphans THEN Orphans(p) ELSE {}]
  /\ Goto(p, "orphans")
  /\ UNCHANGED <<machine, cfg, mine, found, backups, result>>

\* What is mounted after umount has taken off the topmost mount, if run p made one.
LeaveMount(p) == IF mine[p] /\ mounted > 0 THEN mounted - 1 ELSE mounted

\* Mutant: the with block ends before the restores.
PlanOutsideTheMount(p) ==
  /\ pc[p] = "read"
  /\ todo[p] = {}
  /\ backups[p] # {}
  /\ mounted' = LeaveMount(p)
  /\ todo' = [todo EXCEPT ![p] = backups[p]]
  /\ orphans' = [orphans EXCEPT ![p] = IF cfg[p].remove_orphans THEN Orphans(p) ELSE {}]
  /\ Goto(p, "orphans")
  /\ UNCHANGED <<share, clock, guest, power, cfg, mine, found, backups, result>>

\* Fixes what to restore and, from one listing of the local guests, what to
\* destroy first.
Plan(p) ==
  /\ pc[p] = "read"
  /\ todo[p] = {}
  /\ backups[p] # {}
  /\ todo' = [todo EXCEPT ![p] = backups[p]]
  /\ orphans' = [orphans EXCEPT ![p] = IF cfg[p].remove_orphans THEN Orphans(p) ELSE {}]
  /\ Goto(p, "orphans")
  /\ UNCHANGED <<machine, cfg, mine, found, backups, result>>

\* Destroys the guest that now has the id listed; with none there the tool fails.
DestroyOrphan(p, v) ==
  /\ pc[p] = "orphans"
  /\ IsLowest(v, orphans[p])
  /\ orphans' = [orphans EXCEPT ![p] = @ \ {v}]
  /\ guest' = [guest EXCEPT ![v] = IF cfg[p].dry_run THEN @ ELSE NoGuest]
  /\ failed' = [failed EXCEPT ![p] = IF ~cfg[p].dry_run /\ guest[v] = NoGuest THEN @ \cup {v} ELSE @]
  /\ UNCHANGED <<share, clock, mounted, power, pc, cfg, mine, found, backups, todo, restored, raised>>

OrphansDone(p) ==
  /\ pc[p] = "orphans"
  /\ orphans[p] = {}
  /\ Goto(p, "restore")
  /\ UNCHANGED <<machine, cfg, mine, found, backups, todo, orphans, result>>

\* qmrestore --force: whatever has the id is overwritten.
RestoreGuest(p, a) ==
  /\ pc[p] = "restore"
  /\ IsNext(a, todo[p])
  /\ ~cfg[p].dry_run
  /\ a \in Visible
  /\ guest' = [guest EXCEPT ![a.vmid] = Restored(a)]
  /\ Goto(p, "onboot")
  /\ UNCHANGED <<share, clock, mounted, power, cfg, mine, found, backups, todo, orphans, result>>

\* Mutant: the loop goes back to the archive that failed.
RestoreNothingAgain(p, a) ==
  /\ pc[p] = "restore"
  /\ IsNext(a, todo[p])
  /\ ~cfg[p].dry_run
  /\ a \notin Visible
  /\ failed' = [failed EXCEPT ![p] = @ \cup {a.vmid}]
  /\ UNCHANGED <<machine, pc, cfg, mine, found, backups, todo, orphans, restored, raised>>

\* The archive is no longer there to be opened.
RestoreNothing(p, a) ==
  /\ pc[p] = "restore"
  /\ IsNext(a, todo[p])
  /\ ~cfg[p].dry_run
  /\ a \notin Visible
  /\ failed' = [failed EXCEPT ![p] = @ \cup {a.vmid}]
  /\ todo' = [todo EXCEPT ![p] = @ \ {a}]
  /\ UNCHANGED <<machine, pc, cfg, mine, found, backups, orphans, restored, raised>>

RestoreDry(p, a) ==
  /\ pc[p] = "restore"
  /\ IsNext(a, todo[p])
  /\ cfg[p].dry_run
  /\ restored' = [restored EXCEPT ![p] = @ \cup {a.vmid}]
  /\ todo' = [todo EXCEPT ![p] = @ \ {a}]
  /\ UNCHANGED <<machine, pc, cfg, mine, found, backups, orphans, failed, raised>>

\* qm set --onboot 0 closes the restore of one guest.
SetOnboot(p, a) ==
  /\ pc[p] = "onboot"
  /\ IsNext(a, todo[p])
  /\ guest[a.vmid] # NoGuest
  /\ guest' = [guest EXCEPT ![a.vmid] = Quiet(@)]
  /\ restored' = [restored EXCEPT ![p] = @ \cup {a.vmid}]
  /\ todo' = [todo EXCEPT ![p] = @ \ {a}]
  /\ Goto(p, "restore")
  /\ UNCHANGED <<share, clock, mounted, power, cfg, mine, found, backups, orphans, failed, raised>>

\* qm set fails, as it does when the guest is gone by now: the guest counts as
\* failed, with the archive's own onboot flag.
SetOnbootFails(p, a) ==
  /\ pc[p] = "onboot"
  /\ IsNext(a, todo[p])
  /\ failed' = [failed EXCEPT ![p] = @ \cup {a.vmid}]
  /\ todo' = [todo EXCEPT ![p] = @ \ {a}]
  /\ Goto(p, "restore")
  /\ UNCHANGED <<machine, cfg, mine, found, backups, orphans, restored, raised>>

RestoreDone(p) ==
  /\ pc[p] = "restore"
  /\ todo[p] = {}
  /\ Goto(p, "unmount")
  /\ UNCHANGED <<machine, cfg, mine, found, backups, todo, orphans, result>>

Unmount(p) ==
  /\ pc[p] = "unmount"
  /\ mounted' = LeaveMount(p)
  /\ mine' = [mine EXCEPT ![p] = FALSE]
  /\ Goto(p, "verdict")
  /\ UNCHANGED <<share, clock, guest, power, cfg, found, backups, todo, orphans, result>>

\* Mutant: --dry-run is forgotten at the end.
PowersOffInRehearsal(p) == ~raised[p] /\ Ok(p) /\ cfg[p].may_power_off

\* Nothing failed and something was restored: ask for the poweroff, if allowed.
PowersOff(p) == ~raised[p] /\ Ok(p) /\ cfg[p].may_power_off /\ ~cfg[p].dry_run

\* Mutant: the node is sent through a reboot.
FinishWithReboot(p) ==
  /\ pc[p] = "verdict"
  /\ power' = IF PowersOff(p) THEN "rebooting" ELSE power
  /\ Forget({p})
  /\ UNCHANGED <<share, clock, guest, mounted>>

Finish(p) ==
  /\ pc[p] = "verdict"
  /\ power' = IF PowersOff(p) THEN "stopping" ELSE power
  /\ Forget({p})
  /\ UNCHANGED <<share, clock, guest, mounted>>

Advance(p) ==
  \/ CheckMount(p)
  \/ Mount(p)
  \/ mounted > 0 /\ MountFails(p)
  \/ Scan(p)
  \/ \E a \in Archive : ReadConfig(p, a, a \in Visible)
  \/ NothingFound(p)
  \/ Plan(p)
  \/ \E v \in VMID : DestroyOrphan(p, v)
  \/ OrphansDone(p)
  \/ \E a \in Archive : RestoreGuest(p, a) \/ RestoreNothing(p, a) \/ RestoreDry(p, a)
  \/ \E a \in Archive : SetOnboot(p, a) \/ (guest[a.vmid] = NoGuest /\ SetOnbootFails(p, a))
  \/ RestoreDone(p)
  \/ Unmount(p)
  \/ Finish(p)

-----------------------------------------------------------------------------
(* The same steps when a tool fails, and the end of a process. *)

\* The walk over the share, or the listing of local guests, raises.
ListingFails(p) ==
  /\ \/ pc[p] = "scan"
     \/ pc[p] = "read" /\ todo[p] = {} /\ backups[p] # {} /\ cfg[p].remove_orphans
  /\ raised' = [raised EXCEPT ![p] = TRUE]
  /\ Goto(p, "unmount")
  /\ UNCHANGED <<machine, cfg, mine, found, backups, todo, orphans, restored, failed>>

\* vma config prints what is not UTF-8: the UnicodeDecodeError is none of the
\* exceptions that drop an archive, and ends the refresh.
ReadRaises(p, a) ==
  /\ pc[p] = "read"
  /\ IsNext(a, todo[p])
  /\ a \in Visible
  /\ raised' = [raised EXCEPT ![p] = TRUE]
  /\ Goto(p, "unmount")
  /\ UNCHANGED <<machine, cfg, mine, found, backups, todo, orphans, restored, failed>>

DestroyFails(p, v, d) ==
  /\ pc[p] = "orphans"
  /\ IsLowest(v, orphans[p])
  /\ ~cfg[p].dry_run
  /\ orphans' = [orphans EXCEPT ![p] = @ \ {v}]
  /\ guest' = [guest EXCEPT ![v] = Damaged(v, d)]
  /\ failed' = [failed EXCEPT ![p] = @ \cup {v}]
  /\ UNCHANGED <<share, clock, mounted, power, pc, cfg, mine, found, backups, todo, restored, raised>>

\* Mutant: the failure is logged and not recorded.
RestoreFailsSilently(p, a, d) ==
  /\ pc[p] = "restore"
  /\ IsNext(a, todo[p])
  /\ ~cfg[p].dry_run
  /\ guest' = [guest EXCEPT ![a.vmid] = Damaged(a.vmid, d)]
  /\ todo' = [todo EXCEPT ![p] = @ \ {a}]
  /\ UNCHANGED <<share, clock, mounted, power, pc, cfg, mine, found, backups, orphans, result>>

\* qmrestore exits non-zero: this guest failed, the next one is tried.
RestoreFails(p, a, d) ==
  /\ pc[p] = "restore"
  /\ IsNext(a, todo[p])
  /\ ~cfg[p].dry_run
  /\ guest' = [guest EXCEPT ![a.vmid] = Damaged(a.vmid, d)]
  /\ failed' = [failed EXCEPT ![p] = @ \cup {a.vmid}]
  /\ todo' = [todo EXCEPT ![p] = @ \ {a}]
  /\ UNCHANGED <<share, clock, mounted, power, pc, cfg, mine, found, backups, orphans, restored, raised>>

\* qmrestore outlives restore_timeout_seconds: TimeoutExpired is none of the
\* exceptions the loop catches, and ends the refresh.
RestoreTimesOut(p, a, d) ==
  /\ pc[p] = "restore"
  /\ IsNext(a, todo[p])
  /\ ~cfg[p].dry_run
  /\ guest' = [guest EXCEPT ![a.vmid] = Damaged(a.vmid, d)]
  /\ todo' = [todo EXCEPT ![p] = @ \ {a}]
  /\ raised' = [raised EXCEPT ![p] = TRUE]
  /\ Goto(p, "unmount")
  /\ UNCHANGED <<share, clock, mounted, power, cfg, mine, found, backups, orphans, restored, failed>>

\* A failed umount is logged and the mount lingers.
UnmountFails(p) ==
  /\ pc[p] = "unmount"
  /\ mine[p]
  /\ mine' = [mine EXCEPT ![p] = FALSE]
  /\ Goto(p, "verdict")
  /\ UNCHANGED <<machine, cfg, found, backups, todo, orphans, result>>

\* The exit status of systemctl poweroff is not looked at.
PoweroffFails(p) ==
  /\ pc[p] = "verdict"
  /\ PowersOff(p)
  /\ Forget({p})
  /\ UNCHANGED machine

\* The processes P die with the command each has in flight.
Interrupt(P) ==
  /\ \E d \in [UNION {InFlight(p) : p \in P} -> Damages] :
       guest' = [v \in VMID |-> IF v \in DOMAIN d THEN Damaged(v, d[v]) ELSE guest[v]]
  /\ Forget(P)

\* The unit is stopped or the process killed; no handler runs, the mount stays.
Kill(p) ==
  /\ pc[p] # "idle"
  /\ Interrupt({p})
  /\ UNCHANGED <<share, clock, mounted, power>>

PowerLoss ==
  /\ power' = "off"
  /\ mounted' = 0
  /\ Interrupt(Proc)
  /\ UNCHANGED <<share, clock>>

PowerCut == power # "off" /\ PowerLoss

\* The poweroff that was asked for, whatever else runs on the node.
PowerDown == power = "stopping" /\ PowerLoss

Fault(p) ==
  \/ MountFails(p)
  \/ ListingFails(p)
  \/ \E a \in Archive : ReadConfig(p, a, FALSE) \/ ReadRaises(p, a) \/ SetOnbootFails(p, a)
  \/ \E v \in VMID, d \in Damages : DestroyFails(p, v, d)
  \/ \E a \in Archive, d \in Damages : RestoreFails(p, a, d) \/ RestoreTimesOut(p, a, d)
  \/ UnmountFails(p)
  \/ PoweroffFails(p)
  \/ Kill(p)

-----------------------------------------------------------------------------
(* Main, the operator and the wake-on-LAN schedule. *)

\* vzdump writes an archive of guest v, tagged or not as the guest is then.
Backup(v, tag) ==
  /\ clock < MaxStamp
  /\ clock' = clock + 1
  /\ share' = share \cup {[vmid |-> v, taken |-> clock + 1, tagged |-> tag]}
  /\ UNCHANGED <<guest, mounted, power, run>>

\* Retention prunes an archive a newer one has replaced.
Prune(a) ==
  /\ a \in share \ Latest(share)
  /\ share' = share \ {a}
  /\ UNCHANGED <<clock, guest, mounted, power, run>>

\* Guest v is deleted on main, and its archives with it.
RemoveFromMain(v) ==
  /\ \E a \in share : a.vmid = v
  /\ share' = {a \in share : a.vmid # v}
  /\ UNCHANGED <<clock, guest, mounted, power, run>>

\* The operator makes an untagged guest on this node, under a free id.
MakeByHand(v) ==
  /\ power = "on"
  /\ guest[v] = NoGuest
  /\ guest' = [guest EXCEPT ![v] = HandMadeGuest]
  /\ UNCHANGED <<share, clock, mounted, power, run>>

Wake ==
  /\ power = "off"
  /\ power' = "on"
  /\ UNCHANGED <<share, clock, guest, mounted, run>>

Around ==
  \/ \E v \in VMID, tag \in BOOLEAN : Backup(v, tag)
  \/ \E a \in Archive : Prune(a)
  \/ \E v \in VMID : RemoveFromMain(v) \/ MakeByHand(v)
  \/ PowerCut

Schedule ==
  \/ \E p \in Proc, c \in Configs : Begin(p, c)
  \/ Wake
  \/ PowerDown

Next ==
  \/ \E p \in Proc : Advance(p) \/ Fault(p)
  \/ Around
  \/ Schedule

Spec == Init /\ [][Next]_vars

\* A run that is under way goes on: every tool it calls returns.
Progress == \A p \in Proc : WF_vars(Advance(p))

-----------------------------------------------------------------------------
(* Safety. *)

Busy(p) == pc[p] \in {"scan", "read", "orphans", "restore", "onboot", "unmount"}

\* A guest that carried the standby tag is gone or torn after the step.
Lost(v) == guest[v].conf = "standby" /\ guest[v]' \in {NoGuest, TornGuest} /\ guest[v]' # guest[v]

\* An empty, unmounted or unreadable share is never read as "main has no
\* standby guests": a standby guest is lost only while some run holds an
\* archive it saw on the share and found tagged (restore.py:54-63).
EmptyShareDestroysNothing ==
  [][\A v \in VMID : Lost(v) => \E p \in Proc : backups[p] # {}]_vars

\* The fence: a standby guest that some run has not selected for restore is
\* lost only inside that run's standby_vmid_range, never in a dry run and
\* never with remove_orphans off (restore.py:66, 89-100).
FenceHolds ==
  [][\A v \in VMID : Lost(v) =>
       \E p \in Proc : /\ pc[p] \in {"orphans", "restore"}
                       /\ ~cfg[p].dry_run
                       /\ \/ v \in Wanted(p)
                          \/ /\ cfg[p].remove_orphans
                             /\ cfg[p].fenced => v \in cfg[p].low .. cfg[p].high]_vars

\* One run at a time: what it destroys or restores changes only guests that
\* carry the tag or that it selected, so a guest made by hand is overwritten
\* only by main's guest of the same id (restore.py:91, proxmox.py:54-62).
HandMadeGuestsSurvive ==
  [][\A v \in VMID : guest[v].conf = "other" /\ guest[v]' # guest[v] =>
       \E p \in Proc : v \in Wanted(p)]_vars

\* While no run is a real one, no controller step changes a guest, mounts the
\* share or powers the node off (main.py:49-55).
DryRunChangesNothing ==
  [][(\A p \in Proc : pc[p] # "idle" => cfg[p].dry_run)
       => /\ \A v \in VMID : guest[v]' # guest[v] => guest[v] = NoGuest /\ guest[v]' = HandMadeGuest
          /\ mounted' <= mounted
          /\ power = "on" => power' # "stopping"]_vars

\* Local guest v is what run p wanted of it: restored from the archive selected,
\* not set to start by itself, and no orphan the run should have removed.
AsWanted(p, v) ==
  /\ \A a \in backups[p] : a.vmid = v => guest[v] = Quiet(Restored(a))
  /\ cfg[p].remove_orphans => v \notin Orphans(p)

\* The node asks for its own poweroff only when a run has made every guest what
\* it wanted, whatever failed, timed out or was killed before: otherwise it
\* stays on for an operator to look (replication.py:41-63).
PowerOffMeansRefreshed ==
  [][power = "on" /\ power' = "stopping" =>
       \E p \in Proc : pc[p] = "verdict" /\ backups[p] # {} /\ \A v \in VMID : AsWanted(p, v)]_vars

\* A standby guest is never replaced by an older state of the same guest
\* (backups.py:90-96: the latest archive is taken).
NoRollback ==
  [][\A v \in VMID : guest[v].conf = "standby" /\ guest[v]'.conf = "standby" =>
       guest[v]'.disk = Torn \/ guest[v]'.disk >= guest[v].disk]_vars

\* A run that no exception cut short reports each guest it selected as restored
\* or as failed, never as neither and never as both (restore.py:69-79).
EveryBackupAccountedFor ==
  \A p \in Proc : pc[p] \in {"unmount", "verdict"} /\ ~raised[p] =>
    /\ Wanted(p) \subseteq restored[p] \cup failed[p]
    /\ restored[p] \cap failed[p] = {}
    /\ restored[p] \subseteq Wanted(p)

\* A run reads and restores with the share mounted from the first listing to
\* the last restore (nfs.py:3-5).
ShareHeldWhileInUse ==
  \A p \in Proc : Busy(p) /\ ~cfg[p].dry_run => mounted > 0

\* How far each stage is from the start of a run.
Course == [idle |-> 9, check |-> 1, mount |-> 2, scan |-> 3, read |-> 4, orphans |-> 5,
           restore |-> 6, onboot |-> 6, unmount |-> 7, verdict |-> 8]

Memory(p) == <<pc[p], cfg[p], mine[p], found[p], backups[p], todo[p], orphans[p],
               restored[p], failed[p], raised[p]>>

Shorter(S, T) == S \subseteq T /\ S # T

\* Process p comes to a later stage, or one item comes off its lists, or the
\* restore of an archive goes on to qm set.
Nearer(p) ==
  \/ Course[pc'[p]] > Course[pc[p]]
  \/ /\ Course[pc'[p]] = Course[pc[p]]
     /\ \/ Shorter(todo'[p], todo[p]) /\ orphans'[p] = orphans[p]
        \/ Shorter(orphans'[p], orphans[p]) /\ todo'[p] = todo[p]
        \/ /\ pc[p] = "restore" /\ pc'[p] = "onboot"
           /\ UNCHANGED <<todo[p], orphans[p]>>

\* Whatever fails, and whoever else is at work, a run never goes back and never
\* tries an item twice: each of its steps brings it nearer to its end, so that
\* there are only so many of them (restore.py:54-111).
NoStepInVain ==
  [][\A p \in Proc : pc[p] # "idle" /\ Memory(p)' # Memory(p) => Nearer(p)]_vars

-----------------------------------------------------------------------------
(* The promise, and how the state of a refresh shows it. *)

Offered == {a \in share : a.tagged} \cup UNION {backups[p] : p \in Proc}

CopyIn(g) == [conf |-> g.conf, disk |-> g.disk]

Copies == [v \in VMID |-> CopyIn(guest[v])]

Promise == INSTANCE StandbySet WITH offered <- Offered, copy <- Copies

\* With one run at a time, a refresh and all that happens around it is a way of
\* keeping the promise of StandbySet: each step is one of its steps or none
\* (restore.py:49-111, backups.py:90-121).
ImplementsStandbySet == Promise!Spec

-----------------------------------------------------------------------------
(* What the documentation says and the code does not keep. *)

\* "destroys any local VM that carries the standby tag but has no backup on the
\* share" (README, Orphan cleanup): a guest with a tagged latest archive in the
\* run's own listing is no orphan of that run.
OnlyUnbackedGuestsAreOrphans ==
  \A p \in Proc : \A a \in found[p] : a.tagged => a.vmid \notin orphans[p]

\* "One bad archive must not stop the rest" (restore.py:76-77): a run leaves the
\* loop over the guests it selected only when none is left to be tried.
OneBadArchiveStopsNothing ==
  [][\A p \in Proc : pc[p] = "restore" /\ pc'[p] = "unmount" => todo'[p] = {}]_vars

-----------------------------------------------------------------------------
(* Liveness. *)

\* A run that began ends, also when tools fail, processes die or power goes.
RunEnds == \A p \in Proc : pc[p] # "idle" ~> pc[p] = "idle"
=============================================================================
