# pve-coldstandby in TLA+

A verification project for the cold-standby boot-mode controller in
`src/coldstandby`. It models what a run of the controller does to the standby
node, step by step, with the tools it shells out to failing, timing out and
dying half-way, main's backups changing under it, and people acting around it.
TLC checks the properties on small instances; TLAPS proves the core of them for
every instance.

Line references are to the files under `src/`; a file named without a directory
is in `src/coldstandby/`.

## 1. The system

A node sleeps until wake-on-LAN starts it once a week. systemd starts one
process, `main()`, which re-masks `pve-guests.service`, opens an MQTT presence,
resolves a boot mode and runs it.

| component | state it keeps | operations | speaks to |
|---|---|---|---|
| Controller (`main.py`, unit file) | mode, rc, the presence | mask, resolve, dispatch, hold until SIGTERM | everything below |
| Mode resolution (`mode.py`) | decided mode, what each selector said | `determine_mode`, `_publish` | selectors, in priority order |
| Dongle (`selectors/dongle.py`) | none; the USB sticks | look for three labels, mount, compare the marker | `blkid`, `mount` |
| Online switch (`selectors/mqtt_ha.py`, `home_assistant.py`) | the request and the last-boot status, at the broker or in Home Assistant | read, clear, publish | broker, REST |
| Presence (`MqttPresence`) | a session with a will; `online` | start, stop, connect callback in the loop thread | broker |
| Replication (`replication.py`, `restore.py`) | `RefreshResult` | refresh, verdict, poweroff | the three below |
| Share mount (`nfs.py`) | the mount point | mount or reuse, unmount | `mount`, `findmnt` |
| Discovery (`backups.py`) | none; the archives | latest per guest, embedded config, tag | `vma`, decompressors |
| Proxmox (`proxmox.py`) | the guests on local disk | `qmrestore --force`, `qm set`, `qm destroy`, start order, `qm start` | qm |
| Emergency (`emergency.py`) | position in the start order | start in order with delays | proxmox |
| Lab (`lab.py`) | none | lists and logs | proxmox |
| Config (`config.py`) | immutable settings | load, validate, fence bounds | |

Who else acts: main writes, prunes and deletes archives; an operator makes
guests on the node, starts `--replicate-now` or `--force-mode` beside the unit,
plugs dongles; the owner flips the switch in Home Assistant; the power goes.

What is hard here. There is no lock: two runs share a mount point, a set of
guests and a power button. Every destructive step is an external command that
can fail or die half-way and leave a torn guest. What to destroy is decided from
what could *not* be seen. Nothing is persisted except the guests themselves, so
recovery is whatever the next run makes of them. The online switch is read,
reset and written over a network with timeouts that look like answers. The full
list, line by line, is `hazards` in `PROJECT.json`.

What makes each part correct:

- Refresh: never destroys on the evidence of an empty share, outside the fence,
  in a rehearsal, or a guest nobody tagged; reports every guest; powers off only
  when all is well; from any wreck, converges to main's backups.
- Mode resolution: Emergency only by its dongle; one Lab boot per request;
  rehearsals silent; the status tells the truth; a standing request is honoured.
- Emergency: no guest before what it depends on had its time; a clean end means
  the whole set; a power cycle after the last fault brings all of it up.
- Presence: `online` is true while it is held and false when it is gone, over
  takeovers, broken connections and deaths.
- Controller: no guest starts by itself; a resident process goes only when told
  to; its exit status tells of failure.

## 2. Modules

| module | models | EXTENDS |
|---|---|---|
| `Refresh` | `restore.py`, `replication.py`, `nfs.py`, `backups.py`, the restore half of `proxmox.py`, for any number of controller processes | |
| `RefreshCalm` | the same with a last quiet time, for convergence | `Refresh` |
| `StandbySet` | what a refresh promises, with nothing of how: the abstract specification of `Refresh` | |
| `RefreshProofs` | the theorems about `Refresh` | `Refresh`, `TLAPS` |
| `PromiseProofs` | its refinement, and the quiet time | `RefreshProofs`, `RefreshCalm` |
| `MCRefresh`, `MCRefreshCalm` | instances for TLC | |
| `ModeResolution` | `mode.py`, `selectors/`, the part of `main()` around `determine_mode` | |
| `ModeCalm` | the same with a last quiet time, for the Lab request | `ModeResolution` |
| `BootPromise` | what the choice of a mode promises: the abstract specification of `ModeResolution` | |
| `ModeProofs` | the theorems about `ModeResolution` and its refinement | `ModeCalm`, `TLAPS` |
| `Emergency` | `emergency.py` and the start half of `proxmox.py` | |
| `EmergencyProofs` | the theorems about `Emergency` | `Emergency`, `TLAPS` |
| `MqttSession` | the connections of presence and selector (`selectors/mqtt_ha.py`) and the broker | |
| `Controller` | `main.py`, the verdict of `Config.load`, the unit and the power, over `MqttSession` | `MqttSession` |
| `ControllerProofs` | the theorems about `Controller` alone | `Controller`, `TLAPS` |
| `MqttProofs` | lemmas about the steps of `MqttSession` | `MqttSession`, `TLAPS` |
| `PresenceProofs` | the theorems about `Controller` and the broker | `ControllerProofs`, `MqttProofs` |
| `HeldProofs` | what `online` says while a process is held | `PresenceProofs` |
| `MCController` | instances for TLC | `Controller` |

A definition under a comment that begins with `Mutant:` is a plausible bug in the
definition after it, which some property has to catch; no specification uses it.

### Refresh

Machine state: `share` (archives with guest, stamp, tag), `guest` (none, other
or standby; which archive the disk is from, or torn; onboot), `mounted` (how many
mounts are stacked at the mount point), `power`. A process has `pc` and the locals of `refresh_standby_vms`: `mine` (it
entered the `with` block that unmounts), `found` (`discover_archives`),
`backups` (`select_standby_backups`), `todo` (the loop not yet done), `orphans`
(the local guests still to destroy), and the `RefreshResult`, with `raised` for
an exception on its way out.

| `pc` | code | actions |
|---|---|---|
| check | `nfs.py:49-57` | `CheckMount` |
| mount | `nfs.py:59-69` | `Mount`, `MountFails` |
| scan | `backups.py:99-121` | `Scan`, `ListingFails` |
| read | `backups.py:229-245`, `restore.py:54-67` | `ReadConfig`, `ReadRaises`, `NothingFound`, `Plan` |
| orphans | `restore.py:90-111` | `DestroyOrphan`, `DestroyFails`, `OrphansDone` |
| restore | `restore.py:69-79`, `proxmox.py:63-71` | `RestoreGuest`, `RestoreNothing`, `RestoreDry`, `RestoreFails`, `RestoreTimesOut`, `RestoreDone` |
| onboot | `proxmox.py:76` | `SetOnboot`, `SetOnbootFails` |
| unmount | `nfs.py:73-82` | `Unmount`, `UnmountFails` |
| verdict | `replication.py:41-63` | `Finish`, `PoweroffFails` |

`CheckMount` and `Mount` are two steps, since `findmnt` and `mount` are: of two
runs that both found nothing mounted, the second mount fails or is stacked on the
first, and `umount` takes off the topmost (`LeaveMount`). `ReadRaises` is output
of `vma config` that is not UTF-8, which ends the run where any other archive that
cannot be read is dropped (`ReadConfig`).

Each external command is one step; a command that fails, times out or dies with
its process leaves the guest it was at untouched, gone or torn (`Damaged`). A
`Kill` runs no handler, so the mount stays. `PowerLoss` ends every process.

Abstracted: archive names, dates and compression (a stamp orders the archives of
a guest); VMIDs are numbers of equal length, so the listing by file name is by
number; tags are one boolean. Guests do not run in this module, so `qm stop`
before `qm destroy` does nothing. `Config.load` has validated the fence
(`ConfigsAssumption`). The age warning of `replication.py:30-39` is logging.

### ModeResolution

One boot after another: `Boot`, the look at each label (`LookAt`, sticks may be
swapped between two looks), `ConsultDongle`, the online switch (`ReadRequest`
or `RequestUnread`), `Clear`, `Publish` and for MQTT `PublishReset`, then
`decided` or, when an exception passes every handler, `aborted`. Each network
call may be unanswered, fail with `ModeSelectorUnavailable`, or raise something
else (`http.client.IncompleteRead` in REST, a missing CA file outside the `try`
of `mqtt_ha.py:207`), and a write that failed may have taken effect. `request`
takes the names of the modes as values; `"emergency"` is any text that is not
an option. `LowerCase` says whether the Lab option is configured in small
letters, as it is shipped: MQTT lowers the payload and compares it with the option
as configured, so another one is never matched there (`Recognised`). `Slot` merges all that amounts to no valid dongle, a mount that fails
included. `--exercise-selectors` is `dry = FALSE` here.
`ever`, `steady`, `unanswered`, `trouble`, `stale` are history only.

### Emergency

Guest configs are arbitrary and fixed. `List` takes the plan in the order of
`ordered_standby_vms`: the one that is `Ascending` by `sort_key` and id; `StartVM`, `Sleep`, `NextGuest` are the loop of
`start_in_order`. A guest that already runs makes `qm start` fail, so a rerun
ends at the first of them (`NotStartable`). `DestroyOrphan` is a
`--replicate-now` beside the run that finds main no longer has a guest: it is
stopped and destroyed, while the run still has it in its plan. One run of
Emergency at a time.

### StandbySet

Two variables: `offered`, the archives a run may restore, and `copy`, the local
guests. `Renew` replaces one copy by an offered archive that is not older, `Lose`
loses one copy while something is on offer, `Withdraw` takes offers back,
`MakeByHand` is a guest of the operator. `Refresh` implements it with `offered`
as the tagged archives on the share and in the memory of a run, and `copy` as
its guests without the onboot flag (`Copies`, `Promise`). A whole refresh, with
mount, listing, orphans and failures, is then only `Renew`, `Lose` and stutters.

### BootPromise

What the owner of the switch and the operator with the dongles see: `ask`, the
Lab request, which is open or `held` by the boot that acts on it; `keys`, the
modes for which a dongle was in while the labels were looked for; `boot`, the
mode decided; `shown`, the status; and whether anything `failed`. `Decide` needs
a key or a request, `Write` takes back and reports only for a decided boot, `End`
lets a boot go only when what it held is taken back and what it was is reported,
or something failed. `ModeResolution` implements it: `Asked` is the request, or
`held` between the decision of a Lab boot and its end, `Keys` are the sticks that
stood for one mode alone during the look (`ever`, `steady`), `Chosen` is the mode
from the decision on. A rehearsal does not show. Nothing is said of how: three
labels, the order of the selectors, the calls with their three outcomes and the
order of clear and publish are all below it.

### MqttSession

Per process, two clients with one client id (`mqtt_ha.py:93-96`): the presence
and whatever connection the selector has open. `link` is where each client
stands (`closed`, `retry`, `sent` between CONNECT and CONNACK, `open`), `wire`
what it has sent and the broker not handled, `session` which client the broker
has the session of, `online` the retained topic. `op`, `sent`, `done` are the
selector's read or write; `parting` is the false of `stop()`.

| code | actions |
|---|---|
| `start`, `stop` (`mqtt_ha.py:331-361`) | `StartPresence`, `PublishOffline`, `Disconnect`; only `start` sets a will (`WithWill`) |
| `_on_connect` (363-368) | in `Connack` |
| `_connection`, `_publish`, `_read_retained` (179-227) | `OpenSelector`, `SendOp`, `CloseSelector` |
| paho's loop threads | `Reconnect`, `Connack` |
| broker | `Accept` (takeover: the old connection is closed and its will published), `Handle`, `Expire` |
| network, deaths | `LinkLoss`, `Vanish` |

Taken from MQTT and paho, and assumed: a session taken over ends with its will;
packets of one connection arrive in order or not at all; a QoS 1 message without
its acknowledgement is sent again on the next connection, a subscription is not;
`loop_stop` leaves when all that was sent is confirmed or the connection is
gone. `_reason_is_failure` (a broker that refuses) is `LinkLoss` before
`Connack`: the callback returns and nothing is published.

### Controller

A process stands at `pc` in `main()`:

| `pc` | code (`main.py`) | actions |
|---|---|---|
| none | 146-154 | `Boot`, `ByHand`: the settings are `Accepted`, or it exits |
| mask | 98-143 | `EnforcePveGuestsMasked`, `MaskFails` |
| presence | 171-177 | `PresenceStart`, `PresenceFails` |
| resolve, ask, clear, publish | 182-195, `mode.py:154-210` | `ResolveLocally`, `AskBroker`, `Answered`, `OpenToWrite`, `Transmit`, `Written`, `WriteRaises`, `SelectorUnavailable`, `ResolveRaises` |
| work | 197-203, 225-232 | `Work`, `WorkFails`, `PoweroffFails` |
| after, hold | 205-208, 214-243 | `After`, `Sigterm` |
| stop, drain, exit | 209-211 | `StopPresence`, `Drain`, `Exit` |

What a mode does to the guests is one step with two outcomes; all that is kept
of it is `onboot`: some guest has the flag that `qmrestore` gave it and `qm set` did
not take back. A refresh quiets what it restores and nothing else, so a good one may
leave the flag of a guest that main does not offer any more (`RefreshLeaves`). How a mode is
chosen is `ModeResolution`; here any mode may come out, but each call to the
broker is a connection of its own, because that is what disturbs the presence.
`masked` and `power` are the node's. `Kill` stands for SIGKILL and for SIGTERM
where `_hold_until_signalled` has not installed its handlers yet; systemd stops
processes so before `PowerDown`. A process starts when the broker is done with the last
one of the same name (`Gone`): a process id does not come back that soon.
`spoilt` (some refresh failed or died) is never taken back. `exposed`, `spoilt`, `worked`, `asked`, `stopped`, `raced` are history only.

## 3. What TLC checks

| run | question | bounds | answer |
|---|---|---|---|
| `RefreshSolo` | what one run at a time may destroy, must report, when it powers off; does it implement `StandbySet` | 2 guests, 2 archives, 4 settings | holds, 127,000 states |
| `RefreshPair` | what survives two runs at once; does each step of a run make headway | 2 guests, 3 stamps, an earlier replication as initial state | holds, 92,000 states |
| `RefreshCalm` | does the node converge and stay so; is a poweroff ever too early; does each run end | 2 guests, 2 archives | holds, 101,000 states |
| `Modes` | which mode a boot may run in; what becomes of a request; does it implement `BootPromise` | 3 kinds of switch, 2 sticks at once, `LowerCase` | holds, 195,000 states |
| `Emergency` | is anything started too early; does all come up | 3 guests, all 1728 configs, 2 faults | holds, 1,087,000 states |
| `Controller` | what `online` tells, when guests start by themselves, how a process ends | 1 process at a time, 7 kinds of run | holds, 252,000 states |
| `RefreshTimeout` | does one bad archive stop the rest | as `RefreshSolo`, smaller | it does: finding 1 |
| `RefreshOrphans` | is a backed-up guest ever an orphan | as above | it is: finding 2 |
| `RefreshMount` | is the share there for the whole run | two processes | not with two: finding 3 |
| `ModesReset` | was every request that is reset acted on | MQTT | no: finding 4 |
| `ModesMarker` | does a bad marker give no opinion | one stick | not always: finding 5 |
| `ControllerBeside` | does `online` stay true beside a run by hand | two processes | no: finding 6 |

Why the bounds are enough. A refresh treats guests one after another in id
order, and its conditions compare one guest with the set selected or with the
fence: two guests give a first and a second, one inside and one outside the
fence, one selected and one orphaned. Two stamps give a newer archive after a
run read an older one. Faults, kills and power cuts are not bounded. The pair
run starts from a node that was replicated to, because destroying needs a past,
and reaching it from a fresh node with two processes is far larger; processes
are symmetric. In `Modes` nothing counts, so the state space is complete; more
than two sticks only repeat ambiguity. In `Emergency`, three guests give
a tie, a guest without an order and a middle one in every combination;
`MaxFaults = 2` allows a failure in a rerun after a failure, and turns "when
faults are over" into a state. `Controller` counts nothing either: boots, runs by
hand, broken connections, kills and power cuts are unbounded, and what is on the wire
is bounded by the code, which opens one connection of the selector at a time and
has one loop thread per client. One process at a time is the normal life of the node, and
`HeldMeansOnline` and `OnlineWhileHeld` hold only where no other process has a
presence (finding 6): the theorem about the first is for that case among any
number of processes, and the others of section 5 need no such condition. Its seven runs are the shipped settings, the same without a broker, with
a typo in the fence, in a rehearsal with and without `--exercise-selectors`, with
`--replicate-now`, and forced with `--no-shutdown`: each of the conditions of
`main()` on its settings is seen both ways.

Properties worth a note:

- `EmptyShareDestroysNothing` and `FenceHolds` say when a standby guest may be
  *lost* (gone or torn), whatever step does it: a destroy, a failed restore or
  the death of a process in the middle of one. They hold for two runs at once.
- `PowerOffMeansRefreshed` compares the machine, not the result object, with
  what the run wanted. It needs one run at a time: a second run can undo the
  first one's work.
- `HandMadeGuestsSurvive`, `DryRunChangesNothing`, `NoRollback` are checked for
  one run at a time; a second run started before an archive was written can
  restore the older one later.
- `NoStepInVain` has the faults and the other runs in it: whatever they do, a
  run cannot be sent back or made to try an archive twice. It is checked for two.
- `PoweroffMeansSync` and `SyncIsKept` are what the owner of a sleeping node can
  rely on. Unlike `PowerOffMeansRefreshed`, which measures a run by what it
  selected, they measure the node by the share: a run that selected too little
  would satisfy the one and not the others. They say nothing of runs that began before
  the quiet time, whose listing may be old.
- `RestResetsWhatItActedOn` is finding 4's claim for the other switch.
- `LabHonoured` and `NoRequestOverlooked` are for a Lab option that the switch
  recognises: one with a capital letter is never honoured over MQTT.
- `NoRequestOverlooked` and `BootLeavesNoneBehind` are what is safety in
  `LabHonoured` and `BootBringsAllUp`: not that a boot comes to its end, but that
  the end it comes to, in a quiet time and after the last fault, is not the wrong one.
- `ImplementsBootPromise` joins what the single properties of `ModeResolution` say
  of request, dongle, mode and status, and says that nothing else happens to them.
- `Convergence` starts from every state that faults can leave: torn guests,
  leftover mounts, half-done runs.
- `LabIsOneShot` allows a second Lab boot only after a failed call: a reset that
  failed is logged with "reset it by hand" (`mode.py:177-181`).
- `ImplementsStandbySet` says in one formula what the single properties of
  `Refresh` say piecewise: what may happen to a copy, and on what evidence.
- `ShadowNeedsTwoFaults` is about the last moment before the controller runs:
  pve-guests starts, unless masked, whatever has its onboot flag. It needs a mask
  lifted with no real run behind it, and a refresh that failed or died at any time
  before; a good refresh since then is no excuse for the flag being there.
- `OfflineWhenGone` makes an exception of `raced`: a `stop()` that publishes
  between CONNECT and CONNACK is followed by the callback's true, which stays.
- `OnlineWhileHeld` is liveness: the selector takes the session from the
  presence up to three times per boot, each time with a will that says false.
- `CleanExitMeansDone` and `ResidentUntilStopped` follow the exit status of a
  run through the days its process is held.

### Findings

1. `restore.py:75` catches `ProxmoxError` and `OSError`; a restore that runs into
   its timeout raises `subprocess.TimeoutExpired` and ends the refresh. With two
   tagged guests selected and the first one timing out, the second is never tried.
2. `backups.py:232` drops an unreadable archive without a trace; if another one
   was readable, the guest is destroyed as an orphan though it is backed up, and
   the run can report success. README.md:326-328 promises otherwise. Where no tagged
   archive is dropped, nothing condemns a guest that is backed up: theorem
   `OnlyUnreadableMakesOrphans`.
3. `nfs.py:54-57` reuses a mount that another run will take away. With one run
   at a time the mount stays: theorem `ShareHeld`.
4. `mqtt_ha.py:169-171` resets a Lab request nobody has acted on, if it was set
   after the topic was read. The REST switch does nothing of the kind: theorem
   `RestSafe`.
5. `dongle.py:102`: a marker that is not text raises `UnicodeDecodeError`, and
   the boot ends with nothing done, where the docstring promises no opinion.
6. `mqtt_ha.py:357`: all processes of a node share one `online` topic. A run by
   hand beside the resident unit leaves it at false, where README.md:287 says
   true while the node is up. With one presence at a time it is true: theorem
   `HeldSafe`.

Also seen, in the models, with no run of its own: output of `vma config` that is not UTF-8 raises `UnicodeDecodeError` at
`backups.py:190`, which line 197 does not catch, and ends the refresh, where
backups.py:152-153 says that any failure gives `None` (`ReadRaises`); a Lab option
with a capital letter never matches over MQTT (`mqtt_ha.py:121-122`); two runs that
both find the share unmounted both mount it (`nfs.py:54-61`);
with MQTT `online` flickers to false at each call of the selector
(`mqtt_ha.py:95`); a takeover between the connection and the publish of `clear()`
raises `RuntimeError` and ends the boot work (`WriteRaises`); one after the
subscription makes a Lab request look unset (`Answered`); the status of
`systemctl poweroff` is ignored (`replication.py:63`), after which the presence
is dropped on a node that is up (`PoweroffFails`); `presence.stop()` publishes
false where README.md:298-299 says the poweroff trips the will; a failed
run stays resident, so its unit becomes `failed` (README.md:249-251) only when it
is stopped; the settings are loaded before the mask is set, so a typo in them
leaves the mask as it is; a `--replicate-now --dry-run` mounts nothing and
previews nothing unless the share happens to be mounted. A will that comes late
from the process before a quick reboot would leave false under the new one's
true; the model leaves that out (`Gone`), because a node is slower to boot than
the 90 seconds of the keepalive.

## 4. Fairness

- `Progress`: weak fairness of each process's regular steps. Every step is
  local or a command; `qmrestore` and `vma config` have timeouts. `qm set`,
  `qm destroy`, `mount` and `umount` have none: that they return is an
  assumption about the tools.
- `RefreshCalm` adds weak fairness of `Wake` (wake-on-LAN, weekly), `PowerDown`
  (a poweroff that was asked for happens) and of starting a run: every
  wake-up starts the unit, and on a node left on, an operator comes to look,
  as replication.py:42-43 intends. No fairness on faults, people or main.
- `Modes`: weak fairness of the resolution (each call local or with a timeout),
  of boots and of shutting down.
- `Emergency`: weak fairness of the run and of powering the node on.
- `Controller`: weak fairness of each process (`Advance`: every wait in `main()`
  but the hold has a timeout) and of the network (`Online`: the broker handles
  what reaches it, the loop threads reconnect). No fairness on faults, people,
  boots or signals. `Settle` begins a quiet time, which need not come; the
  liveness property is about those behaviours in which it does.

## 5. What is proved

Everything in `RefreshProofs` and `PromiseProofs` holds for every set of guests in Nat, every set of processes,
every bound on stamps and every nonempty set of settings with `low <= high`
(the three assumptions of `Refresh`).

| theorem | says |
|---|---|
| `TypeCorrect` | `Spec => []TypeOK` |
| `AllAccountedFor` | `Spec => []EveryBackupAccountedFor` |
| `EmptyShareSafe` | `Spec => EmptyShareDestroysNothing` |
| `FenceSafe` | `Spec => FenceHolds` |
| `DryRunSafe` | `Spec => DryRunChangesNothing` |
| `NeverInVain` | `Spec => NoStepInVain` |
| `NonePassedOver` | `Spec /\ [][EachTaggedRead]_vars => []EveryTaggedAccountedFor` |
| `OnlyUnreadableMakesOrphans` | `Spec /\ [][EachTaggedRead]_vars => []OnlyUnbackedGuestsAreOrphans` |
| `ShareHeld` | `Alone /\ Spec => []ShareHeldWhileInUse` |
| `PowerOffSafe` | `Alone /\ Spec => PowerOffMeansRefreshed` |
| `PromiseKept` | `Alone /\ Spec => ImplementsStandbySet` |
| `NeverRolledBack` | `Alone /\ Spec => NoRollback` |
| `HandMadeSafe` | `Alone /\ Spec => HandMadeGuestsSurvive` |
| `CalmIsSpec` | `CalmSpec => Spec` |
| `StaysInSync` | `Alone /\ CalmSpec => SyncIsKept` |
| `PoweroffInSync` | `Alone`, every run removes orphans, and `CalmSpec` imply `PoweroffMeansSync` |

The argument has three inductive invariants.

`Bookkeeping` relates the locals of each run to one another: what it holds is
from one listing with one archive per guest (`Holdings`), what it condemned is
disjoint from what it wants and inside its fence (`Condemned`), and each
selected guest is exactly one of still to do, restored and failed (`Tally`).
None of the checked properties is inductive alone: that no guest is recorded
twice, for instance, needs that `todo` has one archive per guest, which needs
that stamps are unique on the share (`StampsUnique`). `EmptyShareSafe` and
`FenceSafe` then go over the actions once to see that whatever is lost was in
the hands of a command (`LostInFlight`) and that a command only handles what
the run selected or condemned (`InFlightAllowed`).

`Orderly` adds `InHand`, which relates a run to the machine: mounted while
busy, guests it restored still as it left them, orphans gone. It holds only if
nobody else works on the machine, so its theorems carry `Alone`: there is
at most one process. The code enforces nothing of the kind; `RefreshMount`
shows `ShareHeldWhileInUse` failing without it. Backups, pruning, hand-made
guests, faults, kills and power cuts are all still there under `Alone`.

`Sound` adds `Newest`: no disk is newer than the latest archive of its guest on
the share, nor than one in the listing of a run. `PromiseKept` is a
step simulation: the initial state maps to one of `StandbySet`, and each action of
`Refresh` to `Renew`, `Lose`, `Offer`, `Withdraw`, `MakeByHand` or a stutter.
That a step is `Renew` needs `Newest` (not older) and `Holdings` (on offer);
that one is `Lose` needs what `EmptyShareSafe` and `FenceSafe` rest on.
`NeverRolledBack` and `HandMadeSafe` use the same invariant.

`NeverInVain` is the half of `RunEnds` that needs no fairness. Stages only go up,
`todo` and `orphans` only shrink within one (`Nearer`), and both are finite where
`VMID` is; so a run ends as soon as its steps are taken.

`OnlyUnreadableMakesOrphans` and `NonePassedOver` have a second hypothesis, which is
about steps: no tagged archive is dropped when its turn comes (`EachTaggedRead`).
All other faults, kills and runs are still there. Then a run that is past the
reading has selected all that it saw tagged (`Selects`), so that by `Condemned` none
of these is an orphan, and by `Tally` each of them is named as restored or failed
when a run ends without an exception (`EveryTaggedAccountedFor`, which unlike
`EveryBackupAccountedFor` speaks of what is on the share). Without the hypothesis
the run `RefreshOrphans` shows the first one failing.

The quiet time has two more invariants over `Orderly`. `Complete` says that a
run which has listed the share has selected, or has yet to read, just what main
keeps under the tag: true of every run that began in the quiet time, since the
share does not change, every archive is read, and with `ShareHeld` is there to be
read. `Halting` says that by the time the node goes down no run is in the middle of
anything, so that the poweroff tears no guest. With them, `Steady` (in sync, and
staying so: what a run destroys main does not have, and what it restores is what
is there) is kept from the first moment of rest in sync, and `Truthful` (going
down only in sync) from the first moment of rest at all: at the verdict `Tally`
makes every guest selected a restored one, `InHand` makes it as main has it and
leaves no orphan, and `Complete` makes the selection main's own.
`PoweroffInSync` needs that runs remove orphans; one that is told not to leaves
them and powers off. What `Convergence` needs besides is the fairness that brings a
node to rest and a run to its verdict, which is why that one stays with TLC.

`ControllerProofs` holds for every set of processes and every nonempty set of
runs that `RunsAssumption` allows, without `Alone`:

| theorem | says |
|---|---|
| `ShadowSafe` | `Spec => ShadowNeedsTwoFaults` |
| `CleanExitSafe` | `Spec => CleanExitMeansDone` |
| `ResidentSafe` | `Spec => ResidentUntilStopped` |

`ShadowSafe` rests on `Guarded`: an unmasked unit was exposed, a guest with the
flag comes from a refresh that failed or died, be it of a second process, and
however many good ones came after it. The others rest on `InOrder` and `Accounted`,
which say for each place in `main()` what a process that got there has behind
it, for instance that rc 0 after the work means the work ended well.

`PresenceProofs` goes on from there to the broker, again for every set of
processes:

| theorem | says |
|---|---|
| `VouchedInvariant` | `Spec => [](Vouched /\ InOrder)` |
| `OfflineSafe` | `Spec => []OfflineWhenGone` |
| `DryRunQuiet` | `Spec => []DryRunSendsNothing` |
| `TypeCorrect` | `Spec => []TypeOK` |

`OfflineWhenGone` says nothing until all is over, so its invariant has to say
what of `online` is still to be taken back. `Vouched` does: while `online` is
true the broker holds, for some process, a session of its presence that ends in
a false, by the will or by a word under way (`Claims`). To keep that, one has to
know what can be under way: an unraced presence has one of six things on its wire,
according to where its client and its process stand (`Words`), and a client
only speaks to a broker that knows it or will before it hears (`Fit`). `Stage`
and `Silent` say from where to where in `main()` there is a presence, and what
the selector may say. `MqttProofs` has what each step of the connections
changes, and what `Head`, `Tail`, `\o` and `Later` do to packets.

`ModeProofs` holds for every set of kinds of switch, either kind of Lab option, any
number of sticks, and however often they are swapped:

| theorem | says |
|---|---|
| `TypeCorrect` | `Spec => []TypeOK` |
| `StatusTold` | `Spec => []StatusTellsTheMode` |
| `EmergencySafe` | `Spec => EmergencyNeedsItsDongle` |
| `OneShot` | `Spec => LabIsOneShot` |
| `RehearsalSafe` | `Spec => RehearsalWritesNothing` |
| `PromiseKept` | `Spec => ImplementsBootPromise` |
| `RestSafe` | `Spec => RestResetsWhatItActedOn` |
| `CalmIsSpec` | `CalmSpec => Spec` |
| `NothingOverlooked` | `CalmSpec => NoRequestOverlooked` |

All rest on `ResolvedInvariant`: a dongle found was in at some time of the look
and one that was in all that time is found (`Seen`), a request still pending
when its boot is decided means that a call failed (`Consumed`), a rehearsal
never comes to where the code writes (`Rehearsed`), and the status is the mode
from its publication on (`Told`).

`PromiseKept` goes over the actions once more: each is a step of `BootPromise` or
leaves its variables alone. `Decide` is where the two meet: what decides is a
dongle whose mode is among the keys, a request for Lab that was read and still
stands, or nothing, and then the mode is Replication (`Chooses`,
`KeyOfOpinion`). That `End` may let go of a boot needs `Consumed` and
`Told`. `NothingOverlooked` adds to them what a boot of the quiet time has seen
(`Attentive`): no dongle, and no request where it decided for Replication.

`HeldProofs` is about the one invariant of `Controller` that needs a condition
(finding 6):

| theorem | says |
|---|---|
| `HeardInvariant` | `Spec /\ []OnePresence => [](\A p \in Proc : Heard(p))` |
| `HeldSafe` | `Spec /\ []OnePresence => []HeldMeansOnline` |
| `HeldSafeAlone` | one process at a time and `Spec` imply `[]HeldMeansOnline` |

`OnePresence` says that only one process at a time has a presence or has left one
with the broker; runs by hand without one may come and go beside it.
`HeldMeansOnline` alone says nothing of the connections between which the
callback has yet to be heard. `Heard` does, for each place the client stands at:
nothing on the wire before it connects, CONNECT until CONNACK, one true after it,
and once the wire is empty `online` is true. That no false of an earlier process
is still under way is what `OnePresence` gives; that the wills of the takeovers
by the selector come before the true that follows them is in the order of the
wire.

`EmergencyProofs` holds for every finite set of integer guest ids, any orders,
any set of delays with a longest one, and any number of faults:

| theorem | says |
|---|---|
| `TypeCorrect` | `Spec => []TypeOK` |
| `AllStarted` | `Spec => []DoneMeansAllStarted` |
| `OrderKept` | `Spec => DependenciesFirst` |
| `NoneLeftBehind` | `Spec => BootLeavesNoneBehind` |

`BringsInvariant` relates the plan, the place in it and what runs: all before
that place was started and has had its delay. That there is a plan at all, one
sequence of all standby guests in the order of their keys, is `PlanExists`: put
each guest at the place given by how many come before it (`BeforeIsTotal`).
`NoneLeftBehind` rests on `Rising`: from a power-on after the last fault, what runs
is just what the plan has up to the guest at hand, so that no start meets a guest
that runs already, until all of them do.

Only model-checked: all liveness (`Convergence`, `RunEnds`, `LabHonoured`,
`BootBringsAllUp`, `OnlineWhileHeld`), which is outside TLAPS. Proved only, and not
checked by a run: the two theorems with a hypothesis about steps, since a
configuration has no place for one; and `HeldSafe`, which the run checks as
`HeldSafeAlone`.

## 6. Plan

Done: `Refresh` with its calm variant, its abstract specification and the proof
that it implements it; `ModeResolution` with the same; `Emergency` with proofs;
`MqttSession` and `Controller` with proofs, `HeldMeansOnline` among them.

Left, in this order:

1. What is left of `HandMadeGuestsSurvive` and `NoRollback` with two runs at once.
2. What of `OnlineWhileHeld` needs no fairness: that a presence that holds the
   session has a true on its way.
3. Pure functions against a reference: startup-line parsing, archive names.

## 7. Not modelled

Argument parsing, logging, the JSON of the settings and the Home Assistant discovery
payload are data. Lab mode changes nothing. Guests do not run in `Refresh`; that
`qmrestore` refuses a running guest is one of its failures. `TimeoutStopSec` is
`Kill` in `Controller`. The decompressor pipe of
`backups.py:159-185` is one outcome, readable or not. `vzdump` and retention on
main, qm, mount, the broker and Home Assistant are modelled from how the code
uses them and marked external in `PROJECT.json`.

## 8. Running

    tlc -workers 2 -config RefreshSolo.cfg MCRefresh
    tlapm RefreshProofs.tla
    tlapm PromiseProofs.tla
    tlapm ControllerProofs.tla
    tlapm MqttProofs.tla
    tlapm PresenceProofs.tla
    tlapm HeldProofs.tla
    tlapm ModeProofs.tla
    tlapm EmergencyProofs.tla

The module of each run is in `PROJECT.json` under `runs`.
