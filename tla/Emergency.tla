----------------------------- MODULE Emergency -----------------------------
(***************************************************************************)
(* Emergency mode: coldstandby/emergency.py and the start order of         *)
(* coldstandby/proxmox.py.  The run lists the standby guests on local disk, *)
(* sorts them by their startup= line and starts them one at a time, each    *)
(* after the up delay of the one before.  Starts fail, guests stop, the run *)
(* is killed and started again by hand, the power goes and comes back.      *)
(***************************************************************************)
EXTENDS Integers, FiniteSets, SequencesExt

CONSTANTS
  VMID,      \* guest ids
  Orders,    \* explicit values of order= in a startup line
  Ups,       \* explicit values of up= in a startup line
  Default,   \* cfg.default_up_delay_seconds
  Unset,     \* None, for an order or an up delay that is not given
  MaxFaults  \* bound: how many faults there are in all

\* Guests are finitely many, and one of the up delays is the longest.
ASSUME StartupAssumption ==
  /\ VMID \subseteq Int /\ IsFiniteSet(VMID)
  /\ Orders \subseteq Int /\ Ups \subseteq Int /\ Default \in Int
  /\ Unset \in Int \ (Orders \cup Ups)
  /\ \E longest \in Ups \cup {Default} : \A up \in Ups : up <= longest
  /\ MaxFaults \in Nat

VARIABLES
  conf,     \* config of each guest on local disk: the tag and the startup line
  running,  \* guests that run
  pc,       \* "off", where the run stands, or how it ended
  dry,      \* --dry-run
  plan,     \* what ordered_standby_vms returned
  at,       \* index in plan of the guest at hand
  slept,    \* seconds slept since its start
  faults,   \* how many faults there were
  (* history *)
  age       \* seconds since this power-on in which each guest was started, or Never

vars == <<conf, running, pc, dry, plan, at, slept, faults, age>>

Never == -1
Delay(v) == IF conf[v].up # Unset THEN conf[v].up ELSE Default
Ages == Never..Max(Ups \cup {Default, 0})

Conf == [standby : BOOLEAN, order : Orders \cup {Unset}, up : Ups \cup {Unset}]

TypeOK ==
  /\ conf \in [VMID -> Conf]
  /\ running \subseteq VMID
  /\ pc \in {"off", "list", "start", "wait", "done", "failed"}
  /\ dry \in BOOLEAN
  /\ plan \in Seq(VMID)
  /\ at \in 1..(Cardinality(VMID) + 1)
  /\ slept \in Ages
  /\ faults \in 0..MaxFaults
  /\ age \in [VMID -> Ages]

NoneStarted == [v \in VMID |-> Never]

Init ==
  /\ conf \in [VMID -> Conf]
  /\ running = {}
  /\ pc = "off"
  /\ dry = FALSE
  /\ plan = <<>> /\ at = 1 /\ slept = 0
  /\ faults = 0
  /\ age = NoneStarted

Standby == {v \in VMID : conf[v].standby}

\* Mutant: order=0 is falsy, and sorts as if unset.
SortKeyFalsy(v) == IF conf[v].order \in {Unset, 0} THEN <<1, 0, v>> ELSE <<0, conf[v].order, v>>

\* StartupSpec.sort_key, then the id.
SortKey(v) == IF conf[v].order = Unset THEN <<1, 0, v>> ELSE <<0, conf[v].order, v>>

\* Tuples compare at the first component in which they differ.
KeyLess(k, l) == \E i \in 1..3 : k[i] < l[i] /\ \A j \in 1..(i - 1) : k[j] = l[j]

Ascending(s) == \A i, j \in 1..Len(s) : i < j => KeyLess(SortKey(s[i]), SortKey(s[j]))

OrderedStandbyVMs == CHOOSE s \in SetToSeqs(Standby) : Ascending(s)

-----------------------------------------------------------------------------
(* The run. *)

\* The dongle is in: every boot resolves to Emergency.
Boot ==
  /\ pc = "off"
  /\ pc' = "list"
  /\ dry' = FALSE
  /\ UNCHANGED <<conf, running, plan, at, slept, faults, age>>

\* --force-mode emergency by hand, on a node whose run has ended.
Rerun(rehearsal) ==
  /\ pc \in {"done", "failed"}
  /\ pc' = "list"
  /\ dry' = rehearsal
  /\ UNCHANGED <<conf, running, plan, at, slept, faults, age>>

\* No standby guest at all is a failure.
List ==
  /\ pc = "list"
  /\ plan' = OrderedStandbyVMs
  /\ at' = 1
  /\ pc' = IF Standby = {} THEN "failed" ELSE "start"
  /\ UNCHANGED <<conf, running, dry, slept, faults, age>>

\* Mutant: the last guest is taken to be one earlier.
AfterStartEarly == IF at >= Len(plan) - 1 THEN "done" ELSE "wait"

AfterStart == IF at = Len(plan) THEN "done" ELSE "wait"

StartDry ==
  /\ pc = "start"
  /\ dry
  /\ pc' = AfterStart
  /\ slept' = 0
  /\ UNCHANGED <<conf, running, dry, plan, at, faults, age>>

\* qm start takes a guest that is there and does not run yet.
StartVM ==
  /\ pc = "start"
  /\ ~dry
  /\ plan[at] \in Standby \ running
  /\ running' = running \cup {plan[at]}
  /\ age' = [age EXCEPT ![plan[at]] = 0]
  /\ pc' = AfterStart
  /\ slept' = 0
  /\ UNCHANGED <<conf, dry, plan, at, faults>>

\* With one that runs, or is gone since the listing, it fails, and so does the run.
NotStartable ==
  /\ pc = "start"
  /\ ~dry
  /\ plan[at] \in running \/ plan[at] \notin Standby
  /\ pc' = "failed"
  /\ UNCHANGED <<conf, running, dry, plan, at, slept, faults, age>>

\* Mutant: one second too long.
SleepOffByOne ==
  /\ pc = "wait"
  /\ ~dry
  /\ slept <= Delay(plan[at])
  /\ slept' = slept + 1
  /\ age' = [v \in VMID |-> IF age[v] \in {Never, Max(Ages)} THEN age[v] ELSE age[v] + 1]
  /\ UNCHANGED <<conf, running, pc, dry, plan, at, faults>>

Sleep ==
  /\ pc = "wait"
  /\ ~dry
  /\ slept < Delay(plan[at])
  /\ slept' = slept + 1
  /\ age' = [v \in VMID |-> IF age[v] \in {Never, Max(Ages)} THEN age[v] ELSE age[v] + 1]
  /\ UNCHANGED <<conf, running, pc, dry, plan, at, faults>>

\* Mutant: the pause is the one of the guest that comes next.
NextGuestAfterItsOwnDelay ==
  /\ pc = "wait"
  /\ dry \/ slept >= Delay(plan[at + 1])
  /\ at' = at + 1
  /\ pc' = "start"
  /\ UNCHANGED <<conf, running, dry, plan, slept, faults, age>>

NextGuest ==
  /\ pc = "wait"
  /\ dry \/ slept >= Delay(plan[at])
  /\ at' = at + 1
  /\ pc' = "start"
  /\ UNCHANGED <<conf, running, dry, plan, slept, faults, age>>

Advance == List \/ StartDry \/ StartVM \/ NotStartable \/ Sleep \/ NextGuest

-----------------------------------------------------------------------------
(* What goes wrong. *)

Fault == faults < MaxFaults /\ faults' = faults + 1

\* Mutant: a guest that does not start is passed over.
StartFailsPassedOver ==
  /\ Fault
  /\ pc = "start" /\ ~dry
  /\ pc' = AfterStart
  /\ slept' = 0
  /\ UNCHANGED <<conf, running, dry, plan, at, age>>

\* A torn disk, no memory, no config any more: no later guest is started.
StartFails ==
  /\ Fault
  /\ pc = "start" /\ ~dry
  /\ pc' = "failed"
  /\ UNCHANGED <<conf, running, dry, plan, at, slept, age>>

GuestStops(v) ==
  /\ Fault
  /\ v \in running
  /\ running' = running \ {v}
  /\ UNCHANGED <<conf, pc, dry, plan, at, slept, age>>

\* --replicate-now on this node finds that main has no guest v any more: it is
\* stopped if it runs, and destroyed. What remains of conf[v] is what the run
\* read before.
DestroyOrphan(v) ==
  /\ Fault
  /\ pc # "off"
  /\ conf[v].standby
  /\ running' = running \ {v}
  /\ conf' = [conf EXCEPT ![v].standby = FALSE]
  /\ UNCHANGED <<pc, dry, plan, at, slept, age>>

\* The run is killed; the guests it started go on running.
Kill ==
  /\ Fault
  /\ pc \in {"list", "start", "wait"}
  /\ pc' = "failed"
  /\ UNCHANGED <<conf, running, dry, plan, at, slept, age>>

\* pve-guests is masked: after a power cut no guest starts by itself.
PowerCut ==
  /\ Fault
  /\ pc # "off"
  /\ pc' = "off"
  /\ running' = {}
  /\ age' = NoneStarted
  /\ UNCHANGED <<conf, dry, plan, at, slept>>

Next ==
  \/ Advance
  \/ Boot \/ \E rehearsal \in BOOLEAN : Rerun(rehearsal)
  \/ StartFails \/ Kill \/ PowerCut
  \/ \E v \in VMID : GuestStops(v) \/ DestroyOrphan(v)

\* A run goes on: qm start returns and a sleep ends; the node is powered on.
Spec == Init /\ [][Next]_vars /\ WF_vars(Advance) /\ WF_vars(Boot)

-----------------------------------------------------------------------------
(* Properties. *)

\* The rule for the order, said without the sort: guests with an order before
\* guests without, lower orders first, among equals the lower id.
Before(u, v) ==
  \/ conf[u].order # Unset /\ conf[v].order = Unset
  \/ /\ conf[u].order # Unset /\ conf[v].order # Unset
     /\ conf[u].order < conf[v].order
  \/ conf[u].order = conf[v].order /\ u < v

\* A guest is started only when every standby guest before it was started since
\* power-on and has had its up delay, over failed starts, guests that stop,
\* killed runs and reruns: what it depends on had its time to come up
\* (emergency.py:7-12, proxmox.py:193-197).
DependenciesFirst ==
  [][\A v \in running' \ running : \A u \in Standby :
       Before(u, v) => age[u] # Never /\ age[u] >= Delay(u)]_vars

\* A run that ends well leaves no standby guest behind: each was started since
\* power-on, and only standby guests ever are (emergency.py:52-60).
DoneMeansAllStarted ==
  /\ running \subseteq Standby
  /\ pc = "done" /\ ~dry => \A v \in Standby : age[v] # Never

\* When the faults are over, the next power-on brings up the whole standby set.
BootBringsAllUp == pc = "off" /\ faults = MaxFaults ~> Standby \subseteq running

\* After such a power-on no run ends, well or not, with a standby guest down: the
\* boot run fails at none, and what a rerun then fails at is a guest that runs
\* (emergency.py:52-60, proxmox.py:193-213).
BootLeavesNoneBehind ==
  [](pc = "off" /\ faults = MaxFaults
       => [](pc \in {"done", "failed"} => Standby \subseteq running))
=============================================================================
