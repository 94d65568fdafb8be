----------------------------- MODULE MCRefresh ------------------------------
(* Instances of Refresh for TLC. *)
EXTENDS Refresh, TLC

Setting(remove, fence, dry, off) ==
  [remove_orphans |-> remove, fenced |-> fence, low |-> 1, high |-> 1,
   dry_run |-> dry, may_power_off |-> off]

\* The boot run as shipped, with a fence that leaves guest 2 outside, without
\* the fence, and a rehearsal.
SoloConfigs == {Setting(TRUE, TRUE, FALSE, TRUE),
                Setting(TRUE, FALSE, FALSE, TRUE),
                Setting(TRUE, FALSE, TRUE, TRUE)}

\* A boot run and an operator's run, which never powers off, with cleanup or
\* without.
PairConfigs == {Setting(TRUE, TRUE, FALSE, TRUE), Setting(FALSE, FALSE, FALSE, FALSE)}

\* A later moment in the life of a node: both guests were replicated, then
\* guest 2 was deleted on main and guest 1 backed up again.
LaterInit ==
  /\ share = {[vmid |-> 1, taken |-> 3, tagged |-> TRUE]}
  /\ clock = 3
  /\ guest = [v \in VMID |-> [conf |-> "standby", disk |-> v, onboot |-> FALSE]]
  /\ mounted = 0
  /\ power = "on"
  /\ NoRun

LaterSpec == LaterInit /\ [][Next]_vars

\* Refresh treats its processes alike.
ProcSymmetry == Permutations(Proc)
=============================================================================
