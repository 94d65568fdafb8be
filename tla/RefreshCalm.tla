----------------------------- MODULE RefreshCalm -----------------------------
(***************************************************************************)
(* Refresh with a last quiet time: from some moment on main's backups stay *)
(* as they are, no tool fails, nothing is killed and the power holds.  What *)
(* the weekly wake-ups then make of the node, whatever state the faults and *)
(* the half-done runs before left it in.                                   *)
(***************************************************************************)
EXTENDS Refresh

VARIABLE calm   \* the quiet time has begun

CalmInit == Init /\ calm = FALSE

Settle ==
  /\ ~calm
  /\ calm' = TRUE
  /\ UNCHANGED vars

CalmNext ==
  \/ /\ (\E p \in Proc : Advance(p)) \/ Schedule
     /\ UNCHANGED calm
  \/ /\ ~calm
     /\ (\E p \in Proc : Fault(p)) \/ Around
     /\ UNCHANGED calm
  \/ Settle

\* Runs go on, the node is woken (or a run started by hand when it stayed on)
\* week after week, and a poweroff asked for is carried out.
CalmFairness ==
  /\ Progress
  /\ WF_vars(Wake)
  /\ WF_vars(PowerDown)
  /\ \A p \in Proc : WF_vars(\E c \in Configs : Begin(p, c))

CalmSpec == CalmInit /\ [][CalmNext]_<<vars, calm>> /\ CalmFairness

\* Main keeps at least one guest on standby.
SomeBackup == \E a \in Latest(share) : a.tagged

\* The standby guests of the node are those main backs up under the tag, each
\* as of its latest archive; tagged guests outside the fence are left alone.
InSync ==
  /\ \A a \in Latest(share) : a.tagged =>
       guest[a.vmid].conf = "standby" /\ guest[a.vmid].disk = a.taken
  /\ \A v \in VMID : guest[v].conf = "standby" =>
       \/ \E a \in Latest(share) : a.vmid = v /\ a.tagged
       \/ \E c \in Configs : ~InFence(c, v)

\* Each replication run makes the local standby set exactly match the current
\* backups (README, Orphan cleanup): once things are quiet the node comes to
\* match main's backups and stays so, if there are any.
Convergence == calm /\ SomeBackup ~> [](calm => InSync)

\* A node that puts itself to sleep in a quiet time, after a run that began in it,
\* has everything as main has it: the poweroff that tells the owner all is well is
\* never one too early (replication.py:41-63).
PoweroffMeansSync ==
  [](calm /\ power # "stopping" /\ (\A p \in Proc : pc[p] = "idle")
       => [](power = "stopping" => InSync))

\* A node that is in sync when it rests is so at every moment from then on: the
\* weekly runs go over all of it again and nothing is ever missing or older,
\* not in the middle of a run and not through the poweroff after it.
SyncIsKept == [](calm /\ InSync /\ (\A p \in Proc : pc[p] = "idle") => []InSync)
=============================================================================
