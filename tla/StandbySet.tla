----------------------------- MODULE StandbySet -----------------------------
(***************************************************************************)
(* What the weekly refresh promises whoever starts the standby guests in an *)
(* emergency, with nothing said of how: the local copies are replaced one   *)
(* at a time by states of main that are on offer and never older, are lost  *)
(* only while something is on offer, and guests without the standby tag are *)
(* left alone unless main offers one of the same id.                        *)
(***************************************************************************)
EXTENDS Integers

CONSTANTS VMID, Archive

VARIABLES
  offered,   \* tagged archives a run may restore
  copy       \* each local guest: its tag and the stamp its disk is from

Copy == [conf : {"none", "other", "standby"}, disk : Int]

NoCopy == [conf |-> "none", disk |-> -1]
HandMade == [conf |-> "other", disk |-> 0]
TornCopy == [conf |-> "standby", disk |-> -1]
CopyOf(a) == [conf |-> "standby", disk |-> a.taken]

Init ==
  /\ offered = {}
  /\ copy = [v \in VMID |-> NoCopy]

\* Main makes a new archive, newer than anything there is.
Offer(a) ==
  /\ \A b \in offered : b.taken < a.taken
  /\ \A v \in VMID : copy[v].disk < a.taken
  /\ offered' = offered \cup {a}
  /\ UNCHANGED copy

\* Archives are pruned or deleted, or the run that held them is over.
Withdraw == offered' \subseteq offered /\ UNCHANGED copy

Renew(a) ==
  /\ a \in offered
  /\ copy[a.vmid].disk <= a.taken
  /\ copy' = [copy EXCEPT ![a.vmid] = CopyOf(a)]
  /\ UNCHANGED offered

\* An orphan is destroyed, or a command fails or dies half-way.
Lose(v) ==
  /\ offered # {}
  /\ copy[v].conf = "standby" \/ \E a \in offered : a.vmid = v
  /\ \E c \in {NoCopy, TornCopy} : copy' = [copy EXCEPT ![v] = c]
  /\ offered' \subseteq offered

MakeByHand(v) ==
  /\ copy[v] = NoCopy
  /\ copy' = [copy EXCEPT ![v] = HandMade]
  /\ UNCHANGED offered

Next ==
  \/ \E a \in Archive : Offer(a) \/ Renew(a)
  \/ Withdraw
  \/ \E v \in VMID : Lose(v) \/ MakeByHand(v)

Spec == Init /\ [][Next]_<<offered, copy>>
=============================================================================
