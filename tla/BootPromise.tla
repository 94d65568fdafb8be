----------------------------- MODULE BootPromise -----------------------------
(***************************************************************************)
(* What the choice of a boot mode promises the owner of the Lab switch and  *)
(* the operator with the dongles, with nothing said of how it is made: no   *)
(* Emergency but by its dongle, no Lab that nobody asked for, a request     *)
(* that is good for one boot, a status that tells the mode.  Rehearsals do  *)
(* not show in it.                                                         *)
(***************************************************************************)

Mode == {"emergency", "lab", "replication"}

VARIABLES
  switch,  \* there is an online switch at all; never changes
  ask,     \* the Lab request: "none", "open", or "held" by the boot under way
  keys,    \* modes a dongle that was in for the look may speak for
  boot,    \* the mode of the boot under way, "none" before it is decided
  shown,   \* the mode of the last boot as the switch shows it
  failed   \* something between this boot and the switch went wrong

promise == <<switch, ask, keys, boot, shown, failed>>

Init ==
  /\ switch \in BOOLEAN
  /\ ask = "none" /\ keys = {}
  /\ boot = "none" /\ shown = "none" /\ failed = FALSE

\* The owner asks for Lab, again, or no more.
Ask ==
  /\ switch
  /\ ask' \in {"none", "open"}
  /\ UNCHANGED <<switch, keys, boot, shown, failed>>

\* Dongles come and go.
Plug ==
  /\ keys' \subseteq Mode
  /\ UNCHANGED <<switch, ask, boot, shown, failed>>

Begin ==
  /\ boot = "none"
  /\ failed' = FALSE
  /\ keys' \subseteq Mode
  /\ UNCHANGED <<switch, ask, boot, shown>>

\* The switch cannot be read, and nothing comes of this boot.
Fail ==
  /\ failed' = TRUE
  /\ UNCHANGED <<switch, ask, keys, boot, shown>>

\* A dongle speaks for the mode, or a request for Lab is taken in hand, or nobody
\* has asked for anything.
Decide(m) ==
  /\ boot = "none" /\ boot' = m
  /\ \/ m \in keys /\ UNCHANGED <<ask, failed>>
     \/ m = "lab" /\ ask # "none" /\ ask' = "held" /\ UNCHANGED failed
     \/ m = "replication" /\ UNCHANGED ask /\ failed' \in {failed, TRUE}
  /\ keys' = {}
  /\ UNCHANGED <<switch, shown>>

\* A decided boot, and none before, takes the request back and reports itself.
Write ==
  /\ boot # "none"
  /\ ask' \in {ask, "none"}
  /\ shown' \in {shown, boot}
  /\ failed' \in {failed, TRUE}
  /\ UNCHANGED <<switch, keys, boot>>

\* The boot has run in its mode.  What it held it has taken back, what it was it
\* has reported, unless something went wrong.
End ==
  /\ boot # "none" /\ boot' = "none"
  /\ ask = "held" => failed
  /\ switch => shown = boot \/ failed
  /\ ask' = IF ask = "held" THEN "open" ELSE ask
  /\ UNCHANGED <<switch, keys, shown, failed>>

\* The boot comes to nothing before it has run: the power goes, or an exception.
Drop ==
  /\ boot # "none" /\ boot' = "none"
  /\ \/ ask' = "none" /\ failed'
     \/ ask' = IF ask = "held" THEN "open" ELSE ask
  /\ failed' \in {failed, TRUE}
  /\ UNCHANGED <<switch, keys, shown>>

Next ==
  \/ Ask \/ Plug \/ Begin \/ Fail
  \/ \E m \in Mode : Decide(m)
  \/ Write \/ End \/ Drop

Spec == Init /\ [][Next]_promise
=============================================================================
