--------------------------- MODULE ModeResolution ---------------------------
(***************************************************************************)
(* Which mode a boot runs in: determine_mode of coldstandby/mode.py over   *)
(* the selectors of coldstandby/selectors (the USB dongle, then the MQTT   *)
(* or REST switch), as main() calls it, boot after boot.                   *)
(*                                                                         *)
(* Around the resolution the operator plugs dongles in and out, the owner  *)
(* sets and withdraws the Lab request in Home Assistant, the broker or the *)
(* REST endpoint is slow, gone or half-answers, and the node goes down.    *)
(***************************************************************************)
EXTENDS Naturals, FiniteSets, Sequences

CONSTANTS
  Kinds,      \* which online selectors may be configured, of "mqtt", "rest", "none"
  LowerCase,  \* cfg.ha_lab_option has no capital letter, as in the shipped settings
  MaxPlugged  \* bound: how many mode dongles are plugged in at once

ASSUME KindsAssumption == Kinds \subseteq {"mqtt", "rest", "none"}
ASSUME LowerCaseAssumption == LowerCase \in BOOLEAN

Mode == {"emergency", "lab", "replication"}

\* The labels in the order they are looked for.
Labels == <<"emergency", "lab", "replication">>

\* What the device with a mode's label amounts to: nothing (no device or two of
\* them, no marker, a wrong token, a mount that fails), the right token, or a
\* marker file that is not text.
Slot == {"nothing", "valid", "garbled"}

VARIABLES
  online,     \* the online selector of this node's configuration
  dongles,    \* what is plugged in, by mode
  request,    \* the retained next_boot_mode, or the REST input_select
  status,     \* last_boot_mode as published, "none" before the first boot
  pc,         \* where the controller stands
  dry,        \* --dry-run, without --exercise-selectors
  mode,       \* the mode decided, "none" until then
  matched,    \* modes whose valid dongle was found in this boot
  looking,    \* index of the label looked for next
  (* history, read by no action of the code *)
  ever,       \* modes whose valid dongle was in at some time of the look
  steady,     \* modes whose valid dongle was in all that time
  unanswered, \* the request is the one this boot read, not overwritten since
  trouble,    \* a call to the online side failed in this boot
  stale       \* the pending request was acted on by an earlier boot

look == <<matched, looking, ever, steady>>
history == <<unanswered, trouble, stale>>
vars == <<online, dongles, request, status, pc, dry, mode, look, history>>

Running == {"dongle", "online", "clear", "publish", "reset"}

TypeOK ==
  /\ online \in Kinds
  /\ dongles \in [Mode -> Slot]
  /\ request \in Mode
  /\ status \in Mode \cup {"none"}
  /\ pc \in Running \cup {"off", "decided", "aborted"}
  /\ dry \in BOOLEAN
  /\ mode \in Mode \cup {"none"}
  /\ matched \subseteq Mode
  /\ looking \in 1..(Len(Labels) + 1)
  /\ ever \subseteq Mode
  /\ steady \subseteq Mode
  /\ unanswered \in BOOLEAN
  /\ trouble \in BOOLEAN
  /\ stale \in BOOLEAN

NoLook == matched = {} /\ looking = 1 /\ ever = {} /\ steady = {}

Init ==
  /\ online \in Kinds
  /\ dongles = [m \in Mode |-> "nothing"]
  /\ request = "replication"
  /\ status = "none"
  /\ pc = "off"
  /\ dry = FALSE
  /\ mode = "none"
  /\ NoLook
  /\ unanswered = FALSE /\ trouble = FALSE /\ stale = FALSE

-----------------------------------------------------------------------------
(* The selectors. *)

Valid(plugged) == {m \in Mode : plugged[m] = "valid"}

\* Mutant: the first of several dongles wins.
DongleOpinionFirst(M) == IF "emergency" \in M THEN "emergency" ELSE
                         IF M = {} THEN "none" ELSE CHOOSE m \in M : TRUE

\* Exactly one mode matched, or no opinion.
DongleOpinion(M) == IF Cardinality(M) = 1 THEN CHOOSE m \in M : TRUE ELSE "none"

\* The MQTT selector lowers what it reads and compares it with the option as it is
\* configured; the REST selector compares both as they are.
Recognised == LowerCase \/ online # "mqtt"

\* Mutant: the value is handed on as a mode.
OnlineOpinionVerbatim(value) == IF value = "replication" THEN "none" ELSE value

\* The online side can ask for Lab and for nothing else: "emergency" stands for
\* every text that is not one of the two options.
OnlineOpinion(value) == IF value = "lab" /\ Recognised THEN "lab" ELSE "none"

\* How a call to the online side fails: nothing within the timeout (MQTT takes
\* that for an empty topic); ModeSelectorUnavailable; or an exception that is
\* not one (a broken HTTP answer, an unusable CA file).
Failures == {"silent", "unavailable", "raises"}

-----------------------------------------------------------------------------
(* The resolution. *)

EndLook == matched' = {} /\ looking' = 1 /\ ever' = {} /\ steady' = {}

\* A boot, or a rehearsal started by hand on a node left on.
Boot(rehearsal) ==
  /\ pc = "off"
  /\ pc' = "dongle"
  /\ dry' = rehearsal
  /\ mode' = "none"
  /\ ever' = Valid(dongles) /\ steady' = Valid(dongles)
  /\ unanswered' = FALSE /\ trouble' = FALSE
  /\ UNCHANGED <<online, dongles, request, status, matched, looking, stale>>

\* Once the mode is decided it is published, except in a dry run.
Decide(m) ==
  /\ mode' = m
  /\ pc' = IF dry THEN "decided" ELSE "publish"

\* The device of one label is looked for, mounted and its marker read.
LookAt(m) ==
  /\ pc = "dongle"
  /\ looking <= Len(Labels) /\ m = Labels[looking]
  /\ dongles[m] # "garbled"
  /\ matched' = IF dongles[m] = "valid" THEN matched \cup {m} ELSE matched
  /\ looking' = looking + 1
  /\ UNCHANGED <<online, dongles, request, status, pc, dry, mode, ever, steady, history>>

\* read_text of a marker that is not text raises no OSError; the exception
\* passes determine_mode, and main() gives the run up.
MarkerRaises(m) ==
  /\ pc = "dongle"
  /\ looking <= Len(Labels) /\ m = Labels[looking]
  /\ dongles[m] = "garbled"
  /\ pc' = "aborted"
  /\ EndLook
  /\ UNCHANGED <<online, dongles, request, status, dry, mode, history>>

\* Mutant: the walk over the selectors ends with the first one.
ConsultDongleOnly ==
  /\ pc = "dongle"
  /\ looking > Len(Labels)
  /\ Decide(IF DongleOpinion(matched) # "none" THEN DongleOpinion(matched) ELSE "replication")
  /\ EndLook
  /\ UNCHANGED <<online, dongles, request, status, dry, history>>

\* The dongle has no request to clear.
ConsultDongle ==
  /\ pc = "dongle"
  /\ looking > Len(Labels)
  /\ IF DongleOpinion(matched) # "none"
       THEN Decide(DongleOpinion(matched))
       ELSE pc' = "online" /\ UNCHANGED mode
  /\ EndLook
  /\ UNCHANGED <<online, dongles, request, status, dry, history>>

NoOnlineSelector ==
  /\ pc = "online"
  /\ online = "none"
  /\ Decide("replication")
  /\ UNCHANGED <<online, dongles, request, status, dry, look, history>>

\* Mutant: a dry run consumes the request as well.
ReadRequestConsumes ==
  /\ pc = "online"
  /\ online # "none"
  /\ IF OnlineOpinion(request) = "none"
       THEN Decide("replication") /\ UNCHANGED unanswered
       ELSE unanswered' = TRUE /\ mode' = OnlineOpinion(request) /\ pc' = "clear"
  /\ UNCHANGED <<online, dongles, request, status, dry, look, trouble, stale>>

\* A request is cleared before anything acts on it, except in a dry run.
ReadRequest ==
  /\ pc = "online"
  /\ online # "none"
  /\ IF OnlineOpinion(request) = "none"
       THEN Decide("replication") /\ UNCHANGED unanswered
       ELSE /\ unanswered' = TRUE
            /\ mode' = OnlineOpinion(request)
            /\ pc' = IF dry THEN "decided" ELSE "clear"
  /\ UNCHANGED <<online, dongles, request, status, dry, look, trouble, stale>>

RequestUnread(failure) ==
  /\ pc = "online"
  /\ online # "none"
  /\ failure = "silent" => online = "mqtt"
  /\ trouble' = TRUE
  /\ IF failure = "raises" THEN pc' = "aborted" /\ UNCHANGED mode ELSE Decide("replication")
  /\ UNCHANGED <<online, dongles, request, status, dry, look, unanswered, stale>>

\* Mutant: the retained message is deleted, which leaves no value at all.
ResetToNothing == request' = "none" /\ unanswered' = FALSE /\ stale' = FALSE

\* The switch is back at replication.
Reset == request' = "replication" /\ unanswered' = FALSE /\ stale' = FALSE
Leave == UNCHANGED <<request, unanswered, stale>>

\* Mutant: the request is left for somebody else to reset.
ClearSkipped ==
  /\ pc = "clear"
  /\ pc' = "publish"
  /\ UNCHANGED <<online, dongles, request, status, dry, mode, look, history>>

Clear ==
  /\ pc = "clear"
  /\ Reset
  /\ pc' = "publish"
  /\ UNCHANGED <<online, dongles, status, dry, mode, look, trouble>>

\* The reset fails, or its confirmation is lost after it took effect.
ClearFails(failure, landed) ==
  /\ pc = "clear"
  /\ failure # "silent"
  /\ trouble' = TRUE
  /\ IF landed THEN Reset ELSE Leave
  /\ IF failure = "raises" THEN pc' = "aborted" /\ mode' = "none" ELSE pc' = "publish" /\ UNCHANGED mode
  /\ UNCHANGED <<online, dongles, status, dry, look>>

\* Mutant: every switch is put back after the status, not only the one over MQTT.
AfterStatusAlways == "reset"

AfterStatus == IF online = "mqtt" THEN "reset" ELSE "decided"

\* Mutant: only a decision for Lab is reported.
PublishLabOnly ==
  /\ pc = "publish"
  /\ status' = IF online # "none" /\ mode = "lab" THEN mode ELSE status
  /\ pc' = AfterStatus
  /\ UNCHANGED <<online, dongles, request, dry, mode, look, history>>

\* The status topics or the status entity; the dongle has nowhere to report to.
Publish ==
  /\ pc = "publish"
  /\ status' = IF online # "none" THEN mode ELSE status
  /\ pc' = AfterStatus
  /\ UNCHANGED <<online, dongles, request, dry, mode, look, history>>

\* MQTT goes on to reset the request, whoever decided and whatever it holds now.
PublishReset ==
  /\ pc = "reset"
  /\ Reset
  /\ pc' = "decided"
  /\ UNCHANGED <<online, dongles, status, dry, mode, look, trouble>>

\* Any exception ends the publishing and is swallowed; the message it hit may
\* have got through all the same.
PublishFails(landed) ==
  /\ (pc = "publish" /\ online # "none") \/ pc = "reset"
  /\ trouble' = TRUE
  /\ status' = IF landed /\ pc = "publish" THEN mode ELSE status
  /\ IF landed /\ pc = "reset" THEN Reset ELSE Leave
  /\ pc' = "decided"
  /\ UNCHANGED <<online, dongles, dry, mode, look>>

\* The mode runs, and some time later the node goes down.
GoDown ==
  /\ pc = "decided"
  /\ pc' = "off"
  /\ mode' = "none"
  /\ stale' = (stale \/ (unanswered /\ ~dry))
  /\ UNCHANGED <<online, dongles, request, status, dry, look, unanswered, trouble>>

\* The node stays up with nothing done until somebody turns it off.
TurnOff ==
  /\ pc = "aborted"
  /\ pc' = "off"
  /\ UNCHANGED <<online, dongles, request, status, dry, mode, look, history>>

Resolve ==
  \/ \E m \in Mode : LookAt(m) \/ MarkerRaises(m)
  \/ ConsultDongle
  \/ NoOnlineSelector \/ ReadRequest
  \/ Clear \/ Publish \/ PublishReset

\* What faults add to a resolution.
Trouble ==
  \/ \E failure \in Failures : RequestUnread(failure)
  \/ \E failure \in Failures, landed \in BOOLEAN : ClearFails(failure, landed)
  \/ \E landed \in BOOLEAN : PublishFails(landed)

Cycle == Boot(FALSE) \/ GoDown \/ TurnOff

-----------------------------------------------------------------------------
(* The people and the power. *)

\* A dongle is plugged in, swapped or pulled, during the look as well.
Plug(m, slot) ==
  /\ dongles' = [dongles EXCEPT ![m] = slot]
  /\ Cardinality({n \in Mode : dongles'[n] # "nothing"}) <= MaxPlugged
  /\ ever' = IF pc = "dongle" THEN ever \cup Valid(dongles') ELSE ever
  /\ steady' = steady \cap Valid(dongles')
  /\ UNCHANGED <<online, request, status, pc, dry, mode, matched, looking, history>>

SetRequest(value) ==
  /\ online # "none"
  /\ request' = value
  /\ unanswered' = FALSE
  /\ stale' = FALSE
  /\ UNCHANGED <<online, dongles, status, pc, dry, mode, look, trouble>>

\* Power cut or kill before the mode is dispatched.
Crash ==
  /\ pc \in Running
  /\ pc' = "off"
  /\ mode' = "none"
  /\ EndLook
  /\ UNCHANGED <<online, dongles, request, status, dry, history>>

People ==
  \/ \E m \in Mode, slot \in Slot : Plug(m, slot)
  \/ \E value \in Mode : SetRequest(value)

Next ==
  \/ Resolve \/ Trouble
  \/ Cycle \/ Boot(TRUE)
  \/ People \/ Crash

Spec == Init /\ [][Next]_vars

-----------------------------------------------------------------------------
(* Properties. *)

\* The network, a stray stick or a confusion of dongles never starts an
\* Emergency: in the boot that does, the Emergency dongle was in and valid, and
\* no other valid one was in from before the look to its end (dongle.py:15-17).
EmergencyNeedsItsDongle ==
  [][mode' = "emergency" /\ mode # "emergency" =>
       "emergency" \in ever /\ steady \subseteq {"emergency"}]_vars

\* A Lab request brings one Lab boot, not two: it is pending still after a boot
\* acted on it only when a call to reset it failed in that boot (mode.py:124-130).
LabIsOneShot == [][stale' /\ ~stale => trouble]_vars

\* A rehearsal changes nothing outward: no step of a dry-run resolution touches
\* the pending request or the published status (mode.py:146-149).
RehearsalWritesNothing ==
  [][dry /\ pc' # pc => request' = request /\ status' = status]_vars

\* Whichever selector decided, and when none did, the status shown is the mode
\* the boot runs in, unless a call failed (mode.py:23-27).
StatusTellsTheMode ==
  pc = "decided" /\ ~dry /\ ~trouble /\ online # "none" => status = mode

\* Where the switch is an input_select, a resolution that takes back a Lab request
\* is that of a Lab boot: one that came too late to be read stands for the next
\* (home_assistant.py:46-66, mode.py:173-183).
RestResetsWhatItActedOn ==
  [][online = "rest" /\ request = "lab" /\ request' # "lab" /\ pc' # pc => mode = "lab"]_vars

-----------------------------------------------------------------------------
(* The promise, and how the state of a resolution shows it. *)

\* The mode the boot runs in, where it is not a rehearsal.
Chosen == IF dry THEN "none" ELSE mode

Asked == IF request # "lab" THEN "none"
         ELSE IF unanswered /\ Chosen # "none" THEN "held" ELSE "open"

\* During the look: in at some time, and no other one in all that time.
Keys == IF pc = "dongle" THEN {m \in ever : steady \subseteq {m}} ELSE {}

Promise == INSTANCE BootPromise
           WITH switch <- online # "none", ask <- Asked, keys <- Keys, boot <- Chosen,
                shown <- status, failed <- trouble /\ ~dry

\* Every step of a resolution, of its faults and of the people around it is a step
\* of BootPromise or shows nothing of itself there (mode.py:142-210, 23-27;
\* selectors/__init__.py:42-54).
ImplementsBootPromise == Promise!Spec

-----------------------------------------------------------------------------
(* What the documentation says and the code does not keep. *)

\* "Whatever it held, the request has now been acted on." (mqtt_ha.py:169): a
\* resolution that takes back a Lab request is that of a Lab boot.
ResetRequestsWereActedOn ==
  [][request = "lab" /\ request' # "lab" /\ pc' # pc => mode = "lab"]_vars

\* "Fail-closed by construction: any ambiguity (missing/extra label, bad or
\* missing marker, unmountable device, ...) resolves to no opinion"
\* (dongle.py:15-17): a dongle never ends the run.
BadMarkerIsNoOpinion == [][pc = "dongle" => pc' # "aborted"]_vars
=============================================================================
