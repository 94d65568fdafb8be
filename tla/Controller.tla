----------------------------- MODULE Controller -----------------------------
(***************************************************************************)
(* main() of coldstandby/main.py, over boots: load the settings, mask       *)
(* pve-guests, start the MQTT presence, resolve the mode, run it, then exit *)
(* or hold the presence until systemd says stop.  Composed with the         *)
(* connections of MqttSession, with systemd and the power.  What a          *)
(* mode does to the guests is in Refresh and Emergency; here it ends well,  *)
(* ends badly or raises, and may leave guests set to start at boot.         *)
(***************************************************************************)
EXTENDS Naturals, MqttSession

CONSTANTS
  Runs,       \* settings and arguments a run may be started with
  Boots       \* those of them the unit is started with

Mode == {"emergency", "lab", "replication"}
MaxFsLabelLen == 16
LongestSuffix == 6    \* of "-EMERG", "-LAB", "-REPL"

RunOfMain ==
  [readable : BOOLEAN,                          \* the file is there, JSON, known keys only
   dongle_marker_token : BOOLEAN,               \* a text is set, here and below
   fenced : BOOLEAN, low : Nat, high : Nat,     \* standby_vmid_range
   ha_base_url : BOOLEAN, ha_token : BOOLEAN,
   label_prefix : Nat,                          \* its length
   mqtt_broker : BOOLEAN,
   shutdown_after_replication : BOOLEAN,
   dry_run : BOOLEAN, exercise_selectors : BOOLEAN, no_shutdown : BOOLEAN,
   replicate_now : BOOLEAN,
   force_mode : Mode \cup {"none"}]

ASSUME RunsAssumption ==
  /\ Runs \subseteq RunOfMain /\ Runs # {}
  /\ Boots \subseteq Runs
  /\ \A c \in Runs : c.exercise_selectors => c.dry_run
  /\ \A c \in Runs : c.replicate_now => c.force_mode = "none"
  /\ \A c \in Boots : ~c.dry_run /\ ~c.no_shutdown /\ ~c.replicate_now /\ c.force_mode = "none"

VARIABLES
  power,    \* "on", "stopping" (poweroff asked for) or "off"
  masked,   \* pve-guests.service is masked
  onboot,   \* a restored guest still has main's onboot flag
  pc,       \* where each process stands in main()
  run,      \* what it was started with
  mode,     \* mode and rc as main() has them
  rc,
  (* history *)
  exposed,  \* the mask was lifted, and no real run that loaded could mask since
  spoilt,   \* some refresh failed or died
  worked,   \* it ran its mode to a good end
  asked,    \* it asked for the poweroff
  stopped,  \* it was told to stop while it held its presence
  raced,    \* some stop() published while a CONNECT was unanswered
  calm      \* the quiet time has begun

node == <<power, masked, onboot>>
process == <<pc, run, mode, rc>>
history == <<exposed, spoilt, worked, asked, stopped, raced>>
vars == <<mqtt, node, process, history, calm>>

Stages == {"none", "mask", "presence", "resolve", "ask", "clear", "publish",
           "work", "after", "hold", "stop", "drain", "exit"}

TypeOK ==
  /\ MqttTypeOK
  /\ power \in {"on", "stopping", "off"}
  /\ \A b \in {masked, onboot, exposed, spoilt, raced, calm} : b \in BOOLEAN
  /\ pc \in [Proc -> Stages]
  /\ run \in [Proc -> Runs]
  /\ mode \in [Proc -> Mode]
  /\ rc \in [Proc -> {0, 1}]
  /\ \A f \in {worked, asked, stopped} : f \in [Proc -> BOOLEAN]

AnyRun == CHOOSE c \in Runs : TRUE

Fresh ==
  /\ pc = [p \in Proc |-> "none"]
  /\ run = [p \in Proc |-> AnyRun]
  /\ mode = [p \in Proc |-> "replication"]
  /\ rc = [p \in Proc |-> 1]
  /\ worked = [p \in Proc |-> FALSE]
  /\ asked = [p \in Proc |-> FALSE]
  /\ stopped = [p \in Proc |-> FALSE]

Init ==
  /\ MqttInit
  /\ power = "off" /\ masked = TRUE /\ onboot = FALSE
  /\ exposed = FALSE /\ spoilt = FALSE /\ raced = FALSE
  /\ calm = FALSE
  /\ Fresh

-----------------------------------------------------------------------------
(* What the arguments and settings decide. *)

\* Config.load returns; any other file ends the program, before the mask.
Accepted(c) ==
  /\ c.readable
  /\ c.dongle_marker_token
  /\ c.fenced => c.low <= c.high
  /\ c.ha_base_url <=> c.ha_token
  /\ c.label_prefix + LongestSuffix <= MaxFsLabelLen

\* Mutant: a dry run has a presence like any other.
HasPresenceAlways(c) == c.mqtt_broker

HasPresence(c) == c.mqtt_broker /\ (~c.dry_run \/ c.exercise_selectors)

\* The selectors may consume and publish.
SelectorsWrite(c) == ~c.dry_run \/ c.exercise_selectors

\* allow_shutdown of replication.run, and what it does with it.
PowersOff(c) ==
  /\ ~c.dry_run /\ ~c.no_shutdown /\ ~c.replicate_now
  /\ c.shutdown_after_replication

\* Mutant: any run that ended well lets go of the presence.
NodeStaysUpUnlessOk(p) == run[p].dry_run \/ rc[p] # 0

NodeStaysUp(p) ==
  \/ run[p].dry_run
  \/ ~(/\ mode[p] = "replication"
       /\ rc[p] = 0
       /\ run[p].shutdown_after_replication /\ ~run[p].no_shutdown)

Goto(p, stage) == pc' = [pc EXCEPT ![p] = stage]

\* Mutant: rc starts at 0 and no handler sets it.
RaiseUnnoticed(p) ==
  /\ rc' = [rc EXCEPT ![p] = 0]
  /\ Goto(p, IF run[p].replicate_now THEN "exit" ELSE "after")

\* Mutant: an exit status of its own for an exception.
RaiseWithTwo(p) ==
  /\ rc' = [rc EXCEPT ![p] = 2]
  /\ Goto(p, IF run[p].replicate_now THEN "exit" ELSE "after")

\* except Exception: the run is over with rc 1.
Raise(p) ==
  /\ rc' = [rc EXCEPT ![p] = 1]
  /\ Goto(p, IF run[p].replicate_now THEN "exit" ELSE "after")

-----------------------------------------------------------------------------
(* main(). *)

\* The processes P are gone, and their memory with them.
Forget(P) ==
  /\ pc' = [p \in Proc |-> IF p \in P THEN "none" ELSE pc[p]]
  /\ run' = [p \in Proc |-> IF p \in P THEN AnyRun ELSE run[p]]
  /\ mode' = [p \in Proc |-> IF p \in P THEN "replication" ELSE mode[p]]
  /\ rc' = [p \in Proc |-> IF p \in P THEN 1 ELSE rc[p]]
  /\ worked' = [p \in Proc |-> p \notin P /\ worked[p]]
  /\ asked' = [p \in Proc |-> p \notin P /\ asked[p]]
  /\ stopped' = [p \in Proc |-> p \notin P /\ stopped[p]]

\* Loads the settings of a new process; without them it leaves with 1.
Start(p, c) ==
  /\ pc[p] = "none" /\ Gone(p)
  /\ run' = [run EXCEPT ![p] = c]
  /\ Goto(p, IF Accepted(c) THEN "mask" ELSE "exit")
  /\ UNCHANGED <<mqtt, masked, onboot, mode, rc, exposed, spoilt, worked, asked, stopped, raced, calm>>

AfterMask(p) == IF run[p].replicate_now THEN "work" ELSE "presence"

\* Mutant: --replicate-now does not come by the mask.
MaskForBootsOnly(p) ==
  /\ pc[p] = "mask"
  /\ masked' = (masked \/ (~run[p].dry_run /\ ~run[p].replicate_now))
  /\ exposed' = (exposed /\ run[p].dry_run)
  /\ Goto(p, AfterMask(p))
  /\ UNCHANGED <<mqtt, power, onboot, run, mode, rc,
                 spoilt, worked, asked, stopped, raced, calm>>

EnforcePveGuestsMasked(p) ==
  /\ pc[p] = "mask"
  /\ masked' = (masked \/ ~run[p].dry_run)
  /\ exposed' = (exposed /\ run[p].dry_run)
  /\ Goto(p, AfterMask(p))
  /\ UNCHANGED <<mqtt, power, onboot, run, mode, rc,
                 spoilt, worked, asked, stopped, raced, calm>>

PresenceStart(p) ==
  /\ pc[p] = "presence"
  /\ IF HasPresence(run[p]) THEN StartPresence(p) ELSE UNCHANGED mqtt
  /\ Goto(p, "resolve")
  /\ UNCHANGED <<node, run, mode, rc, history, calm>>

Decide(p, m) == mode' = [mode EXCEPT ![p] = m]
WithMqtt(p) == run[p].mqtt_broker
AfterDecision(p) == IF WithMqtt(p) /\ SelectorsWrite(run[p]) THEN "publish" ELSE "work"

\* A forced mode, a dongle, or a selector that is not MQTT decides.
ResolveLocally(p, m) ==
  /\ pc[p] = "resolve"
  /\ run[p].force_mode # "none" => m = run[p].force_mode
  /\ Decide(p, m)
  /\ Goto(p, IF run[p].force_mode # "none" THEN "work" ELSE AfterDecision(p))
  /\ UNCHANGED <<mqtt, node, run, rc, history, calm>>

AskBroker(p) ==
  /\ pc[p] = "resolve"
  /\ run[p].force_mode = "none" /\ WithMqtt(p)
  /\ OpenSelector(p, "ask")
  /\ Goto(p, "ask")
  /\ UNCHANGED <<node, run, mode, rc, history, calm>>

\* An answer that asks for Lab is reset before anything acts on it; without one,
\* or with any other, the boot is a Replication.
Answered(p, m) ==
  /\ pc[p] = "ask"
  /\ sent[p] \/ ~Connected(p, "selector")
  /\ m \in {"lab", "replication"}
  /\ ~done[p] => m = "replication"
  /\ CloseSelector(p)
  /\ Decide(p, m)
  /\ Goto(p, IF m = "lab" /\ SelectorsWrite(run[p]) THEN "clear" ELSE AfterDecision(p))
  /\ UNCHANGED <<node, run, rc, history, calm>>

\* clear() and publish_result(); the several messages of the latter are one.
OpenToWrite(p) ==
  /\ pc[p] \in {"clear", "publish"}
  /\ OpenSelector(p, "write")
  /\ UNCHANGED <<node, process, history, calm>>

Transmit(p) ==
  /\ SendOp(p)
  /\ UNCHANGED <<node, process, history, calm>>

AfterWrite(p) == IF pc[p] = "clear" THEN "publish" ELSE "work"

\* Confirmed, or not within the timeout: ModeSelectorUnavailable, which clear()
\* and publish_result() are both forgiven.
Written(p) ==
  /\ pc[p] \in {"clear", "publish"}
  /\ sent[p]
  /\ CloseSelector(p)
  /\ Goto(p, AfterWrite(p))
  /\ UNCHANGED <<node, run, mode, rc, history, calm>>

\* publish() between two connections of the loop: wait_for_publish raises
\* RuntimeError, which only publish_result() is forgiven.
WriteRaises(p) ==
  /\ pc[p] \in {"clear", "publish"} /\ op[p] = "write" /\ ~sent[p]
  /\ ~Connected(p, "selector")
  /\ CloseSelector(p)
  /\ IF pc[p] = "clear" THEN Raise(p) ELSE Goto(p, "work") /\ UNCHANGED rc
  /\ mode' = [mode EXCEPT ![p] = IF pc[p] = "clear" THEN "replication" ELSE @]
  /\ UNCHANGED <<node, run, history, calm>>

Restoring(p) == mode[p] = "replication" /\ ~run[p].dry_run

\* qm set --onboot 0 reaches the guests a refresh restores and no others: a guest
\* that has the flag from before keeps it if main does not offer it under the tag
\* any more, and the fence or remove_orphans keeps it from being destroyed.  left: a
\* guest of its own has the flag when the refresh is over.
RefreshLeaves(left) == onboot' \in {onboot \/ left, left}

\* The mode is run and ends well; a Replication then asks for the poweroff.
Work(p) ==
  /\ pc[p] = "work"
  /\ rc' = [rc EXCEPT ![p] = 0]
  /\ IF Restoring(p) THEN RefreshLeaves(FALSE) ELSE UNCHANGED onboot
  /\ worked' = [worked EXCEPT ![p] = TRUE]
  /\ asked' = [asked EXCEPT ![p] = Restoring(p) /\ PowersOff(run[p])]
  /\ power' = IF asked'[p] THEN "stopping" ELSE power
  /\ Goto(p, IF run[p].replicate_now THEN "exit" ELSE "after")
  /\ UNCHANGED <<mqtt, masked, run, mode, exposed, spoilt, stopped, raced, calm>>

\* The presence object is kept even where start() could not use it.
After(p) ==
  /\ pc[p] = "after"
  /\ Goto(p, IF ~HasPresence(run[p]) THEN "exit" ELSE IF NodeStaysUp(p) THEN "hold" ELSE "stop")
  /\ UNCHANGED <<mqtt, node, run, mode, rc, history, calm>>

\* presence.stop(), first half.
StopPresence(p) ==
  /\ pc[p] = "stop"
  /\ PublishOffline(p)
  /\ raced' = (raced \/ link[p, "presence"] = "sent")
  /\ Goto(p, "drain")
  /\ UNCHANGED <<node, run, mode, rc, exposed, spoilt, worked, asked, stopped, calm>>

Drain(p) ==
  /\ pc[p] = "drain"
  /\ Disconnect(p)
  /\ Goto(p, "exit")
  /\ UNCHANGED <<node, run, mode, rc, history, calm>>

Exit(p) ==
  /\ pc[p] = "exit"
  /\ Forget({p})
  /\ UNCHANGED <<mqtt, power, masked, onboot, exposed, spoilt, raced, calm>>

Advance(p) ==
  \/ EnforcePveGuestsMasked(p) \/ PresenceStart(p)
  \/ \E m \in Mode : ResolveLocally(p, m) \/ Answered(p, m)
  \/ AskBroker(p) \/ OpenToWrite(p) \/ Transmit(p) \/ Written(p) \/ WriteRaises(p)
  \/ Work(p)
  \/ After(p) \/ StopPresence(p) \/ Drain(p) \/ Exit(p)

-----------------------------------------------------------------------------
(* What goes wrong. *)

\* systemctl cannot be asked, or the mask fails: the run goes on.
MaskFails(p) ==
  /\ pc[p] = "mask"
  /\ Goto(p, AfterMask(p))
  /\ UNCHANGED <<mqtt, node, run, mode, rc, history, calm>>

\* No paho, or a broker address it does not take: a presence with no client.
PresenceFails(p) ==
  /\ pc[p] = "presence"
  /\ HasPresence(run[p])
  /\ Goto(p, "resolve")
  /\ UNCHANGED <<mqtt, node, run, mode, rc, history, calm>>

\* No connection for the selector, before it has said anything.
SelectorUnavailable(p) ==
  /\ \/ pc[p] = "resolve" /\ run[p].force_mode = "none" /\ WithMqtt(p)
     \/ pc[p] \in {"clear", "publish"}
  /\ op[p] = "none"
  /\ Goto(p, IF pc[p] = "resolve" THEN AfterDecision(p) ELSE AfterWrite(p))
  /\ UNCHANGED <<mqtt, node, run, mode, rc, history, calm>>

\* A garbled marker, an unusable CA file: an exception out of determine_mode.
ResolveRaises(p) ==
  /\ pc[p] = "resolve" /\ run[p].force_mode = "none"
  /\ Raise(p)
  /\ UNCHANGED <<mqtt, node, run, mode, history, calm>>

\* The mode ends with rc 1 or an exception; a refresh may have left a guest
\* between qmrestore and qm set.
WorkFails(p, left) ==
  /\ pc[p] = "work"
  /\ left => Restoring(p)
  /\ IF Restoring(p) THEN RefreshLeaves(left) ELSE UNCHANGED onboot
  /\ spoilt' = (spoilt \/ Restoring(p))
  /\ Raise(p)
  /\ UNCHANGED <<mqtt, power, masked, run, mode,
                 exposed, worked, asked, stopped, raced, calm>>

\* The exit status of systemctl poweroff is not looked at.
PoweroffFails(p) ==
  /\ pc[p] = "work" /\ Restoring(p) /\ PowersOff(run[p])
  /\ rc' = [rc EXCEPT ![p] = 0]
  /\ RefreshLeaves(FALSE)
  /\ worked' = [worked EXCEPT ![p] = TRUE]
  /\ asked' = [asked EXCEPT ![p] = TRUE]
  /\ Goto(p, "after")
  /\ UNCHANGED <<mqtt, power, masked, run, mode, exposed, spoilt, stopped, raced, calm>>

\* The processes P die where they stand.
Die(P, flushed, left) ==
  /\ LET working == \E p \in P : pc[p] = "work" /\ Restoring(p)
     IN /\ left => working
        /\ IF working THEN RefreshLeaves(left) ELSE UNCHANGED onboot
        /\ spoilt' = (spoilt \/ working)
  /\ Vanish(P, flushed)
  /\ Forget(P)
  /\ UNCHANGED <<masked, exposed, raced, calm>>

\* SIGKILL, or SIGTERM and SIGINT where no handler is installed.
Kill(p, left) ==
  /\ pc[p] # "none"
  /\ Die({p}, TRUE, left)
  /\ UNCHANGED power

Fault(p) ==
  \/ MaskFails(p) \/ PresenceFails(p) \/ SelectorUnavailable(p) \/ ResolveRaises(p)
  \/ PoweroffFails(p)
  \/ \E left \in BOOLEAN : WorkFails(p, left) \/ Kill(p, left)
  \/ \E r \in Role : LinkLoss(p, r) /\ UNCHANGED <<node, process, history, calm>>

-----------------------------------------------------------------------------
(* systemd, the power and the people. *)

\* SIGTERM or SIGINT while holding.
Sigterm(p) ==
  /\ pc[p] = "hold"
  /\ Goto(p, "stop")
  /\ stopped' = [stopped EXCEPT ![p] = TRUE]
  /\ UNCHANGED <<mqtt, node, run, mode, rc,
                 exposed, spoilt, worked, asked, raced, calm>>

\* Wake-on-LAN: systemd starts the unit, and pve-guests unless it is masked.
Boot(p, c) ==
  /\ power = "off"
  /\ power' = "on"
  /\ Start(p, c)

\* By hand, on a node that is up.
ByHand(p, c) ==
  /\ power = "on"
  /\ UNCHANGED power
  /\ Start(p, c)

PowerLoss(left) ==
  /\ power # "off"
  /\ power' = "off"
  /\ Die({p \in Proc : pc[p] # "none"}, FALSE, left)

\* The poweroff that was asked for, when systemd has stopped the processes.
PowerDown ==
  /\ power = "stopping"
  /\ \A p \in Proc : pc[p] = "none"
  /\ PowerLoss(FALSE)

\* A package upgrade or a hand lifts the mask.
Unmask ==
  /\ power = "on"
  /\ masked' = FALSE
  /\ exposed' = TRUE
  /\ UNCHANGED <<mqtt, power, onboot, process, spoilt, worked, asked, stopped, raced, calm>>

Settle ==
  /\ ~calm
  /\ calm' = TRUE
  /\ UNCHANGED <<mqtt, node, process, history>>

Online(p) == Network(p) /\ UNCHANGED <<node, process, history, calm>>

Disturbance ==
  \/ \E p \in Proc : Fault(p) \/ Sigterm(p)
  \/ \E p \in Proc, c \in Boots : Boot(p, c)
  \/ \E p \in Proc, c \in Runs : ByHand(p, c)
  \/ \E left \in BOOLEAN : PowerLoss(left)
  \/ PowerDown \/ Unmask

Next ==
  \/ \E p \in Proc : Advance(p) \/ Online(p)
  \/ ~calm /\ Disturbance
  \/ Settle

\* Processes and the broker go on; nothing else need ever happen.
Spec ==
  /\ Init /\ [][Next]_vars
  /\ \A p \in Proc : WF_vars(Advance(p)) /\ WF_vars(Online(p))

-----------------------------------------------------------------------------
(* Properties. *)

\* Proxmox starts guests by itself only if two things went wrong: the mask was
\* lifted with no real run after it that could set it again, and some refresh of this
\* node failed or died (main.py:98-108, proxmox.py:73-76).  A good refresh after the
\* bad one is no cure: it leaves alone a guest it has not selected.
StartAll == power = "off" /\ power' = "on" /\ onboot /\ ~masked
ShadowNeedsTwoFaults == [][StartAll => exposed /\ spoilt]_vars

\* A process with a presence ends only when it was told to, or when a
\* Replication asked for the poweroff, whatever raised before (README.md:294-299).
ResidentUntilStopped ==
  [][\A p \in Proc : pc[p] = "exit" /\ pc'[p] = "none" /\ HasPresence(run[p])
       /\ Accepted(run[p]) /\ ~run[p].replicate_now => asked[p] \/ stopped[p]]_vars

\* When every process is gone and the broker is done with them, online is false:
\* by stop(), or by the will if the process was killed, lost its connection or
\* the power went. The exception is a stop() that publishes between CONNECT and
\* CONNACK, after which _on_connect still publishes true (mqtt_ha.py:310-320).
OfflineWhenGone ==
  (\A p \in Proc : pc[p] = "none" /\ Gone(p)) => online = "false" \/ raced

\* A process exits with 0, and leaves its unit looking well, only after its mode
\* was run to a good end; the unit of one that raised or returned 1, also if it
\* held its presence for days before, is failed (README.md:249-251).
CleanExitMeansDone ==
  [][\A p \in Proc : pc[p] = "exit" /\ pc'[p] = "none" /\ rc[p] = 0 => worked[p]]_vars

\* A rehearsal says nothing to the broker but that it reads (main.py:49-55).
DryRunSendsNothing ==
  \A p \in Proc, r \in Role :
    pc[p] # "none" /\ run[p].dry_run /\ ~run[p].exercise_selectors
      => \A i \in DOMAIN wire[p, r] : wire[p, r][i] \in {"connect", "ask", "disconnect"}

\* Nothing is under way between the processes and the broker.
Settled == \A p \in Proc :
  /\ pc[p] \in {"none", "hold"}
  /\ \A r \in Role : link[p, r] \in {"closed", "open"} /\ wire[p, r] = <<>>
  /\ session[p] = IF link[p, "presence"] = "open" THEN "presence" ELSE "none"

\* "true while the node is up" (README.md:287), as a process alone on the node
\* keeps it: when a presence is held and nothing is under way, online is true.
HeldMeansOnline ==
  Settled /\ (\E p \in Proc : pc[p] = "hold" /\ link[p, "presence"] = "open") => online = "true"

\* Process p holds its presence, and nothing disturbs it any more.
Resident(p) == calm /\ pc[p] = "hold" /\ link[p, "presence"] # "closed"

\* When things are quiet and a process holds its presence, online comes to be
\* true and stays so, however often the selector took the session and the
\* connection broke before (mqtt_ha.py:310-320, 363-368).
OnlineWhileHeld == \A p \in Proc : <>[]Resident(p) => <>[](online = "true")
=============================================================================
