---------------------------- MODULE MCController ----------------------------
(* Instances of Controller for TLC. *)
EXTENDS Controller

\* config.example.json with a broker, as the unit runs it.
Shipped ==
  [readable |-> TRUE, dongle_marker_token |-> TRUE, fenced |-> TRUE, low |-> 1000, high |-> 1999,
   ha_base_url |-> FALSE, ha_token |-> FALSE, label_prefix |-> 4, mqtt_broker |-> TRUE,
   shutdown_after_replication |-> TRUE, dry_run |-> FALSE, exercise_selectors |-> FALSE,
   no_shutdown |-> FALSE, replicate_now |-> FALSE, force_mode |-> "none"]

NoBroker == [Shipped EXCEPT !.mqtt_broker = FALSE]
TypoInFence == [Shipped EXCEPT !.low = 2000]
Rehearsal == [Shipped EXCEPT !.dry_run = TRUE]

BootRuns == {Shipped, NoBroker, TypoInFence}
ByHandRuns == {Rehearsal,
               [Rehearsal EXCEPT !.exercise_selectors = TRUE],
               [Shipped EXCEPT !.replicate_now = TRUE],
               [Shipped EXCEPT !.no_shutdown = TRUE, !.force_mode = "replication"]}
SoloRuns == BootRuns \cup ByHandRuns

\* A unit that holds its presence, and a mode exercised by hand beside it.
Forced == [Shipped EXCEPT !.force_mode = "lab"]
BesideRuns == {Shipped, Forced}
ShippedOnly == {Shipped}

CONSTANT held   \* the process of the unit

HeldInit ==
  /\ online = "true"
  /\ session = [p \in Proc |-> IF p = held THEN "presence" ELSE "none"]
  /\ link = [c \in Proc \X Role |-> IF c = <<held, "presence">> THEN "open" ELSE "closed"]
  /\ wire = [c \in Proc \X Role |-> <<>>]
  /\ op = [p \in Proc |-> "none"]
  /\ sent = [p \in Proc |-> FALSE] /\ done = [p \in Proc |-> FALSE]
  /\ parting = [p \in Proc |-> "no"]
  /\ power = "on" /\ masked = TRUE /\ onboot = FALSE
  /\ exposed = FALSE /\ spoilt = FALSE /\ raced = FALSE /\ calm = FALSE
  /\ pc = [p \in Proc |-> IF p = held THEN "hold" ELSE "none"]
  /\ run = [p \in Proc |-> Shipped]
  /\ mode = [p \in Proc |-> "replication"]
  /\ rc = [p \in Proc |-> 1]
  /\ worked = [p \in Proc |-> FALSE]
  /\ asked = [p \in Proc |-> FALSE]
  /\ stopped = [p \in Proc |-> FALSE]

HeldSpec == HeldInit /\ [][Next]_vars
=============================================================================
