------------------------------ MODULE ModeCalm ------------------------------
(***************************************************************************)
(* ModeResolution with a last quiet time: from some moment on nobody       *)
(* touches the dongles or the switch, every call is answered and the power *)
(* holds; the node goes on being booted and shut down.                     *)
(***************************************************************************)
EXTENDS ModeResolution

VARIABLE calm   \* the quiet time has begun

CalmInit == Init /\ calm = FALSE

Settle ==
  /\ ~calm
  /\ calm' = TRUE
  /\ UNCHANGED vars

CalmNext ==
  \/ /\ Resolve \/ Cycle
     /\ UNCHANGED calm
  \/ /\ ~calm
     /\ Trouble \/ Boot(TRUE) \/ People \/ Crash
     /\ UNCHANGED calm
  \/ Settle

\* A resolution goes on, since each of its calls is local or has a timeout, and
\* the node is woken, shut down and turned off again.
CalmSpec ==
  /\ CalmInit
  /\ [][CalmNext]_<<vars, calm>>
  /\ WF_vars(Resolve)
  /\ WF_vars(Boot(FALSE)) /\ WF_vars(GoDown) /\ WF_vars(TurnOff)

\* A Lab request that stands when the node is off brings a Lab boot, if no
\* dongle says otherwise and its option is one the selector can recognise
\* (README.md:153-156; selectors/__init__.py:42-54; mqtt_ha.py:121-122).
LabHonoured ==
  calm /\ Recognised /\ pc = "off" /\ request = "lab" /\ dongles = [m \in Mode |-> "nothing"]
    ~> pc = "decided" /\ mode = "lab"

\* Nor does a boot in between overlook it: with no dongle in, none that began in
\* the quiet time decides for Replication over a request that stands
\* (mode.py:154-184, selectors/__init__.py:42-54).
NoRequestOverlooked ==
  [](calm /\ Recognised /\ pc = "off" /\ dongles = [m \in Mode |-> "nothing"]
       => [](mode = "replication" => request # "lab"))
=============================================================================
