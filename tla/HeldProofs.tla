----------------------------- MODULE HeldProofs -----------------------------
(*****************************************************************************)
(* Proofs about Controller and the broker: what `online` is while a process  *)
(* holds its presence, as long as no other process has one.                  *)
(*****************************************************************************)
EXTENDS PresenceProofs

\* Process p has a presence, or the broker has not yet done with it.
Present(p) ==
  session[p] = "presence" \/ wire[p, "presence"] # Quiet \/ link[p, "presence"] # "closed"

\* As the normal life of the node is.  Runs by hand without a presence of their
\* own (--replicate-now, a rehearsal, no broker) are not counted.
OnePresence == \A p, q \in Proc : Present(p) /\ Present(q) => p = q

\* Process p is somewhere in main() before presence.stop().
Speaking(p) == pc[p] \notin {"none", "drain", "exit"}

(* The inductive invariant. *)

\* Before its stop() a presence has said nothing but what belongs to the connection
\* it is at, also after an earlier process that raced; once connected and
\* done with it, online is true.
Heard(p) ==
  LET w == wire[p, "presence"]
      l == link[p, "presence"]
  IN /\ pc[p] # "drain" => parting[p] = "no"
     /\ Speaking(p) =>
          /\ l \in {"closed", "retry"} => w = Quiet
          /\ l = "sent" => w \in {Quiet, Hello}
          /\ l = "open" => w \in {Quiet, Yes}
          /\ l = "open" /\ w = Quiet => online = "true"

\* What a step has to leave alone for its process to stay heard.
Unmoved(p) ==
  /\ wire'[p, "presence"] = wire[p, "presence"] /\ link'[p, "presence"] = link[p, "presence"]
  /\ parting'[p] = parting[p]

LEMMA HeardUnmoved ==
  ASSUME NEW p, Heard(p), Unmoved(p),
         Speaking(p)' => Speaking(p), pc[p] = "drain" => pc'[p] = "drain",
         online' = online \/ link[p, "presence"] # "open"
  PROVE  Heard(p)'
BY DEF Heard, Unmoved, Speaking

-----------------------------------------------------------------------------
(* The broker and the loop threads. *)

LEMMA HeardAccept ==
  ASSUME Vouched, NEW p \in Proc, NEW r \in Role, Accept(p, r), pc' = pc, Heard(p)
  PROVE  Heard(p)'
<1> DEFINE o == Other(r)
<1>1. TakenOver(p, r, o) /\ o \in Role /\ o # r /\ Role = {r, o}
  BY OnAccept, OtherOf DEF Vouched
<1> HIDE DEF o
<1>2. parting'[p] = parting[p] /\ session'[p] = r
  BY <1>1 DEF TakenOver
<1>3. Fit(wire[p, "presence"], link[p, "presence"], session[p], "presence")
  BY Roles DEF Vouched, Fits
<1>4. CASE r = "presence"
  <2>1. /\ wire[p, "presence"] # <<>> /\ Head(wire[p, "presence"]) = "connect"
        /\ wire'[p, "presence"] = Tail(wire[p, "presence"])
        /\ link'[p, "presence"] = link[p, "presence"]
    BY <1>1, <1>4 DEF TakenOver
  <2>2. wire[p, "presence"] \notin {Quiet, Yes} /\ link[p, "presence"] \in Link
    BY <2>1, ShapesBegin, Roles DEF Quiet, Vouched, MqttTypeOK
  <2>3. Speaking(p) => wire[p, "presence"] = Hello /\ link[p, "presence"] = "sent"
    BY <2>2 DEF Heard, Link
  <2>4. QED
    BY <1>2, <2>1, <2>3, ShapesBegin DEF Heard, Speaking
<1>5. CASE r = "selector"
  <2>1. o = "presence"
    BY <1>1, <1>5 DEF Role
  <2>2. CASE session[p] # "presence"
    <3>1. Unmoved(p) /\ online' = online
      BY <1>1, <2>1, <2>2 DEF TakenOver, Unmoved, Will, WithWill
    <3>2. QED
      BY <3>1, HeardUnmoved DEF Speaking
  <2>3. CASE session[p] = "presence"
    <3>1. /\ wire'[p, "presence"] = Later(wire[p, "presence"])
          /\ link'[p, "presence"] = IF Connected(p, "presence") /\ ~Connecting(p, "presence")
                                    THEN "retry" ELSE link[p, "presence"]
      BY <1>1, <2>1, <2>3 DEF TakenOver
    <3>2. /\ \A w \in Shapes : Contains(w, "connect") <=> w = Hello
          /\ \A w \in Shapes : Later(w) = IF w = Hello THEN Hello ELSE Quiet
          /\ Quiet \in Shapes /\ Hello \in Shapes /\ Yes \in Shapes
      BY ShapesHold DEF Shapes
    <3>3. ASSUME Speaking(p)
          PROVE  /\ wire'[p, "presence"] = IF wire[p, "presence"] = Hello THEN Hello ELSE Quiet
                 /\ Connecting(p, "presence") <=> wire[p, "presence"] = Hello
      <4>1. wire[p, "presence"] \in Shapes
        BY <3>2, <3>3 DEF Heard, Vouched, MqttTypeOK, Link, Role
      <4>2. QED
        BY <3>1, <3>2, <4>1 DEF Connecting
    <3>4. QED
      BY <1>2, <3>1, <3>3, ShapesDiffer DEF Heard, Speaking, Connected
  <2>4. QED
    BY <2>2, <2>3
<1>6. QED
  BY <1>4, <1>5 DEF Role

LEMMA HeardHandle ==
  ASSUME Vouched, NEW p \in Proc, NEW r \in Role, Handle(p, r), pc' = pc, Heard(p)
  PROVE  Heard(p)'
<1>1. LET packet == Head(wire[p, r]) IN
      /\ wire[p, r] # <<>> /\ packet # "connect"
      /\ online' = IF packet \in {"true", "false"} THEN packet ELSE online
      /\ wire'[p, r] = Tail(wire[p, r]) /\ wire'[p, Other(r)] = wire[p, Other(r)]
      /\ link' = link
      /\ parting'[p] = IF packet = "false" /\ parting[p] = "unsaid" THEN "said" ELSE parting[p]
  BY OnHandle DEF Vouched
<1>2. CASE r = "presence"
  <2>1. pc[p] # "drain" => parting'[p] = "no"
    BY <1>1 DEF Heard
  <2>2. Speaking(p) => wire[p, "presence"] = Yes
    BY <1>1, <1>2, ShapesBegin DEF Heard, Quiet, Vouched, MqttTypeOK, Link, Role
  <2>3. Speaking(p) => wire'[p, "presence"] = Quiet /\ online' = "true"
    BY <1>1, <1>2, <2>2, ShapesBegin
  <2>4. QED
    BY <1>1, <2>1, <2>3 DEF Heard, Speaking
<1>3. CASE r = "selector"
  <2>1. Says(wire[p, "selector"], {"connect", "ask", "write", "disconnect"})
        /\ wire[p, "selector"] \in Seq(Packet)
    BY Roles DEF Vouched, Silent, MqttTypeOK
  <2>2. Head(wire[p, "selector"]) \in {"ask", "write", "disconnect"}
    BY <1>1, <1>3, <2>1, TailOf
  <2>3. Unmoved(p) /\ online' = online
    BY <1>1, <1>3, <2>2, Roles DEF Unmoved
  <2>4. QED
    BY <2>3, HeardUnmoved DEF Speaking
<1>4. QED
  BY <1>2, <1>3 DEF Role

LEMMA HeardExpire ==
  ASSUME Vouched, NEW p \in Proc, Expire(p), pc' = pc, Heard(p)
  PROVE  Heard(p)'
<1>1. /\ ~Connected(p, session[p])
      /\ online' = Will(p)
      /\ UNCHANGED <<link, wire, parting>>
  BY OnExpire DEF Vouched
<1>2. online' = online \/ link[p, "presence"] # "open"
  BY <1>1 DEF Will, WithWill, Connected
<1>3. QED
  BY <1>1, <1>2, HeardUnmoved DEF Unmoved, Speaking

LEMMA HeardReconnect ==
  ASSUME Vouched, NEW p \in Proc, NEW r \in Role, Reconnect(p, r), pc' = pc, Heard(p)
  PROVE  Heard(p)'
<1>1. /\ Spoken(p, r, <<"connect">>, "sent")
      /\ link[p, r] = "retry" /\ parting' = parting
  BY OnReconnect DEF Vouched
<1>2. CASE r = "presence"
  <2>1. /\ wire'[p, "presence"] = wire[p, "presence"] \o Hello
        /\ link'[p, "presence"] = "sent"
    BY <1>1, <1>2 DEF Spoken, Hello
  <2>2. Speaking(p) => wire'[p, "presence"] = Hello
    BY <1>1, <1>2, <2>1, ShapesGoOn DEF Heard
  <2>3. QED
    BY <1>1, <2>1, <2>2 DEF Heard, Speaking
<1>3. CASE r = "selector"
  BY <1>1, <1>3, HeardUnmoved, Roles DEF Spoken, Unmoved, Speaking
<1>4. QED
  BY <1>2, <1>3 DEF Role

LEMMA HeardConnack ==
  ASSUME Vouched, NEW p \in Proc, NEW r \in Role, Connack(p, r), pc' = pc, Heard(p)
  PROVE  Heard(p)'
<1>1. /\ Spoken(p, r, IF r = "presence" THEN OnConnect(p) ELSE Resend(p), "open")
      /\ link[p, r] = "sent" /\ ~Connecting(p, r) /\ parting' = parting
  BY OnConnack DEF Vouched
<1>2. CASE r = "presence"
  <2>1. /\ wire'[p, "presence"] = wire[p, "presence"] \o OnConnect(p)
        /\ link'[p, "presence"] = "open"
    BY <1>1, <1>2 DEF Spoken
  <2>2. ASSUME Speaking(p) PROVE wire'[p, "presence"] = Yes
    <3>1. parting[p] = "no" /\ wire[p, "presence"] \in {Quiet, Hello}
      BY <1>1, <1>2, <2>2 DEF Heard, Speaking
    <3>2. Contains(Hello, "connect")
      BY ShapesHold DEF Shapes
    <3>3. wire[p, "presence"] = Quiet
      BY <1>1, <1>2, <3>1, <3>2 DEF Connecting
    <3>4. OnConnect(p) = Yes
      BY <3>1, ShapesGoOn DEF OnConnect, ResendOffline, Yes, Quiet, Shapes
    <3>5. QED
      BY <2>1, <3>3, <3>4, ShapesGoOn
  <2>3. QED
    BY <1>1, <2>1, <2>2, ShapesDiffer DEF Heard, Speaking
<1>3. CASE r = "selector"
  BY <1>1, <1>3, HeardUnmoved, Roles DEF Spoken, Unmoved, Speaking
<1>4. QED
  BY <1>2, <1>3 DEF Role

LEMMA HeardLinkLoss ==
  ASSUME Vouched, NEW p \in Proc, NEW r \in Role, LinkLoss(p, r), pc' = pc, Heard(p)
  PROVE  Heard(p)'
<1>1. /\ wire'[p, r] = <<>> /\ wire'[p, Other(r)] = wire[p, Other(r)]
      /\ link'[p, r] = "retry" /\ link'[p, Other(r)] = link[p, Other(r)]
      /\ UNCHANGED <<online, parting>>
  BY OnLinkLoss DEF Vouched
<1>2. CASE r = "presence"
  BY <1>1, <1>2 DEF Heard, Speaking, Quiet
<1>3. CASE r = "selector"
  BY <1>1, <1>3, HeardUnmoved, Roles DEF Unmoved, Speaking
<1>4. QED
  BY <1>2, <1>3 DEF Role

LEMMA HeardNetwork ==
  ASSUME Vouched, NEW p \in Proc, Network(p) \/ (\E r \in Role : LinkLoss(p, r)),
         pc' = pc, Heard(p)
  PROVE  Heard(p)'
BY HeardAccept, HeardHandle, HeardExpire, HeardReconnect, HeardConnack, HeardLinkLoss DEF Network

-----------------------------------------------------------------------------
(* The process itself. *)

\* A step of main() that is over with the presence, or leaves it alone.
LEMMA HeardSelector ==
  ASSUME Vouched, NEW p \in Proc, NEW s, NEW state, Spoken(p, "selector", s, state),
         parting' = parting, Heard(p), pc[p] \notin {"none", "drain", "exit"}, pc'[p] # "drain"
  PROVE  Heard(p)'
BY HeardUnmoved, Roles DEF Spoken, Unmoved, Speaking

LEMMA HeardAdvance ==
  ASSUME Vouched, NEW p \in Proc, Advance(p), Heard(p)
  PROVE  Heard(p)'
<1> USE DEF Vouched, ProcessTypeOK
<1>1. CASE \/ EnforcePveGuestsMasked(p) \/ Work(p) \/ After(p) \/ \E m \in Mode : ResolveLocally(p, m)
  <2>1. /\ UNCHANGED mqtt
        /\ pc[p] \in {"mask", "work", "after", "resolve"}
        /\ pc'[p] \notin {"drain", "none"}
    BY <1>1
       DEF EnforcePveGuestsMasked, AfterMask, Work, After, ResolveLocally, AfterDecision, Goto
  <2>2. QED
    BY <2>1, HeardUnmoved DEF Unmoved, Speaking, mqtt, clients
<1>2. CASE PresenceStart(p)
  <2>1. pc[p] = "presence" /\ pc'[p] = "resolve"
    BY <1>2 DEF PresenceStart, Goto
  <2>2. CASE StartPresence(p)
    <3>1. link'[p, "presence"] = "retry" /\ UNCHANGED <<wire, parting>>
      BY <2>2, OnStartPresence
    <3>2. wire[p, "presence"] = Quiet
      BY <2>1 DEF Stage
    <3>3. QED
      BY <2>1, <3>1, <3>2 DEF Heard, Speaking
  <2>3. CASE UNCHANGED mqtt
    BY <2>1, <2>3, HeardUnmoved DEF Unmoved, Speaking, mqtt, clients
  <2>4. QED
    BY <1>2, <2>2, <2>3 DEF PresenceStart
<1>3. CASE AskBroker(p)
  <2>1. OpenSelector(p, "ask") /\ pc[p] = "resolve" /\ pc'[p] = "ask"
    BY <1>3 DEF AskBroker, Goto
  <2>2. QED
    BY <2>1, OnOpenSelector, HeardSelector
<1>4. CASE OpenToWrite(p)
  <2>1. OpenSelector(p, "write") /\ pc[p] \in {"clear", "publish"} /\ pc' = pc
    BY <1>4 DEF OpenToWrite, process
  <2>2. QED
    BY <2>1, OnOpenSelector, HeardSelector
<1>5. CASE Transmit(p)
  <2>1. SendOp(p) /\ pc' = pc
    BY <1>5 DEF Transmit, process
  <2>2. pc[p] \in {"ask", "clear", "publish"}
    BY <2>1 DEF Silent, SendOp, MqttTypeOK
  <2>3. QED
    BY <2>1, <2>2, OnSendOp, HeardSelector
<1>6. CASE Written(p) \/ WriteRaises(p) \/ \E m \in Mode : Answered(p, m)
  <2>1. CloseSelector(p) /\ pc[p] \in {"ask", "clear", "publish"} /\ pc'[p] # "drain"
    BY <1>6 DEF Written, WriteRaises, Answered, Goto, AfterDecision, AfterWrite, Raise
  <2>2. QED
    BY <2>1, OnCloseSelector, HeardSelector
<1>7. CASE StopPresence(p)
  BY <1>7 DEF StopPresence, Goto, Heard, Speaking
<1>8. CASE Drain(p)
  <2>1. pc'[p] = "exit" /\ Disconnect(p)
    BY <1>8 DEF Drain, Goto
  <2>2. QED
    BY <2>1, OnDisconnect DEF Heard, Speaking
<1>9. CASE Exit(p)
  <2>1. pc[p] = "exit" /\ pc'[p] = "none" /\ UNCHANGED mqtt
    BY <1>9 DEF Exit, Forget
  <2>2. QED
    BY <2>1 DEF Heard, Speaking, mqtt, clients
<1>10. QED
  BY <1>1, <1>2, <1>3, <1>4, <1>5, <1>6, <1>7, <1>8, <1>9 DEF Advance

\* A process that fails, is told to stop, or begins.
LEMMA HeardDisturbed ==
  ASSUME Vouched, NEW p \in Proc, Heard(p),
         \/ MaskFails(p) \/ PresenceFails(p) \/ SelectorUnavailable(p) \/ ResolveRaises(p)
         \/ PoweroffFails(p) \/ Sigterm(p)
         \/ \E left \in BOOLEAN : WorkFails(p, left)
         \/ \E c \in Runs : Start(p, c)
  PROVE  Heard(p)'
<1> USE DEF Vouched, ProcessTypeOK
<1>1. CASE \E c \in Runs : Start(p, c)
  <2>1. PICK c \in Runs : Start(p, c)
    BY <1>1
  <2>2. /\ pc[p] = "none" /\ wire[p, "presence"] = Quiet /\ UNCHANGED mqtt
        /\ pc'[p] \in {"mask", "exit"}
    BY <2>1, Roles DEF Start, Goto, Gone, Quiet
  <2>3. link[p, "presence"] = "closed"
    BY <2>2 DEF Stage
  <2>4. QED
    BY <2>2, <2>3 DEF Heard, Speaking, mqtt, clients
<1>2. CASE ~\E c \in Runs : Start(p, c)
  <2>1. /\ UNCHANGED mqtt
        /\ pc[p] \notin {"none", "drain", "exit"} /\ pc'[p] # "drain"
    BY <1>2
       DEF MaskFails, AfterMask, PresenceFails, SelectorUnavailable, AfterDecision, AfterWrite,
           ResolveRaises, Raise, PoweroffFails, Sigterm, WorkFails, Goto
  <2>2. QED
    BY <2>1, HeardUnmoved DEF Unmoved, Speaking, mqtt, clients
<1>3. QED
  BY <1>1, <1>2

LEMMA HeardDie ==
  ASSUME NEW P \in SUBSET Proc, NEW flushed \in BOOLEAN, NEW left, Die(P, flushed, left),
         MqttTypeOK, NEW p \in Proc, Heard(p)
  PROVE  Heard(p)'
<1>1. Vanish(P, flushed) /\ Forget(P)
  BY DEF Die
<1>2. CASE p \in P
  BY <1>1, <1>2 DEF Vanish, Forget, Heard, Speaking
<1>3. CASE p \notin P
  <2>1. pc'[p] = pc[p] /\ Unmoved(p) /\ online' = online
    BY <1>1, <1>3, Roles DEF Vanish, Forget, Unmoved
  <2>2. QED
    BY <2>1, HeardUnmoved DEF Speaking
<1>4. QED
  BY <1>2, <1>3

-----------------------------------------------------------------------------
(* The other processes. *)

LEMMA HeardOther ==
  ASSUME NEW q \in Proc, NEW p \in Proc \ {q}, Others(q), pc'[p] = pc[p], Heard(p),
         online' = online \/ link[p, "presence"] # "open"
  PROVE  Heard(p)'
BY HeardUnmoved, Roles DEF Others, Unmoved, Speaking

\* Only the broker writes online, and only for who has a presence.
LEMMA OnlineKept ==
  ASSUME Vouched, NEW q \in Proc, Network(q) \/ (\E r \in Role : LinkLoss(q, r)), ~Present(q)
  PROVE  online' = online
<1>1. /\ session[q] # "presence" /\ wire[q, "presence"] = <<>>
      /\ Says(wire[q, "selector"], {"connect", "ask", "write", "disconnect"})
      /\ wire[q, "selector"] \in Seq(Packet)
  BY Roles DEF Present, Vouched, Silent, MqttTypeOK, Quiet
<1>2. ASSUME NEW r \in Role, Accept(q, r) PROVE online' = online
  BY <1>1, <1>2 DEF Accept, Will, WithWill
<1>3. ASSUME NEW r \in Role, Handle(q, r) PROVE online' = online
  <2>1. r = "selector"
    BY <1>1, <1>3 DEF Handle, Role
  <2>2. Head(wire[q, "selector"]) \in {"ask", "write", "disconnect"}
    BY <1>1, <1>3, <2>1, TailOf DEF Handle
  <2>3. QED
    BY <1>3, <2>1, <2>2 DEF Handle
<1>4. CASE Expire(q)
  BY <1>1, <1>4 DEF Expire, Will, WithWill
<1>5. QED
  BY <1>2, <1>3, <1>4 DEF Network, Reconnect, Connack, LinkLoss

LEMMA MainKeepsOnline ==
  ASSUME NEW q, Advance(q)
  PROVE  online' = online
BY DEF Advance, EnforcePveGuestsMasked, PresenceStart, StartPresence, ResolveLocally, Answered,
       CloseSelector, AskBroker, OpenToWrite, OpenSelector, Transmit, SendOp, Written, WriteRaises,
       Work, After, StopPresence, PublishOffline, Drain, Disconnect, Exit, mqtt

LEMMA SteppedAdvance ==
  ASSUME Vouched, NEW q \in Proc, Advance(q)
  PROVE  Others(q) /\ \A p \in Proc \ {q} : pc'[p] = pc[p]
<1>1. Stepped(q)
  BY SteppedExit, SteppedStart, SteppedStop, SteppedDrain, SteppedSelector, SteppedAlone DEF Advance
<1>2. QED
  BY <1>1 DEF Stepped

-----------------------------------------------------------------------------
(* The theorems. *)

LEMMA HeardInit == Init => \A p \in Proc : Heard(p)
<1> SUFFICES ASSUME Init, NEW p \in Proc PROVE Heard(p)
  OBVIOUS
<1>1. /\ pc[p] = "none" /\ parting[p] = "no"
  BY DEF Init, MqttInit, Fresh
<1>2. QED
  BY <1>1 DEF Heard, Speaking

LEMMA HeardStep ==
  ASSUME Vouched, OnePresence, [Next]_vars, NEW p \in Proc, Heard(p)
  PROVE  Heard(p)'
<1>1. ASSUME NEW q \in Proc, Advance(q) PROVE Heard(p)'
  <2>1. CASE q = p
    BY <1>1, <2>1, HeardAdvance
  <2>2. CASE q # p
    BY <1>1, <2>2, SteppedAdvance, MainKeepsOnline, HeardOther
  <2>3. QED
    BY <2>1, <2>2
<1>2. ASSUME NEW q \in Proc, Network(q) \/ (\E r \in Role : LinkLoss(q, r)),
             UNCHANGED <<node, process, history, calm>>
      PROVE  Heard(p)'
  <2>1. pc' = pc /\ run' = run /\ raced' = raced
    BY <1>2 DEF process, history
  <2>2. CASE q = p
    BY <1>2, <2>1, <2>2, HeardNetwork
  <2>3. CASE q # p
    <3>1. Others(q)
      BY <1>2, <2>1, GoodNetwork
    <3>2. online' = online \/ link[p, "presence"] # "open"
      BY <1>2, <2>3, OnlineKept DEF OnePresence, Present
    <3>3. QED
      BY <2>1, <2>3, <3>1, <3>2, HeardOther
  <2>4. QED
    BY <2>2, <2>3
<1>3. ASSUME NEW q \in Proc,
             \/ MaskFails(q) \/ PresenceFails(q) \/ SelectorUnavailable(q) \/ ResolveRaises(q)
             \/ PoweroffFails(q) \/ Sigterm(q)
             \/ \E left \in BOOLEAN : WorkFails(q, left)
             \/ \E c \in Runs : Start(q, c)
      PROVE  Heard(p)'
  <2>1. CASE q = p
    BY <1>3, <2>1, HeardDisturbed
  <2>2. CASE q # p
    <3>1. UNCHANGED mqtt /\ pc'[p] = pc[p]
      BY <1>3, <2>2
         DEF MaskFails, PresenceFails, SelectorUnavailable, ResolveRaises, Raise, PoweroffFails,
             Sigterm, WorkFails, Start, Goto, Vouched, ProcessTypeOK
    <3>2. QED
      BY <3>1, HeardUnmoved DEF Unmoved, Speaking, mqtt, clients
  <2>3. QED
    BY <2>1, <2>2
<1>4. ASSUME NEW P \in SUBSET Proc, NEW flushed \in BOOLEAN, NEW left, Die(P, flushed, left)
      PROVE  Heard(p)'
  BY <1>4, HeardDie DEF Vouched
<1>5. ASSUME NEW q \in Proc, Fault(q) PROVE Heard(p)'
  <2>1. ASSUME NEW left \in BOOLEAN, Kill(q, left) PROVE Heard(p)'
    BY <1>4, <2>1 DEF Kill
  <2>2. QED
    BY <1>2, <1>3, <1>5, <2>1 DEF Fault
<1>6. ASSUME NEW left, PowerLoss(left) PROVE Heard(p)'
  BY <1>4, <1>6 DEF PowerLoss
<1>7. CASE UNCHANGED <<mqtt, process>>
  BY <1>7, HeardUnmoved DEF Unmoved, Speaking, mqtt, clients, process
<1>8. CASE Disturbance
  BY <1>3, <1>5, <1>6, <1>7, <1>8, RunsAssumption
     DEF Disturbance, Boot, ByHand, PowerDown, Unmask
<1>9. QED
  BY <1>1, <1>2, <1>7, <1>8 DEF Next, Online, Settle, vars

\* While at most one process has a presence, whatever runs by hand beside it, what
\* the presence says is heard, over takeovers, broken connections and reboots.
THEOREM HeardInvariant == Spec /\ []OnePresence => [](\A p \in Proc : Heard(p))
<1>1. Init => \A p \in Proc : Heard(p)
  BY HeardInit
<1>2. ASSUME Vouched, OnePresence, [Next]_vars, \A p \in Proc : Heard(p)
      PROVE  (\A p \in Proc : Heard(p))'
  BY <1>2, HeardStep
<1>3. QED
  BY <1>1, <1>2, VouchedInvariant, PTL DEF Spec

\* A presence that is held, with nothing under way, shows true; for any number of
\* processes, one after another or side by side, of which one has a presence.
THEOREM HeldSafe == Spec /\ []OnePresence => []HeldMeansOnline
<1>1. (\A p \in Proc : Heard(p)) => HeldMeansOnline
  BY Roles DEF HeldMeansOnline, Settled, Heard, Speaking, Quiet
<1>2. QED
  BY <1>1, HeardInvariant, PTL

\* The node of the Controller run, where processes follow one another.
THEOREM HeldSafeAlone == (\A p, q \in Proc : p = q) /\ Spec => []HeldMeansOnline
<1> SUFFICES ASSUME \A p, q \in Proc : p = q
             PROVE  Spec => []HeldMeansOnline
  OBVIOUS
<1>1. OnePresence
  BY DEF OnePresence
<1>2. QED
  BY <1>1, HeldSafe, PTL
=============================================================================
