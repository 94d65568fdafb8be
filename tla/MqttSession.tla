----------------------------- MODULE MqttSession -----------------------------
(***************************************************************************)
(* The MQTT connections of controller processes: the presence that holds    *)
(* `online` and the short connections of the selector, both of             *)
(* coldstandby/selectors/mqtt_ha.py and made by one _build_client.  The two *)
(* clients of a process have one client id, so the broker keeps one session *)
(* for both: whoever connects drops the other, and paho's loop thread       *)
(* connects again.  What a client sends reaches the broker in order or, when *)
(* the connection breaks, not at all.                                      *)
(***************************************************************************)
EXTENDS Sequences, SequencesExt

CONSTANT Proc   \* controller processes, each with a process id of its own

Role == {"presence", "selector"}
Other(r) == IF r = "presence" THEN "selector" ELSE "presence"

\* true and false go to the online topic; ask is the subscription of a read,
\* write any other publish.
Packet == {"connect", "true", "false", "ask", "write", "disconnect"}

VARIABLES
  online,   \* the retained message of the online topic
  session,  \* the client the broker keeps the session of a client id for
  link,     \* how each client stands with the broker
  wire,     \* packets it sent that the broker has not handled
  op,       \* what the selector is doing: "none", "ask" or "write"
  sent,     \* it has handed its packet to paho
  done,     \* the broker has answered or confirmed it
  parting   \* stop()'s own "false": "no", "unsaid" or "said"

clients == <<link, wire, op, sent, done, parting>>
mqtt == <<online, session, clients>>

\* closed: no client; retry: its loop runs without a connection; sent: CONNECT is
\* sent and CONNACK not handled; open.
Link == {"closed", "retry", "sent", "open"}

MqttTypeOK ==
  /\ online \in {"true", "false"}
  /\ session \in [Proc -> Role \cup {"none"}]
  /\ link \in [Proc \X Role -> Link]
  /\ wire \in [Proc \X Role -> Seq(Packet)]
  /\ op \in [Proc -> {"none", "ask", "write"}]
  /\ sent \in [Proc -> BOOLEAN]
  /\ done \in [Proc -> BOOLEAN]
  /\ parting \in [Proc -> {"no", "unsaid", "said"}]

MqttInit ==
  /\ online = "false"
  /\ session = [p \in Proc |-> "none"]
  /\ link = [c \in Proc \X Role |-> "closed"]
  /\ wire = [c \in Proc \X Role |-> <<>>]
  /\ op = [p \in Proc |-> "none"]
  /\ sent = [p \in Proc |-> FALSE]
  /\ done = [p \in Proc |-> FALSE]
  /\ parting = [p \in Proc |-> "no"]

Connected(p, r) == link[p, r] \in {"sent", "open"}
Connecting(p, r) == Contains(wire[p, r], "connect")

\* The broker's side of a client is over: nothing held for it, nothing to come.
Gone(p) == session[p] = "none" /\ \A r \in Role : wire[p, r] = <<>>

Send(p, r, packets) == wire' = [wire EXCEPT ![<<p, r>>] = @ \o packets]

-----------------------------------------------------------------------------
(* The broker. *)

\* Mutant: start() has no will_set.
NoWill == {}

\* MqttPresence.start() sets a will, _build_client sets none.
WithWill == {"presence"}

\* What the broker publishes when the connection it holds for p just ends.
Will(p) == IF session[p] \in WithWill THEN "false" ELSE online

\* What is left of what a client sent when its connection is closed: what it
\* said on a later one.
Later(w) == IF Contains(w, "connect") THEN SubSeq(w, SelectInSeq(w, LAMBDA x : x = "connect"), Len(w))
            ELSE <<>>

\* CONNECT takes the session over; the connection that had it is closed.
Accept(p, r) ==
  LET o == Other(r)
      kicked == session[p] = o
  IN /\ wire[p, r] # <<>> /\ Head(wire[p, r]) = "connect"
     /\ session' = [session EXCEPT ![p] = r]
     /\ online' = Will(p)
     /\ link' = IF kicked /\ Connected(p, o) /\ ~Connecting(p, o)
                THEN [link EXCEPT ![<<p, o>>] = "retry"] ELSE link
     /\ wire' = [wire EXCEPT ![<<p, r>>] = Tail(@), ![<<p, o>>] = IF kicked THEN Later(@) ELSE @]
     /\ UNCHANGED <<op, sent, done, parting>>

\* Any other packet, on the connection that holds the session.
Handle(p, r) ==
  /\ wire[p, r] # <<>> /\ Head(wire[p, r]) # "connect"
  /\ LET packet == Head(wire[p, r])
     IN /\ online' = IF packet \in {"true", "false"} THEN packet ELSE online
        /\ session' = IF packet = "disconnect" THEN [session EXCEPT ![p] = "none"] ELSE session
        /\ done' = [done EXCEPT ![p] = @ \/ (packet = op[p] /\ ~Connecting(p, r))]
        /\ parting' = [parting EXCEPT ![p] = IF packet = "false" /\ @ = "unsaid" THEN "said" ELSE @]
  /\ wire' = [wire EXCEPT ![<<p, r>>] = Tail(@)]
  /\ UNCHANGED <<link, op, sent>>

\* The broker notices, at once or by the keepalive, that the connection is gone.
Expire(p) ==
  /\ session[p] # "none"
  /\ ~Connected(p, session[p]) /\ wire[p, session[p]] = <<>>
  /\ online' = Will(p)
  /\ session' = [session EXCEPT ![p] = "none"]
  /\ UNCHANGED clients

-----------------------------------------------------------------------------
(* The loop threads of the clients. *)

\* Once stop() has got its word through, the presence tries no more.
Reconnect(p, r) ==
  /\ link[p, r] = "retry"
  /\ r = "presence" => parting[p] # "said"
  /\ link' = [link EXCEPT ![<<p, r>>] = "sent"]
  /\ Send(p, r, <<"connect">>)
  /\ UNCHANGED <<online, session, op, sent, done, parting>>

\* What paho sends again of stop()'s word once there is a connection.
ResendOffline(p) == IF parting[p] = "unsaid" /\ ~Contains(wire[p, "presence"], "false")
                    THEN <<"false">> ELSE <<>>

\* Mutant: the first connection publishes true, in start(), and no other.
OnConnectMute(p) == ResendOffline(p)

\* _on_connect, and then what paho has still queued.
OnConnect(p) == <<"true">> \o ResendOffline(p)

\* What the selector has not got confirmed is sent again; a subscription is not.
Resend(p) == IF op[p] = "write" /\ sent[p] /\ ~done[p] /\ wire[p, "selector"] = <<>>
             THEN <<"write">> ELSE <<>>

Connack(p, r) ==
  /\ link[p, r] = "sent"
  /\ session[p] = r /\ ~Connecting(p, r)
  /\ link' = [link EXCEPT ![<<p, r>>] = "open"]
  /\ Send(p, r, IF r = "presence" THEN OnConnect(p) ELSE Resend(p))
  /\ UNCHANGED <<online, session, op, sent, done, parting>>

\* Fault: the connection breaks, and the broker may not know for long.
LinkLoss(p, r) ==
  /\ Connected(p, r)
  /\ link' = [link EXCEPT ![<<p, r>>] = "retry"]
  /\ wire' = [wire EXCEPT ![<<p, r>>] = <<>>]
  /\ UNCHANGED <<online, session, op, sent, done, parting>>

Network(p) ==
  \/ \E r \in Role : Accept(p, r) \/ Handle(p, r) \/ Reconnect(p, r) \/ Connack(p, r)
  \/ Expire(p)

-----------------------------------------------------------------------------
(* What main() calls. *)

\* Mutant: no loop_start().
StartPresenceWithoutLoop(p) ==
  /\ link' = [link EXCEPT ![<<p, "presence">>] = "sent"]
  /\ UNCHANGED <<online, session, wire, op, sent, done, parting>>

\* MqttPresence.start(): the loop thread connects in the background.
StartPresence(p) ==
  /\ link' = [link EXCEPT ![<<p, "presence">>] = "retry"]
  /\ UNCHANGED <<online, session, wire, op, sent, done, parting>>

\* MqttPresence.stop(), its publish.
PublishOffline(p) ==
  /\ parting' = [parting EXCEPT ![p] = "unsaid"]
  /\ Send(p, "presence", IF Connected(p, "presence") THEN <<"false">> ELSE <<>>)
  /\ UNCHANGED <<online, session, link, op, sent, done>>

Goodbye(p, r) == IF Connected(p, r) THEN <<"disconnect">> ELSE <<>>

\* MqttPresence.stop(), its end: loop_stop() joins a thread that goes on until
\* everything sent is confirmed or the connection is gone.
Disconnect(p) ==
  /\ wire[p, "presence"] = <<>> /\ link[p, "presence"] # "sent"
  /\ Send(p, "presence", Goodbye(p, "presence"))
  /\ link' = [link EXCEPT ![<<p, "presence">>] = "closed"]
  /\ parting' = [parting EXCEPT ![p] = "no"]
  /\ UNCHANGED <<online, session, op, sent, done>>

\* MqttHaSelector._connection() is entered.
OpenSelector(p, kind) ==
  /\ op[p] = "none"
  /\ op' = [op EXCEPT ![p] = kind]
  /\ link' = [link EXCEPT ![<<p, "selector">>] = "sent"]
  /\ Send(p, "selector", <<"connect">>)
  /\ UNCHANGED <<online, session, sent, done, parting>>

\* subscribe() or publish() with a connection.
SendOp(p) ==
  /\ op[p] # "none" /\ ~sent[p]
  /\ Connected(p, "selector")
  /\ Send(p, "selector", <<op[p]>>)
  /\ sent' = [sent EXCEPT ![p] = TRUE]
  /\ UNCHANGED <<online, session, link, op, done, parting>>

\* _connection() is left, confirmed or not.
CloseSelector(p) ==
  /\ op[p] # "none"
  /\ link' = [link EXCEPT ![<<p, "selector">>] = "closed"]
  /\ Send(p, "selector", Goodbye(p, "selector"))
  /\ op' = [op EXCEPT ![p] = "none"]
  /\ sent' = [sent EXCEPT ![p] = FALSE]
  /\ done' = [done EXCEPT ![p] = FALSE]
  /\ UNCHANGED <<online, session, parting>>

\* The processes P end without a word: the kernel still delivers what they
\* sent, unless the power went.
Vanish(P, flushed) ==
  /\ link' = [c \in Proc \X Role |-> IF c[1] \in P THEN "closed" ELSE link[c]]
  /\ wire' = [c \in Proc \X Role |-> IF c[1] \in P /\ ~flushed THEN <<>> ELSE wire[c]]
  /\ op' = [p \in Proc |-> IF p \in P THEN "none" ELSE op[p]]
  /\ sent' = [p \in Proc |-> p \notin P /\ sent[p]]
  /\ done' = [p \in Proc |-> p \notin P /\ done[p]]
  /\ parting' = [p \in Proc |-> IF p \in P THEN "no" ELSE parting[p]]
  /\ UNCHANGED <<online, session>>
=============================================================================
