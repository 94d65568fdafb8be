----------------------------- MODULE MqttProofs -----------------------------
(*****************************************************************************)
(* Lemmas about MqttSession: what its operators on packets return, and what  *)
(* each step changes of the connections of a process.                        *)
(*****************************************************************************)
EXTENDS MqttSession, SequenceTheorems, WellFoundedInduction, TLAPS

(* Packets one after another. *)

\* All of w is in S.
Says(w, S) == \A i \in 1..Len(w) : w[i] \in S

\* After a disconnect comes nothing or a new connection.
Polite(w) == \A i \in 1..(Len(w) - 1) : w[i] = "disconnect" => w[i + 1] = "connect"

LEMMA NothingSaid == \A S : Says(<<>>, S)
BY EmptySeq DEF Says

\* A packet less.
LEMMA TailOf ==
  ASSUME NEW w \in Seq(Packet), w # <<>>
  PROVE  /\ Head(w) \in Packet /\ Tail(w) \in Seq(Packet)
         /\ \A S : Says(w, S) => Head(w) \in S /\ Says(Tail(w), S)
         /\ Polite(w) => Polite(Tail(w))
         /\ Polite(w) /\ Head(w) = "disconnect" /\ Tail(w) # <<>> => Head(Tail(w)) = "connect"
         /\ IF Tail(w) = <<>> THEN Last(w) = Head(w) ELSE Last(Tail(w)) = Last(w)
         /\ \A e : Contains(w, e) <=> Head(w) = e \/ Contains(Tail(w), e)
<1> DEFINE n == Len(w)
           v == Tail(w)
<1>1. n \in Nat /\ n >= 1 /\ Head(w) = w[1] /\ w[1] \in Packet
  BY EmptySeq
<1>2. v \in Seq(Packet) /\ Len(v) = n - 1 /\ \A i \in 1..(n - 1) : v[i] = w[i + 1]
  BY <1>1, HeadTailProperties
<1>3. v = <<>> <=> n = 1
  <2>1. v = <<>> <=> Len(v) = 0
    BY <1>2, EmptySeq
  <2>2. QED
    BY <1>1, <1>2, <2>1
<1>4. v # <<>> => Head(v) = w[2] /\ Last(v) = w[n] /\ n >= 2
  BY <1>1, <1>2, <1>3 DEF Last
<1> HIDE DEF v, n
<1>5. \A S : Says(w, S) => Head(w) \in S /\ Says(v, S)
  BY <1>1, <1>2 DEF Says, n
<1>6. Polite(w) => Polite(v)
  <2> SUFFICES ASSUME Polite(w), NEW i \in 1..(n - 2), v[i] = "disconnect"
               PROVE  v[i + 1] = "connect"
    BY <1>1, <1>2 DEF Polite
  <2>1. i + 1 \in 1..(n - 1) /\ i \in 1..(n - 1) /\ v[i] = w[i + 1] /\ v[i + 1] = w[i + 1 + 1]
    BY <1>1, <1>2
  <2>2. QED
    BY <2>1 DEF Polite, n
<1>7. Polite(w) /\ Head(w) = "disconnect" /\ v # <<>> => Head(v) = "connect"
  <2> SUFFICES ASSUME Polite(w), w[1] = "disconnect", v # <<>> PROVE w[2] = "connect"
    BY <1>1, <1>4
  <2>1. 1 \in 1..(n - 1) /\ 1 + 1 = 2
    BY <1>1, <1>4
  <2>2. QED
    BY <2>1 DEF Polite, n
<1>8. IF v = <<>> THEN Last(w) = Head(w) ELSE Last(v) = Last(w)
  BY <1>1, <1>3, <1>4 DEF Last, n
<1>9. ASSUME NEW e PROVE Contains(w, e) <=> Head(w) = e \/ Contains(v, e)
  <2>1. ASSUME NEW i \in 1..n, w[i] = e PROVE Head(w) = e \/ Contains(v, e)
    <3>1. CASE i = 1
      BY <1>1, <2>1, <3>1
    <3>2. CASE i # 1
      <4>1. i - 1 \in 1..(n - 1) /\ v[i - 1] = w[i]
        BY <1>1, <1>2, <3>2
      <4>2. QED
        BY <1>2, <2>1, <4>1 DEF Contains
    <3>3. QED
      BY <3>1, <3>2
  <2>2. ASSUME NEW i \in 1..(n - 1), v[i] = e PROVE Contains(w, e)
    <3>1. i + 1 \in 1..n /\ w[i + 1] = e
      BY <1>1, <1>2, <2>2
    <3>2. QED
      BY <3>1 DEF Contains, n
  <2>3. Head(w) = e => Contains(w, e)
    BY <1>1 DEF Contains, n
  <2>4. QED
    BY <1>2, <2>1, <2>2, <2>3 DEF Contains, n
<1>10. QED
  BY <1>1, <1>2, <1>5, <1>6, <1>7, <1>8, <1>9 DEF v

\* A packet more.
LEMMA AppendOf ==
  ASSUME NEW w \in Seq(Packet), NEW x \in Packet
  PROVE  LET v == w \o <<x>> IN
         /\ v \in Seq(Packet) /\ v # <<>> /\ Last(v) = x
         /\ \A S : Says(w, S) /\ x \in S => Says(v, S)
         /\ Polite(w) /\ (w = <<>> \/ Last(w) # "disconnect" \/ x = "connect") => Polite(v)
         /\ Head(v) = IF w = <<>> THEN x ELSE Head(w)
         /\ \A e : Contains(v, e) <=> Contains(w, e) \/ x = e
<1> DEFINE n == Len(w)
           v == w \o <<x>>
<1>1. n \in Nat /\ (w = <<>> <=> n = 0) /\ (w # <<>> => Head(w) = w[1])
  BY EmptySeq
<1>2. v \in Seq(Packet) /\ Len(v) = n + 1 /\ v[n + 1] = x /\ \A i \in 1..n : v[i] = w[i]
  BY <1>1
<1> HIDE DEF v, n
<1>3. v # <<>> /\ Last(v) = x /\ Head(v) = v[1]
  BY <1>1, <1>2, EmptySeq DEF Last
<1>4. \A S : Says(w, S) /\ x \in S => Says(v, S)
  BY <1>1, <1>2 DEF Says, n
<1>5. Polite(w) /\ (w = <<>> \/ Last(w) # "disconnect" \/ x = "connect") => Polite(v)
  <2> SUFFICES ASSUME Polite(w), w = <<>> \/ Last(w) # "disconnect" \/ x = "connect",
                      NEW i \in 1..n, v[i] = "disconnect"
               PROVE  v[i + 1] = "connect"
    BY <1>1, <1>2 DEF Polite
  <2>1. CASE i = n
    BY <1>1, <1>2, <2>1 DEF Last, n
  <2>2. CASE i # n
    <3>1. i \in 1..(n - 1) /\ i + 1 \in 1..n
      BY <1>1, <2>2
    <3>2. w[i] = "disconnect" /\ v[i + 1] = w[i + 1]
      BY <1>2, <3>1
    <3>3. QED
      BY <3>1, <3>2 DEF Polite, n
  <2>3. QED
    BY <2>1, <2>2
<1>6. Head(v) = IF w = <<>> THEN x ELSE Head(w)
  BY <1>1, <1>2, <1>3
<1>7. \A e : Contains(v, e) <=> Contains(w, e) \/ x = e
  <2>1. 1..(n + 1) = 1..n \cup {n + 1}
    BY <1>1
  <2>2. QED
    BY <1>2, <2>1 DEF Contains, n
<1>8. QED
  BY <1>2, <1>3, <1>4, <1>5, <1>6, <1>7 DEF v

\* The first place of something that is there.
LEMMA LeastOf ==
  ASSUME NEW I, I \subseteq Nat, I # {}
  PROVE  Min(I) \in I
<1>1. IsWellFoundedOn(OpToRel(<, Nat), Nat)
  BY NatLessThanWellFounded
<1>2. PICK x \in I : \A y \in I : ~ (<<y, x>> \in OpToRel(<, Nat))
  BY <1>1, WFMin
<1>3. ASSUME NEW y \in I PROVE x <= y
  <2>1. x \in Nat /\ y \in Nat /\ <<y, x>> \in Nat \X Nat
    OBVIOUS
  <2>2. y < x => <<y, x>> \in OpToRel(<, Nat)
    BY <2>1 DEF OpToRel
  <2>3. ~(<<y, x>> \in OpToRel(<, Nat))
    BY <1>2
  <2>4. ~(y < x)
    BY <2>2, <2>3
  <2>5. QED
    BY <2>1, <2>4
<1>4. QED
  BY <1>3 DEF Min

\* What a new connection leaves of what was said on the one before.
LEMMA LaterOf ==
  ASSUME NEW w \in Seq(Packet)
  PROVE  LET v == Later(w) IN
         /\ v \in Seq(Packet)
         /\ \A S : Says(w, S) => Says(v, S)
         /\ Polite(w) => Polite(v)
         /\ v # <<>> => Head(v) = "connect" /\ w # <<>> /\ Last(v) = Last(w)
         /\ Contains(w, "connect") <=> v # <<>>
         /\ v # <<>> => Contains(v, "connect")
<1> DEFINE n == Len(w)
           v == Later(w)
           k == SelectInSeq(w, LAMBDA x : x = "connect")
<1>1. CASE ~Contains(w, "connect")
  <2>1. v = <<>>
    BY <1>1 DEF Later
  <2>2. v \in Seq(Packet) /\ Len(v) = 0
    BY <2>1, EmptySeq
  <2>3. QED
    BY <1>1, <2>1, <2>2 DEF Says, Polite
<1>2. CASE Contains(w, "connect")
  <2>1. k \in 1..n /\ w[k] = "connect"
    <3> DEFINE I == {i \in 1..n : w[i] = "connect"}
    <3>1. I # {} /\ I \subseteq Nat
      BY <1>2 DEF Contains
    <3>2. Min(I) \in I
      BY <3>1, LeastOf
    <3>3. k = Min(I)
      BY <3>1 DEF SelectInSeq
    <3>4. QED
      BY <3>2, <3>3
  <2>2. v = SubSeq(w, k, n)
    BY <1>2 DEF Later
  <2> HIDE DEF v, k
  <2>3. n \in Nat /\ n >= 1 /\ k \in Nat
    BY <2>1
  <2>4. /\ v \in Seq(Packet) /\ Len(v) = n - k + 1
        /\ \A i \in 1..(n - k + 1) : v[i] = w[k + i - 1]
    BY <2>1, <2>2, <2>3, SubSeqProperties
  <2> HIDE DEF n
  <2>5. v # <<>> /\ Head(v) = "connect" /\ Contains(v, "connect")
    <3>1. 1 \in 1..Len(v) /\ v[1] = w[k]
      BY <2>1, <2>3, <2>4
    <3>2. v # <<>>
      BY <3>1, EmptySeq
    <3>3. QED
      BY <2>1, <2>4, <3>1, <3>2 DEF Contains
  <2>6. Last(v) = Last(w) /\ w # <<>>
    BY <2>1, <2>3, <2>4, EmptySeq DEF Last, n
  <2>7. ASSUME NEW S, Says(w, S) PROVE Says(v, S)
    <3> SUFFICES ASSUME NEW i \in 1..(n - k + 1) PROVE v[i] \in S
      BY <2>4 DEF Says
    <3>1. k + i - 1 \in 1..n
      BY <2>1, <2>3
    <3>2. QED
      BY <2>4, <2>7, <3>1 DEF Says, n
  <2>8. ASSUME Polite(w) PROVE Polite(v)
    <3> SUFFICES ASSUME NEW i \in 1..(n - k), v[i] = "disconnect" PROVE v[i + 1] = "connect"
      BY <2>1, <2>3, <2>4 DEF Polite
    <3> DEFINE j == k + i - 1
    <3>1. j \in 1..(n - 1) /\ i \in 1..(n - k + 1) /\ i + 1 \in 1..(n - k + 1)
          /\ j + 1 = k + (i + 1) - 1
      BY <2>1, <2>3
    <3>2. v[i] = w[j] /\ v[i + 1] = w[j + 1]
      BY <2>4, <3>1
    <3> HIDE DEF j
    <3>3. QED
      BY <2>8, <3>1, <3>2 DEF Polite, n
  <2>9. QED
    BY <1>2, <2>4, <2>5, <2>6, <2>7, <2>8 DEF v
<1>3. QED
  BY <1>1, <1>2

-----------------------------------------------------------------------------
(* What each step of the connections of p changes. *)

Others(p) ==
  \A q \in Proc \ {p} :
    /\ \A r \in Role : wire'[q, r] = wire[q, r] /\ link'[q, r] = link[q, r]
    /\ session'[q] = session[q] /\ op'[q] = op[q] /\ parting'[q] = parting[q]

LEMMA OtherOf ==
  ASSUME NEW r \in Role
  PROVE  /\ Other(r) \in Role /\ Other(r) # r /\ Other(Other(r)) = r
         /\ Role = {r, Other(r)}
BY DEF Role, Other

\* Sending puts packets behind those that are there.
LEMMA SendTo ==
  ASSUME MqttTypeOK, NEW p \in Proc, NEW r \in Role, NEW s \in Seq(Packet), Send(p, r, s)
  PROVE  /\ wire' \in [Proc \X Role -> Seq(Packet)]
         /\ wire'[p, r] = wire[p, r] \o s
         /\ wire'[p, Other(r)] = wire[p, Other(r)]
         /\ \A q \in Proc \ {p}, t \in Role : wire'[q, t] = wire[q, t]
<1>1. wire[p, r] \in Seq(Packet)
  BY DEF MqttTypeOK
<1>2. wire[p, r] \o s \in Seq(Packet)
  BY <1>1, ConcatProperties
<1>3. QED
  BY <1>1, <1>2, OtherOf DEF MqttTypeOK, Send

\* A CONNECT of client r takes the session over from client o.
TakenOver(p, r, o) ==
  /\ MqttTypeOK' /\ Others(p)
  /\ wire[p, r] # <<>> /\ Head(wire[p, r]) = "connect"
  /\ session'[p] = r
  /\ online' = Will(p)
  /\ wire'[p, r] = Tail(wire[p, r]) /\ link'[p, r] = link[p, r]
  /\ wire'[p, o] = IF session[p] = o THEN Later(wire[p, o]) ELSE wire[p, o]
  /\ link'[p, o] = IF session[p] = o /\ Connected(p, o) /\ ~Connecting(p, o)
                   THEN "retry" ELSE link[p, o]
  /\ op'[p] = op[p] /\ parting'[p] = parting[p]

LEMMA OnAccept ==
  ASSUME MqttTypeOK, NEW p \in Proc, NEW r \in Role, NEW o \in Role, o = Other(r), Accept(p, r)
  PROVE  TakenOver(p, r, o)
<1>1. o \in Role /\ o # r
  BY OtherOf
<1>2. /\ wire[p, r] # <<>> /\ Head(wire[p, r]) = "connect"
      /\ session' = [session EXCEPT ![p] = r]
      /\ online' = Will(p)
      /\ link' = IF session[p] = o /\ Connected(p, o) /\ ~Connecting(p, o)
                 THEN [link EXCEPT ![<<p, o>>] = "retry"] ELSE link
      /\ wire' = [wire EXCEPT ![<<p, r>>] = Tail(@),
                              ![<<p, o>>] = IF session[p] = o THEN Later(@) ELSE @]
      /\ UNCHANGED <<op, sent, done, parting>>
  BY DEF Accept
<1>3. wire[p, r] \in Seq(Packet) /\ wire[p, o] \in Seq(Packet)
  BY <1>1 DEF MqttTypeOK
<1>4. Tail(wire[p, r]) \in Seq(Packet) /\ Later(wire[p, o]) \in Seq(Packet)
  BY <1>2, <1>3, TailOf, LaterOf
<1>5. /\ wire' \in [Proc \X Role -> Seq(Packet)]
      /\ wire'[p, r] = Tail(wire[p, r])
      /\ wire'[p, o] = IF session[p] = o THEN Later(wire[p, o]) ELSE wire[p, o]
      /\ \A q \in Proc \ {p}, t \in Role : wire'[q, t] = wire[q, t]
  BY <1>1, <1>2, <1>3, <1>4 DEF MqttTypeOK
<1>6. /\ link' \in [Proc \X Role -> Link]
      /\ link'[p, r] = link[p, r]
      /\ link'[p, o] = IF session[p] = o /\ Connected(p, o) /\ ~Connecting(p, o)
                       THEN "retry" ELSE link[p, o]
      /\ \A q \in Proc \ {p}, t \in Role : link'[q, t] = link[q, t]
  BY <1>1, <1>2 DEF MqttTypeOK, Link
<1>7. session' \in [Proc -> Role \cup {"none"}] /\ online' \in {"true", "false"}
  BY <1>2 DEF MqttTypeOK, Will, WithWill
<1>8. MqttTypeOK'
  BY <1>2, <1>5, <1>6, <1>7 DEF MqttTypeOK
<1>9. Others(p)
  BY <1>2, <1>5, <1>6 DEF MqttTypeOK, Others
<1>10. session'[p] = r
  BY <1>2 DEF MqttTypeOK
<1>11. QED
  BY <1>2, <1>5, <1>6, <1>8, <1>9, <1>10 DEF TakenOver

LEMMA OnHandle ==
  ASSUME MqttTypeOK, NEW p \in Proc, NEW r \in Role, Handle(p, r)
  PROVE  LET o == Other(r)
             packet == Head(wire[p, r]) IN
         /\ MqttTypeOK' /\ Others(p)
         /\ wire[p, r] # <<>> /\ packet # "connect"
         /\ online' = IF packet \in {"true", "false"} THEN packet ELSE online
         /\ session'[p] = IF packet = "disconnect" THEN "none" ELSE session[p]
         /\ wire'[p, r] = Tail(wire[p, r]) /\ wire'[p, o] = wire[p, o]
         /\ link' = link /\ op' = op
         /\ parting'[p] = IF packet = "false" /\ parting[p] = "unsaid" THEN "said" ELSE parting[p]
<1> DEFINE o == Other(r)
           packet == Head(wire[p, r])
<1>1. o \in Role /\ o # r
  BY OtherOf
<1>2. /\ wire[p, r] # <<>> /\ packet # "connect"
      /\ online' = IF packet \in {"true", "false"} THEN packet ELSE online
      /\ session' = IF packet = "disconnect" THEN [session EXCEPT ![p] = "none"] ELSE session
      /\ done' = [done EXCEPT ![p] = @ \/ (packet = op[p] /\ ~Connecting(p, r))]
      /\ parting' = [parting EXCEPT ![p] = IF packet = "false" /\ @ = "unsaid" THEN "said" ELSE @]
      /\ wire' = [wire EXCEPT ![<<p, r>>] = Tail(@)]
      /\ UNCHANGED <<link, op, sent>>
  BY DEF Handle
<1>3. wire[p, r] \in Seq(Packet)
  BY DEF MqttTypeOK
<1>4. Tail(wire[p, r]) \in Seq(Packet)
  BY <1>2, <1>3, TailOf
<1>5. /\ wire' \in [Proc \X Role -> Seq(Packet)]
      /\ wire'[p, r] = Tail(wire[p, r]) /\ wire'[p, o] = wire[p, o]
      /\ \A q \in Proc \ {p}, t \in Role : wire'[q, t] = wire[q, t]
  BY <1>1, <1>2, <1>4 DEF MqttTypeOK
<1> HIDE DEF packet, o
<1>6. /\ session' \in [Proc -> Role \cup {"none"}]
      /\ session'[p] = IF packet = "disconnect" THEN "none" ELSE session[p]
      /\ \A q \in Proc \ {p} : session'[q] = session[q]
  BY <1>2 DEF MqttTypeOK
<1>7. /\ parting' \in [Proc -> {"no", "unsaid", "said"}]
      /\ parting'[p] = IF packet = "false" /\ parting[p] = "unsaid" THEN "said" ELSE parting[p]
      /\ \A q \in Proc \ {p} : parting'[q] = parting[q]
  BY <1>2 DEF MqttTypeOK
<1>8. done' \in [Proc -> BOOLEAN] /\ online' \in {"true", "false"}
  BY <1>2 DEF MqttTypeOK, Connecting
<1>9. QED
  BY <1>2, <1>5, <1>6, <1>7, <1>8 DEF MqttTypeOK, Others, packet, o

LEMMA OnExpire ==
  ASSUME MqttTypeOK, NEW p \in Proc, Expire(p)
  PROVE  /\ MqttTypeOK' /\ Others(p)
         /\ session[p] \in Role
         /\ ~Connected(p, session[p]) /\ wire[p, session[p]] = <<>>
         /\ online' = Will(p)
         /\ session'[p] = "none"
         /\ UNCHANGED <<link, wire, op, parting>>
BY DEF MqttTypeOK, Others, Expire, Will, WithWill, clients

\* A connection begins to be, or is told to, or says something.
Spoken(p, r, s, state) ==
  LET o == Other(r) IN
  /\ MqttTypeOK' /\ Others(p)
  /\ wire'[p, r] = wire[p, r] \o s /\ wire'[p, o] = wire[p, o]
  /\ link'[p, r] = state /\ link'[p, o] = link[p, o]
  /\ UNCHANGED <<online, session>>

LEMMA SaysSo ==
  ASSUME MqttTypeOK, NEW p \in Proc, NEW r \in Role, NEW s \in Seq(Packet), NEW state \in Link,
         Send(p, r, s), link' = [link EXCEPT ![<<p, r>>] = state],
         UNCHANGED <<online, session>>,
         op' \in [Proc -> {"none", "ask", "write"}], sent' \in [Proc -> BOOLEAN],
         done' \in [Proc -> BOOLEAN], parting' \in [Proc -> {"no", "unsaid", "said"}],
         \A q \in Proc \ {p} : op'[q] = op[q] /\ parting'[q] = parting[q]
  PROVE  Spoken(p, r, s, state)
<1>1. /\ wire' \in [Proc \X Role -> Seq(Packet)]
      /\ wire'[p, r] = wire[p, r] \o s
      /\ wire'[p, Other(r)] = wire[p, Other(r)]
      /\ \A q \in Proc \ {p}, t \in Role : wire'[q, t] = wire[q, t]
  BY SendTo
<1>2. /\ link' \in [Proc \X Role -> Link]
      /\ link'[p, r] = state /\ link'[p, Other(r)] = link[p, Other(r)]
      /\ \A q \in Proc \ {p}, t \in Role : link'[q, t] = link[q, t]
  BY OtherOf DEF MqttTypeOK
<1>3. MqttTypeOK'
  BY <1>1, <1>2 DEF MqttTypeOK
<1>4. Others(p)
  <2>1. session' = session
    OBVIOUS
  <2>2. ASSUME NEW q \in Proc \ {p} PROVE
          /\ \A t \in Role : wire'[q, t] = wire[q, t] /\ link'[q, t] = link[q, t]
          /\ session'[q] = session[q] /\ op'[q] = op[q] /\ parting'[q] = parting[q]
    <3>1. \A t \in Role : wire'[q, t] = wire[q, t]
      BY <1>1
    <3>2. \A t \in Role : link'[q, t] = link[q, t]
      BY <1>2
    <3>3. op'[q] = op[q] /\ parting'[q] = parting[q]
      OBVIOUS
    <3>4. QED
      BY <2>1, <3>1, <3>2, <3>3
  <2>3. QED
    BY <2>2 DEF Others
<1>5. QED
  BY <1>1, <1>2, <1>3, <1>4 DEF Spoken

LEMMA Packets ==
  /\ <<>> \in Seq(Packet)
  /\ \A x \in Packet : <<x>> \in Seq(Packet)
  /\ \A x, y \in Packet : <<x, y>> \in Seq(Packet)
OBVIOUS

LEMMA OnReconnect ==
  ASSUME MqttTypeOK, NEW p \in Proc, NEW r \in Role, Reconnect(p, r)
  PROVE  /\ Spoken(p, r, <<"connect">>, "sent")
         /\ link[p, r] = "retry" /\ (r = "presence" => parting[p] # "said")
         /\ op' = op /\ parting' = parting
<1>1. <<"connect">> \in Seq(Packet) /\ "sent" \in Link
  BY Packets DEF Packet, Link
<1>2. QED
  BY <1>1, SaysSo DEF Reconnect, MqttTypeOK

LEMMA OnConnack ==
  ASSUME MqttTypeOK, NEW p \in Proc, NEW r \in Role, Connack(p, r)
  PROVE  /\ Spoken(p, r, IF r = "presence" THEN OnConnect(p) ELSE Resend(p), "open")
         /\ link[p, r] = "sent" /\ session[p] = r /\ ~Connecting(p, r)
         /\ op' = op /\ parting' = parting
<1> DEFINE s == IF r = "presence" THEN OnConnect(p) ELSE Resend(p)
<1>1. OnConnect(p) \in Seq(Packet) /\ Resend(p) \in Seq(Packet) /\ "open" \in Link
  <2>1. "true" \in Packet /\ "false" \in Packet /\ "write" \in Packet
    BY DEF Packet
  <2>2. <<"true">> \in Seq(Packet) /\ <<"false">> \in Seq(Packet) /\ <<"write">> \in Seq(Packet)
        /\ <<>> \in Seq(Packet)
    BY <2>1, Packets
  <2>3. ResendOffline(p) \in Seq(Packet) /\ Resend(p) \in Seq(Packet)
    BY <2>2 DEF ResendOffline, Resend
  <2>4. QED
    BY <2>2, <2>3, ConcatProperties DEF OnConnect, Link
<1>2. s \in Seq(Packet)
  BY <1>1
<1>3. Connack(p, r) => Send(p, r, s) /\ link' = [link EXCEPT ![<<p, r>>] = "open"]
  BY DEF Connack
<1> HIDE DEF s
<1>4. Spoken(p, r, s, "open")
  BY <1>1, <1>2, <1>3, SaysSo DEF Connack, MqttTypeOK
<1>5. QED
  BY <1>4 DEF Connack, s

LEMMA OnLinkLoss ==
  ASSUME MqttTypeOK, NEW p \in Proc, NEW r \in Role, LinkLoss(p, r)
  PROVE  LET o == Other(r) IN
         /\ MqttTypeOK' /\ Others(p)
         /\ Connected(p, r)
         /\ wire'[p, r] = <<>> /\ wire'[p, o] = wire[p, o]
         /\ link'[p, r] = "retry" /\ link'[p, o] = link[p, o]
         /\ UNCHANGED <<online, session, op, parting>>
<1>1. "retry" \in Link /\ <<>> \in Seq(Packet)
  BY Packets DEF Link
<1>2. QED
  BY <1>1, OtherOf DEF MqttTypeOK, Others, LinkLoss

LEMMA OnStartPresence ==
  ASSUME MqttTypeOK, NEW p \in Proc, StartPresence(p)
  PROVE  /\ MqttTypeOK' /\ Others(p)
         /\ link'[p, "presence"] = "retry" /\ link'[p, "selector"] = link[p, "selector"]
         /\ UNCHANGED <<online, session, wire, op, parting>>
BY DEF MqttTypeOK, Others, StartPresence, Link, Role

LEMMA OnPublishOffline ==
  ASSUME MqttTypeOK, NEW p \in Proc, PublishOffline(p)
  PROVE  /\ Spoken(p, "presence", IF Connected(p, "presence") THEN <<"false">> ELSE <<>>,
                   link[p, "presence"])
         /\ parting'[p] = "unsaid" /\ op' = op
<1> DEFINE s == IF Connected(p, "presence") THEN <<"false">> ELSE <<>>
<1>1. s \in Seq(Packet)
  BY Packets DEF Packet
<1>2. "presence" \in Role /\ link[p, "presence"] \in Link
  BY DEF Role, MqttTypeOK
<1>3. link' = [link EXCEPT ![<<p, "presence">>] = link[p, "presence"]]
  BY <1>2 DEF PublishOffline, MqttTypeOK
<1>4. Send(p, "presence", s)
  BY DEF PublishOffline
<1> HIDE DEF s
<1>5. Spoken(p, "presence", s, link[p, "presence"])
  BY <1>1, <1>2, <1>3, <1>4, SaysSo DEF PublishOffline, MqttTypeOK
<1>6. QED
  BY <1>5 DEF PublishOffline, MqttTypeOK, s

LEMMA GoodbyeType == \A p, r : Goodbye(p, r) \in Seq(Packet)
  BY Packets DEF Goodbye, Packet

LEMMA OnDisconnect ==
  ASSUME MqttTypeOK, NEW p \in Proc, Disconnect(p)
  PROVE  /\ Spoken(p, "presence", Goodbye(p, "presence"), "closed")
         /\ wire[p, "presence"] = <<>> /\ link[p, "presence"] # "sent"
         /\ parting'[p] = "no" /\ op' = op
<1>1. "presence" \in Role /\ "closed" \in Link
  BY DEF Role, Link
<1>2. QED
  BY <1>1, GoodbyeType, SaysSo DEF Disconnect, MqttTypeOK

LEMMA OnOpenSelector ==
  ASSUME MqttTypeOK, NEW p \in Proc, NEW kind \in {"ask", "write"}, OpenSelector(p, kind)
  PROVE  /\ Spoken(p, "selector", <<"connect">>, "sent")
         /\ op'[p] = kind /\ parting' = parting
<1>1. "selector" \in Role /\ "sent" \in Link /\ <<"connect">> \in Seq(Packet)
  BY Packets DEF Role, Link, Packet
<1>2. QED
  BY <1>1, SaysSo DEF OpenSelector, MqttTypeOK

LEMMA OnSendOp ==
  ASSUME MqttTypeOK, NEW p \in Proc, SendOp(p)
  PROVE  /\ Spoken(p, "selector", <<op[p]>>, link[p, "selector"])
         /\ op[p] \in {"ask", "write"} /\ Connected(p, "selector")
         /\ op' = op /\ parting' = parting
<1>1. "selector" \in Role /\ link[p, "selector"] \in Link /\ op[p] \in {"ask", "write"}
  BY DEF Role, MqttTypeOK, SendOp
<1>2. <<op[p]>> \in Seq(Packet)
  BY <1>1, Packets DEF Packet
<1>3. link' = [link EXCEPT ![<<p, "selector">>] = link[p, "selector"]]
  BY <1>1 DEF SendOp, MqttTypeOK
<1>4. QED
  BY <1>1, <1>2, <1>3, SaysSo DEF SendOp, MqttTypeOK

LEMMA OnCloseSelector ==
  ASSUME MqttTypeOK, NEW p \in Proc, CloseSelector(p)
  PROVE  /\ Spoken(p, "selector", Goodbye(p, "selector"), "closed")
         /\ op'[p] = "none" /\ parting' = parting
<1>1. "selector" \in Role /\ "closed" \in Link
  BY DEF Role, Link
<1>2. QED
  BY <1>1, GoodbyeType, SaysSo DEF CloseSelector, MqttTypeOK
=============================================================================
