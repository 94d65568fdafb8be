--------------------------- MODULE PresenceProofs ---------------------------
(*****************************************************************************)
(* Proofs about Controller and the broker: what `online` is when everyone is *)
(* gone, for any number of processes, settings and faults.                   *)
(*****************************************************************************)
EXTENDS ControllerProofs, MqttProofs

(* The inductive invariant. *)

\* The wire w of client r, whose link is l, when the broker keeps the session for
\* s: one connection after another, and nothing to a broker that does not know it.
Fit(w, l, s, r) ==
  /\ Polite(w)
  /\ w # <<>> /\ Head(w) # "connect" => s = r
  /\ l \in {"sent", "open"} =>
       /\ w # <<>> => Last(w) # "disconnect"
       /\ Contains(w, "connect") \/ s = r

Fits(p) == \A r \in Role : Fit(wire[p, r], link[p, r], session[p], r)

(* All the presence ever has under way, unless a stop() raced with a CONNECT. *)
Quiet == <<>>
Hello == <<"connect">>
Yes == <<"true">>
No == <<"false">>
YesNo == <<"true", "false">>
Bye == <<"disconnect">>
Shapes == {Quiet, Hello, Yes, No, YesNo, Bye}

\* What the presence has said and the broker has not heard.
Words(p) ==
  LET w == wire[p, "presence"]
      l == link[p, "presence"]
  IN /\ w \in Shapes
     /\ l = "retry" => w = Quiet
     /\ l = "sent" => w \in {Quiet, Hello} /\ (pc[p] = "drain" => parting[p] = "unsaid")
     /\ l = "open" => w \in IF pc[p] = "drain" THEN {Quiet, YesNo, No} ELSE {Quiet, Yes}
     /\ parting[p] \in IF pc[p] = "drain" THEN {"unsaid", "said"} ELSE {"no"}

\* Where main() has no presence to speak with, there is none.
Stage(p) ==
  /\ pc[p] \in {"none", "mask", "presence", "exit"} \/ ~HasPresence(run[p]) \/ run[p].replicate_now
       => link[p, "presence"] = "closed"
  /\ pc[p] \in {"mask", "presence"} => wire[p, "presence"] = Quiet
  /\ pc[p] # "none" /\ ~HasPresence(run[p]) => wire[p, "presence"] = Quiet
  /\ pc[p] = "presence" => ~run[p].replicate_now

\* What the selector says; a rehearsal has nothing to write.
Silent(p) ==
  /\ Says(wire[p, "selector"], {"connect", "ask", "write", "disconnect"})
  /\ op[p] = "ask" => pc[p] = "ask"
  /\ op[p] = "write" => pc[p] \in {"clear", "publish"}
  /\ pc[p] # "none" /\ ~SelectorsWrite(run[p]) =>
       /\ Says(wire[p, "selector"], {"connect", "ask", "disconnect"})
       /\ pc[p] \notin {"clear", "publish"}

\* The broker holds a session whose end, by the last word or by the will, is
\* still to make online false.
Claims(p) ==
  /\ session[p] = "presence"
  /\ wire[p, "presence"] # Bye
  /\ ~(pc[p] = "drain" /\ link[p, "presence"] = "open" /\ wire[p, "presence"] = Quiet)

Vouched ==
  /\ MqttTypeOK /\ ProcessTypeOK
  /\ \A p \in Proc : Fits(p) /\ Stage(p) /\ Silent(p)
  /\ raced \/ \A p \in Proc : Words(p)
  /\ raced \/ (online = "true" => \E p \in Proc : Claims(p))

\* What a step of p has to show.
Good(p) ==
  /\ Fits(p)' /\ Stage(p)' /\ Silent(p)'
  /\ ~raced' => /\ Words(p)'
                /\ online' = "true" => Claims(p)' \/ (online = "true" /\ ~Claims(p))

LEMMA VouchedOne ==
  ASSUME Vouched, NEW p \in Proc, MqttTypeOK', ProcessTypeOK', Others(p),
         \A q \in Proc \ {p} : pc'[q] = pc[q] /\ run'[q] = run[q],
         raced => raced', Good(p)
  PROVE  Vouched'
<1>1. ASSUME NEW q \in Proc, q # p
      PROVE  /\ \A r \in Role : wire'[q, r] = wire[q, r] /\ link'[q, r] = link[q, r]
             /\ wire'[q, "presence"] = wire[q, "presence"] /\ wire'[q, "selector"] = wire[q, "selector"]
             /\ link'[q, "presence"] = link[q, "presence"] /\ link'[q, "selector"] = link[q, "selector"]
             /\ session'[q] = session[q] /\ op'[q] = op[q] /\ parting'[q] = parting[q]
             /\ pc'[q] = pc[q] /\ run'[q] = run[q]
  BY <1>1 DEF Others, Role
<1>2. ASSUME NEW q \in Proc, q # p
      PROVE  /\ Fits(q)' /\ Stage(q)' /\ Silent(q)'
             /\ Words(q) => Words(q)'
             /\ Claims(q) => Claims(q)'
  <2>1. Fits(q) /\ Stage(q) /\ Silent(q)
    BY DEF Vouched
  <2>2. Stage(q)'
    BY <1>1, <1>2, <2>1 DEF Stage
  <2>3. Fits(q)'
    BY <1>1, <1>2, <2>1 DEF Fits
  <2>4. Silent(q)'
    BY <1>1, <1>2, <2>1 DEF Silent
  <2>5. Words(q) => Words(q)'
    BY <1>1, <1>2 DEF Words
  <2>6. Claims(q) => Claims(q)'
    BY <1>1, <1>2 DEF Claims
  <2>7. QED
    BY <2>2, <2>3, <2>4, <2>5, <2>6
<1>3. \A q \in Proc : Fits(q)' /\ Stage(q)' /\ Silent(q)'
  BY <1>2 DEF Good
<1>4. raced' \/ \A q \in Proc : Words(q)'
  BY <1>2 DEF Good, Vouched
<1>5. raced' \/ (online' = "true" => \E q \in Proc : Claims(q)')
  BY <1>2 DEF Good, Vouched
<1>6. QED
  BY <1>3, <1>4, <1>5 DEF Vouched

LEMMA ShapesDiffer ==
  /\ Quiet \notin {Hello, Yes, No, YesNo, Bye} /\ Hello \notin {Yes, No, YesNo, Bye}
  /\ Yes \notin {No, YesNo, Bye} /\ No \notin {YesNo, Bye} /\ YesNo # Bye
<1>1. Len(Quiet) = 0 /\ Len(Hello) = 1 /\ Len(Yes) = 1 /\ Len(No) = 1 /\ Len(Bye) = 1 /\ Len(YesNo) = 2
  BY DEF Quiet, Hello, Yes, No, YesNo, Bye
<1>2. Hello[1] = "connect" /\ Yes[1] = "true" /\ No[1] = "false" /\ Bye[1] = "disconnect"
  BY DEF Hello, Yes, No, Bye
<1>3. Quiet \notin {Hello, Yes, No, YesNo, Bye} /\ YesNo \notin {Hello, Yes, No, Bye}
  BY <1>1
<1>4. Hello \notin {Yes, No, Bye} /\ Yes \notin {No, Bye} /\ No # Bye
  BY <1>2
<1>5. QED
  BY <1>3, <1>4

LEMMA ShapesBegin ==
  /\ Head(Hello) = "connect" /\ Tail(Hello) = Quiet
  /\ Head(Yes) = "true" /\ Tail(Yes) = Quiet
  /\ Head(No) = "false" /\ Tail(No) = Quiet
  /\ Head(YesNo) = "true" /\ Tail(YesNo) = No
  /\ Head(Bye) = "disconnect" /\ Tail(Bye) = Quiet
BY DEF Quiet, Hello, Yes, No, YesNo, Bye

LEMMA ShapesGoOn ==
  /\ Quiet \o Hello = Hello /\ Quiet \o Yes = Yes /\ Quiet \o No = No /\ Quiet \o Bye = Bye
  /\ Yes \o No = YesNo
  /\ \A w \in Shapes : w \in Seq(Packet) /\ w \o Quiet = w
<1>1. Quiet \o Hello = Hello /\ Quiet \o Yes = Yes /\ Quiet \o No = No /\ Quiet \o Bye = Bye
  BY DEF Quiet, Hello, Yes, No, Bye
<1>2. Yes \o No = YesNo
  <2>1. Yes \in Seq(Packet) /\ No \in Seq(Packet) /\ YesNo \in Seq(Packet)
    BY Packets DEF Packet, Yes, No, YesNo
  <2>2. /\ Len(Yes) = 1 /\ Len(No) = 1 /\ Len(YesNo) = 2
        /\ Yes[1] = YesNo[1] /\ No[1] = YesNo[2]
    BY DEF Yes, No, YesNo
  <2>3. ASSUME NEW u \in Seq(Packet), NEW v \in Seq(Packet), Len(u) = 1, Len(v) = 1
        PROVE  /\ u \o v \in Seq(Packet) /\ Len(u \o v) = 2
               /\ (u \o v)[1] = u[1] /\ (u \o v)[2] = v[1]
    <3>1. /\ u \o v \in Seq(Packet) /\ Len(u \o v) = 1 + 1
          /\ \A i \in 1..(1 + 1) : (u \o v)[i] = IF i <= 1 THEN u[i] ELSE v[i - 1]
      BY <2>3, ConcatProperties
    <3>2. 1 \in 1..(1 + 1) /\ 2 \in 1..(1 + 1) /\ 1 <= 1 /\ ~(2 <= 1) /\ 2 - 1 = 1 /\ 1 + 1 = 2
      OBVIOUS
    <3>3. QED
      BY <3>1, <3>2
  <2>4. /\ Yes \o No \in Seq(Packet) /\ Len(Yes \o No) = 2
        /\ (Yes \o No)[1] = Yes[1] /\ (Yes \o No)[2] = No[1]
    BY <2>1, <2>2, <2>3
  <2>5. \A i \in 1..2 : (Yes \o No)[i] = YesNo[i]
    <3>1. \A i \in 1..2 : i = 1 \/ i = 2
      OBVIOUS
    <3>2. QED
      BY <2>2, <2>4, <3>1
  <2>6. QED
    BY <2>1, <2>2, <2>4, <2>5, SeqEqual
<1>3. \A w \in Shapes : w \in Seq(Packet)
  BY Packets DEF Shapes, Packet, Quiet, Hello, Yes, No, YesNo, Bye
<1>4. \A w \in Shapes : w \o Quiet = w
  BY <1>3, ConcatEmptySeq DEF Quiet
<1>5. QED
  BY <1>1, <1>2, <1>3, <1>4

LEMMA ShapesHold ==
  /\ \A w \in Shapes : Contains(w, "connect") <=> w = Hello
  /\ ~Contains(Quiet, "false")
  /\ \A w \in Shapes : Later(w) = IF w = Hello THEN Hello ELSE Quiet
<1>1. \A e : ~Contains(Quiet, e)
  BY DEF Contains, Quiet
<1>2. ASSUME NEW w \in {Hello, Yes, No, YesNo, Bye}
      PROVE  \A e : Contains(w, e) <=> Head(w) = e \/ Contains(Tail(w), e)
  BY <1>2, TailOf, ShapesGoOn, ShapesDiffer DEF Shapes, Quiet
<1>3. \A w \in Shapes : Contains(w, "connect") <=> w = Hello
  <2>1. ~Contains(Yes, "connect") /\ ~Contains(No, "connect") /\ ~Contains(Bye, "connect")
        /\ Contains(Hello, "connect")
    BY <1>1, <1>2, ShapesBegin
  <2>2. ~Contains(YesNo, "connect")
    BY <1>2, <2>1, ShapesBegin
  <2>3. QED
    BY <1>1, <2>1, <2>2, ShapesDiffer DEF Shapes
<1>4. Later(Hello) = Hello
  <2>1. Contains(Hello, "connect") /\ Len(Hello) = 1 /\ Hello[1] = "connect" /\ Hello \in Seq(Packet)
    BY <1>3, ShapesGoOn DEF Hello, Shapes
  <2>2. SelectInSeq(Hello, LAMBDA x : x = "connect") = 1
    <3> DEFINE I == {i \in 1..Len(Hello) : Hello[i] = "connect"}
    <3>1. I = {1}
      BY <2>1
    <3>2. Min(I) \in I
      BY <3>1, LeastOf
    <3>3. QED
      BY <3>1, <3>2 DEF SelectInSeq
  <2>3. Later(Hello) = SubSeq(Hello, 1, Len(Hello))
    BY <2>1, <2>2 DEF Later
  <2>4. QED
    BY <2>1, <2>3, SubSeqFull
<1>5. \A w \in Shapes \ {Hello} : Later(w) = Quiet
  BY <1>3 DEF Later, Quiet
<1>6. QED
  BY <1>1, <1>3, <1>4, <1>5

-----------------------------------------------------------------------------
(* A wire stays fit. *)

LEMMA FitEmpty ==
  ASSUME NEW l, NEW s, NEW r, l \notin {"sent", "open"} \/ s = r
  PROVE  Fit(<<>>, l, s, r)
<1>1. Polite(<<>>)
  BY EmptySeq DEF Polite
<1>2. QED
  BY <1>1 DEF Fit

LEMMA FitLink ==
  ASSUME NEW w, NEW l, NEW k, NEW s, NEW r, Fit(w, l, s, r),
         k \in {"sent", "open"} => l \in {"sent", "open"}
  PROVE  Fit(w, k, s, r)
BY DEF Fit

LEMMA FitSession ==
  ASSUME NEW w, NEW l, NEW s, NEW t, NEW r, Fit(w, l, s, r), s = r => t = r
  PROVE  Fit(w, l, t, r)
BY DEF Fit

LEMMA FitSay ==
  ASSUME NEW w \in Seq(Packet), NEW x \in Packet, NEW l, NEW k, NEW s, NEW r, Fit(w, l, s, r),
         \/ x = "connect"
         \/ l \in {"sent", "open"} /\ (k \in {"sent", "open"} => x # "disconnect")
  PROVE  Fit(w \o <<x>>, k, s, r)
<1> DEFINE v == w \o <<x>>
<1>1. /\ v # <<>> /\ Last(v) = x
      /\ Polite(w) /\ (w = <<>> \/ Last(w) # "disconnect" \/ x = "connect") => Polite(v)
      /\ Head(v) = IF w = <<>> THEN x ELSE Head(w)
      /\ Contains(v, "connect") <=> Contains(w, "connect") \/ x = "connect"
  BY AppendOf
<1> HIDE DEF v
<1>2. ~Contains(<<>>, "connect")
  BY DEF Contains
<1>3. Fit(v, k, s, r)
  BY <1>1, <1>2 DEF Fit
<1>4. QED
  BY <1>3 DEF v

LEMMA FitAccepted ==
  ASSUME NEW w \in Seq(Packet), NEW l, NEW s, NEW r, Fit(w, l, s, r), w # <<>>
  PROVE  Fit(Tail(w), l, r, r)
BY TailOf DEF Fit

LEMMA FitHeard ==
  ASSUME NEW w \in Seq(Packet), NEW l, NEW s, NEW t, NEW r, Fit(w, l, s, r),
         w # <<>>, Head(w) # "connect", Head(w) # "disconnect" => t = s
  PROVE  Fit(Tail(w), l, t, r)
BY TailOf DEF Fit

LEMMA FitKicked ==
  ASSUME NEW w \in Seq(Packet), NEW l, NEW k, NEW s, NEW t, NEW r, Fit(w, l, s, r),
         k \in {"sent", "open"} => l \in {"sent", "open"} /\ Contains(w, "connect")
  PROVE  Fit(Later(w), k, t, r)
BY LaterOf DEF Fit

-----------------------------------------------------------------------------
(* The broker. *)

LEMMA Roles == /\ Other("presence") = "selector" /\ Other("selector") = "presence"
               /\ "presence" \in Role /\ "selector" \in Role
BY DEF Role, Other

LEMMA GoodAccept ==
  ASSUME Vouched, NEW p \in Proc, NEW r \in Role, Accept(p, r),
         pc' = pc, run' = run, raced' = raced
  PROVE  MqttTypeOK' /\ Others(p) /\ Good(p)
<1> DEFINE o == Other(r)
           u == wire[p, r]
           v == wire[p, o]
<1>1. TakenOver(p, r, o) /\ o \in Role /\ o # r /\ Role = {r, o}
  BY OnAccept, OtherOf DEF Vouched
<1> HIDE DEF o
<1>2. /\ u \in Seq(Packet) /\ v \in Seq(Packet)
      /\ Fit(u, link[p, r], session[p], r) /\ Fit(v, link[p, o], session[p], o)
      /\ Stage(p) /\ Silent(p)
  BY <1>1 DEF Vouched, MqttTypeOK, Fits
<1>3. /\ u # <<>> /\ Head(u) = "connect"
      /\ session'[p] = r /\ online' = Will(p)
      /\ wire'[p, r] = Tail(u) /\ link'[p, r] = link[p, r]
      /\ op'[p] = op[p] /\ parting'[p] = parting[p]
  BY <1>1 DEF TakenOver
<1>4. /\ session[p] = o => wire'[p, o] = Later(v)
      /\ session[p] # o => wire'[p, o] = v /\ link'[p, o] = link[p, o]
      /\ session[p] = o /\ Connected(p, o) /\ ~Connecting(p, o) => link'[p, o] = "retry"
      /\ ~(session[p] = o /\ Connected(p, o) /\ ~Connecting(p, o)) => link'[p, o] = link[p, o]
  BY <1>1 DEF TakenOver
<1>5. Fits(p)'
  <2>1. Fit(Tail(u), link[p, r], r, r)
    BY <1>2, <1>3, FitAccepted
  <2>2. CASE session[p] = o
    <3>1. link'[p, o] \in {"sent", "open"} =>
            link[p, o] \in {"sent", "open"} /\ Contains(v, "connect")
      BY <1>4, <2>2 DEF Connected, Connecting
    <3>2. Fit(Later(v), link'[p, o], r, o)
      BY <1>2, <3>1, FitKicked
    <3>3. QED
      BY <1>1, <1>3, <1>4, <2>1, <2>2, <3>2 DEF Fits
  <2>3. CASE session[p] # o
    <3>1. Fit(v, link[p, o], r, o)
      BY <1>1, <1>2, <2>3, FitSession
    <3>2. QED
      BY <1>1, <1>3, <1>4, <2>1, <2>3, <3>1 DEF Fits
  <2>4. QED
    BY <2>2, <2>3
<1>6. Silent(p)'
  <2>1. \A S : Says(wire[p, "selector"], S) => Says(wire'[p, "selector"], S)
    <3>1. CASE r = "selector"
      BY <1>2, <1>3, <3>1, TailOf
    <3>2. CASE o = "selector"
      BY <1>2, <1>4, <3>2, LaterOf
    <3>3. QED
      BY <1>1, <3>1, <3>2 DEF Role
  <2>2. QED
    BY <1>2, <1>3, <2>1 DEF Silent
<1>7. Stage(p)'
  <2>1. link[p, "presence"] = "closed" => link'[p, "presence"] = "closed"
    <3>1. CASE r = "presence"
      BY <1>3, <3>1
    <3>2. CASE o = "presence"
      BY <1>4, <3>2 DEF Connected
    <3>3. QED
      BY <1>1, <3>1, <3>2 DEF Role
  <2>2. wire[p, "presence"] = Quiet => wire'[p, "presence"] = Quiet
    <3>1. CASE r = "presence"
      BY <1>3, <3>1 DEF Quiet
    <3>2. CASE o = "presence"
      BY <1>2, <1>4, <3>2, LaterOf DEF Quiet
    <3>3. QED
      BY <1>1, <3>1, <3>2 DEF Role
  <2>3. QED
    BY <1>2, <2>1, <2>2 DEF Stage
<1>8. ASSUME ~raced
      PROVE  /\ Words(p)'
             /\ online' = "true" => Claims(p)' \/ (online = "true" /\ ~Claims(p))
  <2>1. Words(p)
    BY <1>8 DEF Vouched
  <2>2. CASE r = "presence"
    <3>1. u = Hello /\ Tail(u) = Quiet
      BY <1>3, <2>1, <2>2, ShapesBegin DEF Words, Shapes, Quiet
    <3>2. link[p, "presence"] \notin {"retry", "open"}
      BY <2>1, <2>2, <3>1, ShapesDiffer DEF Words
    <3>3. QED
      BY <1>3, <2>1, <2>2, <3>1, <3>2, ShapesDiffer DEF Words, Claims, Shapes
  <2>3. CASE o = "presence"
    <3>1. v \in Shapes /\ Later(v) = (IF v = Hello THEN Hello ELSE Quiet)
          /\ (Connecting(p, o) <=> v = Hello)
      BY <2>1, <2>3, ShapesHold DEF Words, Connecting
    <3>2. ~Claims(p)'
      BY <1>1, <1>3, <2>3 DEF Claims
    <3>3. CASE session[p] = o
      <4>1. wire'[p, o] = (IF v = Hello THEN Hello ELSE Quiet) /\ online' = "false"
        BY <1>3, <1>4, <2>3, <3>1, <3>3 DEF Will, WithWill
      <4>2. CASE v = Hello
        BY <1>3, <1>4, <2>1, <2>3, <3>1, <4>1, <4>2 DEF Words
      <4>3. CASE v # Hello
        <5>1. link'[p, o] \notin {"sent", "open"}
          BY <1>4, <3>1, <3>3, <4>3 DEF Connected
        <5>2. QED
          BY <1>3, <2>1, <2>3, <4>1, <4>3, <5>1 DEF Words, Shapes
      <4>4. QED
        BY <4>2, <4>3
    <3>4. CASE session[p] # o
      <4>1. online' = online /\ ~Claims(p)
        BY <1>3, <2>3, <3>4 DEF Will, WithWill, Claims
      <4>2. QED
        BY <1>3, <1>4, <2>1, <2>3, <3>4, <4>1 DEF Words
    <3>5. QED
      BY <3>3, <3>4
  <2>4. QED
    BY <1>1, <2>2, <2>3 DEF Role
<1>9. QED
  BY <1>1, <1>5, <1>6, <1>7, <1>8 DEF Good, TakenOver

LEMMA GoodHandle ==
  ASSUME Vouched, NEW p \in Proc, NEW r \in Role, Handle(p, r),
         pc' = pc, run' = run, raced' = raced
  PROVE  MqttTypeOK' /\ Others(p) /\ Good(p)
<1> DEFINE o == Other(r)
           u == wire[p, r]
           packet == Head(u)
<1>0. MqttTypeOK /\ o \in Role /\ o # r /\ Role = {r, o}
  BY OtherOf DEF Vouched
<1>1. /\ MqttTypeOK' /\ Others(p)
      /\ u # <<>> /\ packet # "connect"
      /\ online' = IF packet \in {"true", "false"} THEN packet ELSE online
      /\ session'[p] = IF packet = "disconnect" THEN "none" ELSE session[p]
      /\ wire'[p, r] = Tail(u) /\ wire'[p, o] = wire[p, o]
      /\ link' = link /\ op' = op
      /\ parting'[p] = IF packet = "false" /\ parting[p] = "unsaid" THEN "said" ELSE parting[p]
  BY <1>0, OnHandle
<1> HIDE DEF o
<1>2. /\ u \in Seq(Packet)
      /\ Fit(u, link[p, r], session[p], r) /\ Fit(wire[p, o], link[p, o], session[p], o)
      /\ Stage(p) /\ Silent(p)
  BY <1>0 DEF Vouched, MqttTypeOK, Fits
<1>3. session[p] = r
  BY <1>1, <1>2 DEF Fit
<1>4. Fits(p)'
  <2>1. Fit(Tail(u), link[p, r], session'[p], r)
    BY <1>1, <1>2, FitHeard
  <2>2. Fit(wire[p, o], link[p, o], session'[p], o)
    BY <1>0, <1>2, <1>3, FitSession
  <2>3. QED
    BY <1>0, <1>1, <2>1, <2>2 DEF Fits
<1>5. Silent(p)'
  <2>1. \A S : Says(wire[p, "selector"], S) => Says(wire'[p, "selector"], S)
    <3>1. CASE r = "selector"
      BY <1>1, <1>2, <3>1, TailOf
    <3>2. CASE o = "selector"
      BY <1>1, <3>2
    <3>3. QED
      BY <1>0, <3>1, <3>2 DEF Role
  <2>2. QED
    BY <1>1, <1>2, <2>1 DEF Silent
<1>6. Stage(p)'
  <2>1. wire[p, "presence"] = Quiet => wire'[p, "presence"] = Quiet
    BY <1>0, <1>1 DEF Quiet, Role
  <2>2. QED
    BY <1>1, <1>2, <2>1 DEF Stage
<1>7. ASSUME ~raced
      PROVE  /\ Words(p)'
             /\ online' = "true" => Claims(p)' \/ (online = "true" /\ ~Claims(p))
  <2>1. Words(p)
    BY <1>7 DEF Vouched
  <2>2. CASE r = "presence"
    <3>1. u \in {Yes, No, YesNo, Bye}
      BY <1>1, <2>1, <2>2, ShapesBegin DEF Words, Shapes, Quiet
    <3>2. CASE u = Yes
      BY <1>1, <1>3, <2>1, <2>2, <3>2, ShapesBegin, ShapesDiffer DEF Words, Claims, Shapes
    <3>3. CASE u = No
      BY <1>1, <1>3, <2>1, <2>2, <3>3, ShapesBegin, ShapesDiffer DEF Words, Claims, Shapes
    <3>4. CASE u = YesNo
      BY <1>1, <1>3, <2>1, <2>2, <3>4, ShapesBegin, ShapesDiffer DEF Words, Claims, Shapes
    <3>5. CASE u = Bye
      BY <1>1, <1>3, <2>1, <2>2, <3>5, ShapesBegin, ShapesDiffer DEF Words, Claims, Shapes
    <3>6. QED
      BY <3>1, <3>2, <3>3, <3>4, <3>5
  <2>3. CASE r = "selector"
    <3>1. packet \in {"ask", "write", "disconnect"}
      BY <1>1, <1>2, <2>3, TailOf DEF Silent
    <3>2. ~Claims(p) /\ online' = online /\ parting'[p] = parting[p]
      BY <1>1, <1>3, <2>3, <3>1 DEF Claims
    <3>3. wire'[p, "presence"] = wire[p, "presence"]
      BY <1>0, <1>1, <2>3 DEF Role
    <3>4. Words(p)'
      BY <1>1, <2>1, <3>2, <3>3 DEF Words
    <3>5. QED
      BY <3>2, <3>4
  <2>4. QED
    BY <2>2, <2>3 DEF Role
<1>8. QED
  BY <1>1, <1>4, <1>5, <1>6, <1>7 DEF Good

LEMMA GoodExpire ==
  ASSUME Vouched, NEW p \in Proc, Expire(p),
         pc' = pc, run' = run, raced' = raced
  PROVE  MqttTypeOK' /\ Others(p) /\ Good(p)
<1>1. /\ MqttTypeOK' /\ Others(p)
      /\ session[p] \in Role
      /\ ~Connected(p, session[p]) /\ wire[p, session[p]] = <<>>
      /\ online' = Will(p)
      /\ session'[p] = "none"
      /\ UNCHANGED <<link, wire, op, parting>>
  BY OnExpire DEF Vouched
<1>2. Fits(p) /\ Stage(p) /\ Silent(p)
  BY DEF Vouched
<1>3. Fits(p)'
  <2> SUFFICES ASSUME NEW r \in Role PROVE Fit(wire[p, r], link[p, r], "none", r)
    BY <1>1 DEF Fits
  <2>1. CASE r = session[p]
    BY <1>1, <2>1, FitEmpty DEF Connected
  <2>2. CASE r # session[p]
    BY <1>2, <2>2, FitSession DEF Fits
  <2>3. QED
    BY <2>1, <2>2
<1>4. Stage(p)' /\ Silent(p)'
  BY <1>1, <1>2 DEF Stage, Silent
<1>5. ASSUME ~raced
      PROVE  /\ Words(p)'
             /\ online' = "true" => Claims(p)' \/ (online = "true" /\ ~Claims(p))
  BY <1>1, <1>5 DEF Vouched, Words, Will, WithWill, Claims
<1>6. QED
  BY <1>1, <1>3, <1>4, <1>5 DEF Good

-----------------------------------------------------------------------------
(* The clients. *)

LEMMA GoodLinkLoss ==
  ASSUME Vouched, NEW p \in Proc, NEW r \in Role, LinkLoss(p, r),
         pc' = pc, run' = run, raced' = raced
  PROVE  MqttTypeOK' /\ Others(p) /\ Good(p)
<1> DEFINE o == Other(r)
<1>0. MqttTypeOK /\ o \in Role /\ o # r /\ Role = {r, o}
  BY OtherOf DEF Vouched
<1>1. /\ MqttTypeOK' /\ Others(p)
      /\ Connected(p, r)
      /\ wire'[p, r] = <<>> /\ wire'[p, o] = wire[p, o]
      /\ link'[p, r] = "retry" /\ link'[p, o] = link[p, o]
      /\ UNCHANGED <<online, session, op, parting>>
  BY <1>0, OnLinkLoss
<1> HIDE DEF o
<1>2. Fits(p) /\ Stage(p) /\ Silent(p)
  BY DEF Vouched
<1>3. Fits(p)'
  <2>1. Fit(<<>>, "retry", session[p], r)
    BY FitEmpty
  <2>2. QED
    BY <1>0, <1>1, <1>2, <2>1 DEF Fits
<1>4. Silent(p)'
  <2>1. wire'[p, "selector"] = <<>> \/ wire'[p, "selector"] = wire[p, "selector"]
    BY <1>0, <1>1 DEF Role
  <2>2. QED
    BY <1>1, <1>2, <2>1, NothingSaid DEF Silent
<1>5. Stage(p)'
  <2>1. CASE r = "presence"
    BY <1>1, <1>2, <2>1 DEF Stage, Connected, Quiet
  <2>2. CASE o = "presence"
    BY <1>1, <1>2, <2>2 DEF Stage
  <2>3. QED
    BY <1>0, <2>1, <2>2 DEF Role
<1>6. ASSUME ~raced
      PROVE  /\ Words(p)'
             /\ online' = "true" => Claims(p)' \/ (online = "true" /\ ~Claims(p))
  <2>1. Words(p)
    BY <1>6 DEF Vouched
  <2>2. CASE r = "presence"
    <3>1. wire'[p, "presence"] = Quiet /\ link'[p, "presence"] = "retry"
      BY <1>1, <2>2 DEF Quiet
    <3>2. QED
      BY <1>1, <2>1, <3>1, ShapesDiffer DEF Words, Claims, Shapes
  <2>3. CASE o = "presence"
    BY <1>1, <2>1, <2>3 DEF Words, Claims
  <2>4. QED
    BY <1>0, <2>2, <2>3 DEF Role
<1>7. QED
  BY <1>1, <1>3, <1>4, <1>5, <1>6 DEF Good

LEMMA SpokenFits ==
  ASSUME Vouched, NEW p \in Proc, NEW r \in Role, NEW s, NEW state, Spoken(p, r, s, state),
         Fit(wire[p, r] \o s, state, session[p], r)
  PROVE  Fits(p)'
BY OtherOf DEF Vouched, Fits, Spoken

\* What the selector says concerns nobody else.
LEMMA SpokenSelector ==
  ASSUME Vouched, NEW p \in Proc, NEW x \in {"connect", "ask", "write", "disconnect"}, NEW s,
         NEW state, s = <<x>> \/ s = <<>>, Spoken(p, "selector", s, state), parting' = parting,
         Fit(wire[p, "selector"] \o s, state, session[p], "selector"),
         x = "write" => SelectorsWrite(run[p]) \/ s = <<>>
  PROVE  /\ MqttTypeOK' /\ Others(p) /\ Fits(p)'
         /\ pc[p] # "none" =>
              \A S \in {{"connect", "ask", "write", "disconnect"}, {"connect", "ask", "disconnect"}} :
                S = {"connect", "ask", "write", "disconnect"} \/ ~SelectorsWrite(run[p])
                  => Says(wire'[p, "selector"], S)
         /\ Says(wire'[p, "selector"], {"connect", "ask", "write", "disconnect"})
         /\ wire'[p, "presence"] = wire[p, "presence"] /\ link'[p, "presence"] = link[p, "presence"]
         /\ session' = session /\ online' = online /\ parting' = parting
<1>1. /\ MqttTypeOK' /\ Others(p)
      /\ wire'[p, "selector"] = wire[p, "selector"] \o s
      /\ wire'[p, "presence"] = wire[p, "presence"] /\ link'[p, "presence"] = link[p, "presence"]
      /\ session' = session /\ online' = online
  BY Roles DEF Spoken
<1>2. Fits(p)'
  BY SpokenFits, Roles
<1>3. wire[p, "selector"] \in Seq(Packet) /\ x \in Packet
  BY Roles DEF Vouched, MqttTypeOK, Packet
<1>4. \A S : Says(wire[p, "selector"], S) /\ x \in S => Says(wire[p, "selector"] \o <<x>>, S)
  BY <1>3, AppendOf
<1>5. wire[p, "selector"] \o <<>> = wire[p, "selector"]
  BY <1>3, ConcatEmptySeq
<1>6. Silent(p)
  BY DEF Vouched
<1>7. Says(wire'[p, "selector"], {"connect", "ask", "write", "disconnect"})
  BY <1>1, <1>4, <1>5, <1>6 DEF Silent
<1>8. pc[p] # "none" /\ ~SelectorsWrite(run[p])
        => Says(wire'[p, "selector"], {"connect", "ask", "disconnect"})
  BY <1>1, <1>4, <1>5, <1>6 DEF Silent
<1>9. QED
  BY <1>1, <1>2, <1>7, <1>8

\* Where a step of the selector leads.
LEMMA GoodSelector ==
  ASSUME Vouched, NEW p \in Proc, NEW x \in {"connect", "ask", "write", "disconnect"}, NEW s,
         NEW state, s = <<x>> \/ s = <<>>, Spoken(p, "selector", s, state), parting' = parting,
         Fit(wire[p, "selector"] \o s, state, session[p], "selector"),
         x = "write" => SelectorsWrite(run[p]) \/ s = <<>>,
         pc[p] # "none", run' = run, raced' = raced, Stage(p)',
         (pc[p] # "drain" /\ pc'[p] # "drain") \/ pc'[p] = pc[p],
         op'[p] = "ask" => pc'[p] = "ask",
         op'[p] = "write" => pc'[p] \in {"clear", "publish"},
         ~SelectorsWrite(run[p]) => pc'[p] \notin {"clear", "publish"}
  PROVE  MqttTypeOK' /\ Others(p) /\ Good(p)
<1>1. /\ MqttTypeOK' /\ Others(p) /\ Fits(p)'
      /\ Says(wire'[p, "selector"], {"connect", "ask", "write", "disconnect"})
      /\ ~SelectorsWrite(run[p]) => Says(wire'[p, "selector"], {"connect", "ask", "disconnect"})
      /\ wire'[p, "presence"] = wire[p, "presence"] /\ link'[p, "presence"] = link[p, "presence"]
      /\ session' = session /\ online' = online
  BY SpokenSelector
<1>2. Silent(p)'
  BY <1>1 DEF Silent
<1>3. (Words(p)' <=> Words(p)) /\ (Claims(p)' <=> Claims(p))
  BY <1>1 DEF Words, Claims
<1>4. QED
  BY <1>1, <1>2, <1>3 DEF Good, Vouched

\* A connection of the presence that is refused, answered or tried again.
LEMMA GoodReconnect ==
  ASSUME Vouched, NEW p \in Proc, NEW r \in Role, Reconnect(p, r),
         pc' = pc, run' = run, raced' = raced
  PROVE  MqttTypeOK' /\ Others(p) /\ Good(p)
<1>1. /\ Spoken(p, r, <<"connect">>, "sent")
      /\ link[p, r] = "retry" /\ (r = "presence" => parting[p] # "said")
      /\ op' = op /\ parting' = parting
  BY OnReconnect DEF Vouched
<1>2. wire[p, r] \in Seq(Packet) /\ "connect" \in Packet
  BY DEF Vouched, MqttTypeOK, Packet
<1>3. Fits(p) /\ Stage(p) /\ Silent(p) /\ ProcessTypeOK
  BY DEF Vouched
<1>4. Fit(wire[p, r] \o <<"connect">>, "sent", session[p], r)
  <2>1. Fit(wire[p, r], link[p, r], session[p], r)
    BY <1>3 DEF Fits
  <2>2. QED
    BY <1>2, <2>1, FitSay
<1>5. CASE r = "selector"
  <2>1. Silent(p)'
    <3>1. \A S : Says(wire[p, r], S) /\ "connect" \in S => Says(wire[p, r] \o <<"connect">>, S)
      BY <1>2, AppendOf
    <3>2. wire'[p, r] = wire[p, r] \o <<"connect">>
      BY <1>1 DEF Spoken
    <3>3. Says(wire[p, r], {"connect", "ask", "disconnect"})
            => Says(wire'[p, r], {"connect", "ask", "disconnect"})
      BY <3>1, <3>2
    <3>4. Says(wire[p, r], {"connect", "ask", "write", "disconnect"})
            => Says(wire'[p, r], {"connect", "ask", "write", "disconnect"})
      BY <3>1, <3>2
    <3>5. QED
      BY <1>1, <1>3, <1>5, <3>3, <3>4 DEF Silent
  <2>2. /\ wire'[p, "presence"] = wire[p, "presence"] /\ link'[p, "presence"] = link[p, "presence"]
        /\ session' = session /\ online' = online
    BY <1>1, <1>5, Roles DEF Spoken
  <2>3. Stage(p)'
    BY <1>3, <2>2 DEF Stage
  <2>4. (Words(p)' <=> Words(p)) /\ (Claims(p)' <=> Claims(p))
    BY <1>1, <2>2 DEF Words, Claims
  <2>5. Fits(p)'
    BY <1>1, <1>4, SpokenFits
  <2>6. QED
    BY <1>1, <2>1, <2>2, <2>3, <2>4, <2>5 DEF Good, Vouched, Spoken
<1>6. CASE r = "presence"
  <2>1. /\ MqttTypeOK' /\ Others(p)
        /\ wire'[p, "presence"] = wire[p, "presence"] \o Hello /\ wire'[p, "selector"] = wire[p, "selector"]
        /\ link'[p, "presence"] = "sent"
        /\ session' = session /\ online' = online
    BY <1>1, <1>6, Roles DEF Spoken, Hello
  <2>2. Fits(p)'
    BY <1>1, <1>4, SpokenFits
  <2>3. Silent(p)'
    BY <1>1, <1>3, <2>1 DEF Silent
  <2>4. Stage(p)'
    BY <1>1, <1>3, <1>6 DEF Stage
  <2>5. ASSUME Words(p) PROVE Words(p)' /\ (Claims(p) => Claims(p)')
    <3>1. wire[p, "presence"] = Quiet /\ wire'[p, "presence"] = Hello
      BY <1>1, <1>6, <2>1, <2>5, ShapesGoOn DEF Words
    <3>2. Hello \in Shapes /\ Hello # Bye
      BY ShapesDiffer DEF Shapes
    <3>3. Words(p)'
      BY <1>1, <1>6, <2>1, <2>5, <3>1, <3>2 DEF Words
    <3>4. Claims(p) => Claims(p)'
      BY <2>1, <3>1, <3>2 DEF Claims
    <3>5. QED
      BY <3>3, <3>4
  <2>6. QED
    BY <2>1, <2>2, <2>3, <2>4, <2>5 DEF Good, Vouched
<1>7. QED
  BY <1>5, <1>6 DEF Role

\* CONNACK: the presence says true, and again what stop() said without being heard.
LEMMA GoodConnackPresence ==
  ASSUME Vouched, NEW p \in Proc, Connack(p, "presence"),
         pc' = pc, run' = run, raced' = raced
  PROVE  MqttTypeOK' /\ Others(p) /\ Good(p)
<1> DEFINE w == wire[p, "presence"]
           more == ResendOffline(p)
<1>1. /\ MqttTypeOK' /\ Others(p)
      /\ Spoken(p, "presence", OnConnect(p), "open")
      /\ wire'[p, "presence"] = w \o OnConnect(p) /\ wire'[p, "selector"] = wire[p, "selector"]
      /\ link'[p, "presence"] = "open" /\ online' = online /\ session' = session
      /\ link[p, "presence"] = "sent" /\ session[p] = "presence" /\ ~Contains(w, "connect")
      /\ op' = op /\ parting' = parting
  <2>1. /\ Spoken(p, "presence", OnConnect(p), "open")
        /\ link[p, "presence"] = "sent" /\ session[p] = "presence" /\ ~Connecting(p, "presence")
        /\ op' = op /\ parting' = parting
    BY OnConnack, Roles DEF Vouched
  <2>2. QED
    BY <2>1, Roles DEF Spoken, Connecting
<1>2. Fits(p) /\ Stage(p) /\ Silent(p)
  BY DEF Vouched
<1>3. w \in Seq(Packet) /\ Yes \in Seq(Packet) /\ more \in {Quiet, No} /\ OnConnect(p) = Yes \o more
  BY Roles, ShapesGoOn DEF Vouched, MqttTypeOK, OnConnect, ResendOffline, Shapes, Quiet, Yes, No
<1> HIDE DEF more, w
<1>4. Fit(w \o OnConnect(p), "open", "presence", "presence")
  <2>1. "true" \in Packet /\ "false" \in Packet
    BY DEF Packet
  <2>2. Fit(w, "sent", "presence", "presence")
    BY <1>1, <1>2, Roles DEF Fits, w
  <2>3. Fit(w \o Yes, "open", "presence", "presence") /\ w \o Yes \in Seq(Packet)
    BY <1>3, <2>1, <2>2, FitSay, AppendOf DEF Yes
  <2>4. CASE more = Quiet
    <3>1. Yes \o more = Yes
      BY <2>4, ShapesGoOn DEF Shapes
    <3>2. QED
      BY <1>3, <2>3, <3>1
  <2>5. CASE more = No
    <3>1. No \in Seq(Packet)
      BY ShapesGoOn DEF Shapes
    <3>2. w \o (Yes \o No) = (w \o Yes) \o No
      BY <1>3, <3>1, ConcatAssociative
    <3>3. Fit((w \o Yes) \o No, "open", "presence", "presence")
      BY <2>1, <2>3, FitSay DEF No
    <3>4. QED
      BY <1>3, <2>5, <3>2, <3>3
  <2>6. QED
    BY <1>3, <2>4, <2>5
<1>5. Fits(p)'
  BY <1>1, <1>4, Roles, SpokenFits DEF w
<1>6. Silent(p)' /\ Stage(p)'
  BY <1>1, <1>2 DEF Silent, Stage
<1>7. ASSUME ~raced
      PROVE  Words(p)' /\ (Claims(p) => Claims(p)')
  <2>1. Words(p)
    BY <1>7 DEF Vouched
  <2>2. w = Quiet
    BY <1>1, <2>1, ShapesHold DEF Words, w
  <2>3. more = IF pc[p] = "drain" THEN No ELSE Quiet
    <3>1. parting[p] \in IF pc[p] = "drain" THEN {"unsaid"} ELSE {"no"}
      BY <1>1, <2>1 DEF Words
    <3>2. QED
      BY <2>2, <3>1, ShapesHold DEF more, ResendOffline, w, No, Quiet
  <2>4. wire'[p, "presence"] = IF pc[p] = "drain" THEN YesNo ELSE Yes
    <3>1. Quiet \o Yes = Yes /\ Quiet \o YesNo = YesNo /\ Yes \o Quiet = Yes /\ Yes \o No = YesNo
      <4>1. YesNo \in Seq(Packet)
        BY ShapesGoOn DEF Shapes
      <4>2. QED
        BY <4>1, ShapesGoOn, ConcatEmptySeq DEF Shapes, Quiet
    <3>2. QED
      BY <1>1, <1>3, <2>2, <2>3, <3>1
  <2>5. Yes \in Shapes /\ YesNo \in Shapes /\ Yes \notin {Quiet, Bye} /\ YesNo \notin {Quiet, Bye}
    BY ShapesDiffer DEF Shapes
  <2>6. Words(p)'
    BY <1>1, <2>1, <2>4, <2>5 DEF Words
  <2>7. Claims(p)'
    BY <1>1, <2>4, <2>5 DEF Claims
  <2>8. QED
    BY <2>6, <2>7
<1>8. QED
  BY <1>1, <1>5, <1>6, <1>7 DEF Good

LEMMA GoodConnackSelector ==
  ASSUME Vouched, NEW p \in Proc, Connack(p, "selector"),
         pc' = pc, run' = run, raced' = raced
  PROVE  MqttTypeOK' /\ Others(p) /\ Good(p)
<1>1. /\ Spoken(p, "selector", Resend(p), "open")
      /\ link[p, "selector"] = "sent"
      /\ op' = op /\ parting' = parting
  BY OnConnack, Roles DEF Vouched
<1>2. wire[p, "selector"] \in Seq(Packet) /\ "write" \in Packet
  BY Roles DEF Vouched, MqttTypeOK, Packet
<1>3. Fits(p) /\ Stage(p) /\ Silent(p)
  BY DEF Vouched
<1>4. Fit(wire[p, "selector"], "sent", session[p], "selector")
  BY <1>1, <1>3, Roles DEF Fits
<1>5. /\ wire'[p, "presence"] = wire[p, "presence"] /\ link'[p, "presence"] = link[p, "presence"]
      /\ session' = session /\ online' = online /\ MqttTypeOK' /\ Others(p)
      /\ wire'[p, "selector"] = wire[p, "selector"] \o Resend(p)
  BY <1>1, Roles DEF Spoken
<1>6. Stage(p)'
  BY <1>3, <1>5 DEF Stage
<1>7. (Words(p)' <=> Words(p)) /\ (Claims(p)' <=> Claims(p))
  BY <1>1, <1>5 DEF Words, Claims
<1>8. Fits(p)' /\ Silent(p)'
  <2>1. CASE Resend(p) = <<>>
    <3>1. wire[p, "selector"] \o <<>> = wire[p, "selector"]
      BY <1>2, ConcatEmptySeq
    <3>2. Fit(wire[p, "selector"] \o Resend(p), "open", session[p], "selector")
      BY <1>4, <2>1, <3>1, FitLink
    <3>3. Silent(p)'
      BY <1>1, <1>3, <1>5, <2>1, <3>1 DEF Silent
    <3>4. QED
      BY <1>1, <3>2, <3>3, SpokenFits, Roles
  <2>2. CASE Resend(p) = <<"write">> /\ op[p] = "write"
    <3>1. Fit(wire[p, "selector"] \o Resend(p), "open", session[p], "selector")
      BY <1>2, <1>4, <2>2, FitSay
    <3>2. pc[p] \in {"clear", "publish"}
      BY <1>3, <2>2 DEF Silent
    <3>3. \A S : Says(wire[p, "selector"], S) /\ "write" \in S
                  => Says(wire[p, "selector"] \o <<"write">>, S)
      BY <1>2, AppendOf
    <3>4. Silent(p)'
      BY <1>1, <1>3, <1>5, <2>2, <3>2, <3>3 DEF Silent
    <3>5. QED
      BY <1>1, <3>1, <3>4, SpokenFits, Roles
  <2>3. QED
    BY <2>1, <2>2 DEF Resend
<1>9. QED
  BY <1>5, <1>6, <1>7, <1>8 DEF Good, Vouched

\* Whatever the broker and the loop threads do.
LEMMA GoodNetwork ==
  ASSUME Vouched, NEW p \in Proc, Network(p) \/ \E r \in Role : LinkLoss(p, r),
         pc' = pc, run' = run, raced' = raced
  PROVE  MqttTypeOK' /\ Others(p) /\ Good(p)
<1>1. ASSUME NEW r \in Role, Connack(p, r) PROVE MqttTypeOK' /\ Others(p) /\ Good(p)
  BY <1>1, GoodConnackPresence, GoodConnackSelector DEF Role
<1>2. QED
  BY <1>1, GoodAccept, GoodHandle, GoodExpire, GoodReconnect, GoodLinkLoss DEF Network

-----------------------------------------------------------------------------
(* main(). *)

\* A step that concerns p only, and keeps what is vouched for.
Stepped(p) ==
  /\ MqttTypeOK' /\ Others(p) /\ Good(p)
  /\ \A q \in Proc \ {p} : pc'[q] = pc[q] /\ run'[q] = run[q]
  /\ raced => raced'

\* A step of main() that has nothing to do with the connections.
LEMMA GoodPlain ==
  ASSUME Vouched, NEW p \in Proc, UNCHANGED mqtt, raced' = raced, Stage(p)',
         pc[p] # "drain", pc'[p] # "drain", op[p] = "none",
         pc'[p] # "none" /\ ~SelectorsWrite(run'[p]) =>
           /\ Says(wire[p, "selector"], {"connect", "ask", "disconnect"})
           /\ pc'[p] \notin {"clear", "publish"},
         \A q \in Proc \ {p} : pc'[q] = pc[q] /\ run'[q] = run[q]
  PROVE  Stepped(p)
<1>1. UNCHANGED <<online, session, link, wire, op, sent, done, parting>>
  BY DEF mqtt, clients
<1>2. MqttTypeOK' /\ Others(p)
  BY <1>1 DEF Vouched, MqttTypeOK, Others
<1>3. Fits(p)'
  BY <1>1 DEF Vouched, Fits
<1>4. Silent(p)'
  BY <1>1 DEF Vouched, Silent
<1>5. (Words(p)' <=> Words(p)) /\ (Claims(p)' <=> Claims(p))
  BY <1>1 DEF Words, Claims
<1>6. Good(p)
  BY <1>1, <1>3, <1>4, <1>5 DEF Good, Vouched
<1>7. QED
  BY <1>2, <1>6 DEF Stepped

\* One that goes on to s.
LEMMA GoodGoto ==
  ASSUME Vouched, NEW p \in Proc, NEW s, Goto(p, s), UNCHANGED mqtt, run' = run, raced' = raced,
         pc[p] \notin {"none", "drain"}, s \notin {"none", "mask", "drain"},
         s = "presence" => pc[p] = "mask" /\ ~run[p].replicate_now,
         s = "exit" => run[p].replicate_now \/ ~HasPresence(run[p]),
         s \in {"clear", "publish"} => SelectorsWrite(run[p]),
         pc[p] \in {"ask", "clear", "publish"} => op[p] = "none"
  PROVE  Stepped(p)
<1>1. /\ pc'[p] = s
      /\ \A q \in Proc \ {p} : pc'[q] = pc[q] /\ run'[q] = run[q]
  BY DEF Goto, Vouched, ProcessTypeOK
<1>2. Stage(p) /\ Silent(p) /\ op[p] \in {"none", "ask", "write"}
  BY DEF Vouched, MqttTypeOK
<1>3. op[p] = "none"
  BY <1>2 DEF Silent
<1>4. Stage(p)'
  BY <1>1, <1>2 DEF Stage, mqtt, clients
<1>5. QED
  BY <1>1, <1>2, <1>3, <1>4, GoodPlain DEF Silent

\* A step of the selector that goes on to s.
LEMMA SelectorGoto ==
  ASSUME Vouched, NEW p \in Proc, NEW x \in {"connect", "ask", "write", "disconnect"}, NEW s,
         NEW state, NEW stage, s = <<x>> \/ s = <<>>,
         Spoken(p, "selector", s, state), parting' = parting,
         Fit(wire[p, "selector"] \o s, state, session[p], "selector"),
         x = "write" => SelectorsWrite(run[p]) \/ s = <<>>,
         Goto(p, stage), run' = run, raced' = raced,
         pc[p] \notin {"none", "drain", "mask", "presence", "exit"},
         stage \notin {"none", "drain", "mask", "presence"},
         stage = "exit" => run[p].replicate_now,
         stage \in {"clear", "publish"} => SelectorsWrite(run[p]),
         op'[p] = "ask" => stage = "ask",
         op'[p] = "write" => stage \in {"clear", "publish"}
  PROVE  Stepped(p)
<1>1. /\ pc'[p] = stage
      /\ \A q \in Proc \ {p} : pc'[q] = pc[q] /\ run'[q] = run[q]
  BY DEF Goto, Vouched, ProcessTypeOK
<1>2. wire'[p, "presence"] = wire[p, "presence"] /\ link'[p, "presence"] = link[p, "presence"]
  BY Roles DEF Spoken
<1>3. Stage(p)'
  BY <1>1, <1>2 DEF Stage, Vouched
<1>4. MqttTypeOK' /\ Others(p) /\ Good(p)
  BY <1>1, <1>3, GoodSelector
<1>5. QED
  BY <1>1, <1>4 DEF Stepped

\* The selector connects, or lets go.
LEMMA SelectorFits ==
  ASSUME Vouched, NEW p \in Proc
  PROVE  /\ Fit(wire[p, "selector"] \o <<"connect">>, "sent", session[p], "selector")
         /\ Fit(wire[p, "selector"] \o Goodbye(p, "selector"), "closed", session[p], "selector")
         /\ Goodbye(p, "selector") \in {<<"disconnect">>, <<>>}
<1>1. /\ wire[p, "selector"] \in Seq(Packet) /\ "connect" \in Packet /\ "disconnect" \in Packet
      /\ Fit(wire[p, "selector"], link[p, "selector"], session[p], "selector")
  BY Roles DEF Vouched, MqttTypeOK, Fits, Packet
<1>2. Fit(wire[p, "selector"] \o <<"connect">>, "sent", session[p], "selector")
  BY <1>1, FitSay
<1>3. CASE Connected(p, "selector")
  BY <1>1, <1>2, <1>3, FitSay DEF Goodbye, Connected
<1>4. CASE ~Connected(p, "selector")
  <2>1. wire[p, "selector"] \o <<>> = wire[p, "selector"]
    BY <1>1, ConcatEmptySeq
  <2>2. QED
    BY <1>1, <1>2, <1>4, <2>1, FitLink DEF Goodbye
<1>5. QED
  BY <1>3, <1>4

\* A connection of the selector ends, and main() goes on.
LEMMA SelectorCloses ==
  ASSUME Vouched, NEW p \in Proc, NEW stage, CloseSelector(p), Goto(p, stage),
         run' = run, raced' = raced, pc[p] \in {"ask", "clear", "publish"},
         stage \in {"clear", "publish", "work", "after", "exit"},
         stage = "exit" => run[p].replicate_now,
         stage \in {"clear", "publish"} => SelectorsWrite(run[p])
  PROVE  Stepped(p)
<1>1. Spoken(p, "selector", Goodbye(p, "selector"), "closed") /\ op'[p] = "none" /\ parting' = parting
  BY OnCloseSelector DEF Vouched
<1> DEFINE s == Goodbye(p, "selector")
<1>2. /\ Fit(wire[p, "selector"] \o s, "closed", session[p], "selector")
      /\ s = <<"disconnect">> \/ s = <<>>
  BY SelectorFits
<1> HIDE DEF s
<1>3. Spoken(p, "selector", s, "closed")
  BY <1>1 DEF s
<1>4. QED
  BY <1>1, <1>2, <1>3, SelectorGoto

LEMMA SteppedSelector ==
  ASSUME Vouched, NEW p \in Proc,
         \/ AskBroker(p) \/ OpenToWrite(p) \/ Transmit(p) \/ Written(p) \/ WriteRaises(p)
         \/ \E m \in Mode : Answered(p, m)
  PROVE  Stepped(p)
<1>1. Silent(p) /\ pc \in [Proc -> Stages] /\ op[p] \in {"none", "ask", "write"}
  BY DEF Vouched, ProcessTypeOK, MqttTypeOK
<1>2. pc[p] \in {"clear", "publish"} => SelectorsWrite(run[p])
  BY <1>1 DEF Silent
<1>3. pc' = pc => Goto(p, pc[p])
  BY <1>1 DEF Goto
<1>4. CASE AskBroker(p)
  <2>1. /\ OpenSelector(p, "ask") /\ Goto(p, "ask") /\ run' = run /\ raced' = raced
        /\ pc[p] = "resolve"
    BY <1>4 DEF AskBroker, history
  <2>2. Spoken(p, "selector", <<"connect">>, "sent") /\ op'[p] = "ask" /\ parting' = parting
    BY <2>1, OnOpenSelector DEF Vouched
  <2>3. QED
    BY <2>1, <2>2, SelectorFits, SelectorGoto
<1>5. CASE OpenToWrite(p)
  <2>1. /\ OpenSelector(p, "write") /\ pc' = pc /\ run' = run /\ raced' = raced
        /\ pc[p] \in {"clear", "publish"}
    BY <1>5 DEF OpenToWrite, history, process
  <2>2. Spoken(p, "selector", <<"connect">>, "sent") /\ op'[p] = "write" /\ parting' = parting
    BY <2>1, OnOpenSelector DEF Vouched
  <2>3. QED
    BY <1>2, <1>3, <2>1, <2>2, SelectorFits, SelectorGoto
<1>6. CASE Transmit(p)
  <2>1. SendOp(p) /\ pc' = pc /\ run' = run /\ raced' = raced
    BY <1>6 DEF Transmit, history, process
  <2>2. /\ Spoken(p, "selector", <<op[p]>>, link[p, "selector"])
        /\ op[p] \in {"ask", "write"} /\ Connected(p, "selector")
        /\ op' = op /\ parting' = parting
    BY <2>1, OnSendOp DEF Vouched
  <2>3. pc[p] \in {"ask", "clear", "publish"} /\ (op[p] = "write" => pc[p] # "ask")
        /\ (op[p] = "ask" => pc[p] = "ask")
    BY <1>1, <2>2 DEF Silent
  <2>4. Fit(wire[p, "selector"] \o <<op[p]>>, link[p, "selector"], session[p], "selector")
    <3>1. /\ wire[p, "selector"] \in Seq(Packet) /\ op[p] \in Packet /\ op[p] # "disconnect"
          /\ Fit(wire[p, "selector"], link[p, "selector"], session[p], "selector")
      BY <2>2, Roles DEF Vouched, MqttTypeOK, Fits, Packet
    <3>2. QED
      BY <2>2, <3>1, FitSay DEF Connected
  <2>5. QED
    BY <1>2, <1>3, <2>1, <2>2, <2>3, <2>4, SelectorGoto
<1>7. CASE Written(p)
  BY <1>2, <1>7, SelectorCloses DEF Written, AfterWrite, history
<1>8. CASE WriteRaises(p)
  <2>1. CloseSelector(p) /\ run' = run /\ raced' = raced /\ pc[p] \in {"clear", "publish"}
    BY <1>8 DEF WriteRaises, history
  <2>2. \/ Goto(p, "work")
        \/ Goto(p, IF run[p].replicate_now THEN "exit" ELSE "after")
    BY <1>8 DEF WriteRaises, Raise
  <2>3. QED
    BY <2>1, <2>2, SelectorCloses
<1>9. ASSUME NEW m \in Mode, Answered(p, m) PROVE Stepped(p)
  <2>1. /\ CloseSelector(p) /\ run' = run /\ raced' = raced /\ pc[p] = "ask"
        /\ Goto(p, IF m = "lab" /\ SelectorsWrite(run[p]) THEN "clear" ELSE AfterDecision(p))
    BY <1>9 DEF Answered, history
  <2>2. QED
    BY <2>1, SelectorCloses DEF AfterDecision
<1>10. QED
  BY <1>4, <1>5, <1>6, <1>7, <1>8, <1>9

LEMMA SteppedStart ==
  ASSUME Vouched, NEW p \in Proc, PresenceStart(p)
  PROVE  Stepped(p)
<1>1. /\ pc[p] = "presence" /\ Goto(p, "resolve") /\ run' = run /\ raced' = raced
      /\ IF HasPresence(run[p]) THEN StartPresence(p) ELSE UNCHANGED mqtt
  BY DEF PresenceStart, history
<1>2. CASE ~HasPresence(run[p])
  BY <1>1, <1>2, GoodGoto
<1>3. CASE HasPresence(run[p])
  <2>1. /\ MqttTypeOK' /\ Others(p)
        /\ link'[p, "presence"] = "retry" /\ link'[p, "selector"] = link[p, "selector"]
        /\ UNCHANGED <<online, session, wire, op, parting>>
    BY <1>1, <1>3, OnStartPresence DEF Vouched
  <2>2. /\ pc'[p] = "resolve"
        /\ \A q \in Proc \ {p} : pc'[q] = pc[q] /\ run'[q] = run[q]
    BY <1>1 DEF Goto, Vouched, ProcessTypeOK
  <2>3. /\ Fits(p) /\ Stage(p) /\ Silent(p)
        /\ wire[p, "presence"] = Quiet /\ ~run[p].replicate_now
    BY <1>1 DEF Vouched, Stage
  <2>4. Fits(p)'
    <3>1. Fit(wire[p, "presence"], "retry", session[p], "presence")
      BY <2>3, FitEmpty DEF Quiet
    <3>2. QED
      BY <2>1, <2>3, <3>1 DEF Fits, Role
  <2>5. Silent(p)' /\ Stage(p)'
    BY <1>1, <1>3, <2>1, <2>2, <2>3 DEF Silent, Stage
  <2>6. Words(p) => Words(p)'
    BY <1>1, <2>1, <2>2, <2>3, ShapesDiffer DEF Words, Shapes
  <2>7. Claims(p) => Claims(p)'
    BY <2>1, <2>2 DEF Claims
  <2>8. QED
    BY <1>1, <2>1, <2>2, <2>4, <2>5, <2>6, <2>7 DEF Stepped, Good, Vouched
<1>4. QED
  BY <1>2, <1>3

\* stop() says false, to a broker that has answered.
LEMMA SteppedStop ==
  ASSUME Vouched, NEW p \in Proc, StopPresence(p)
  PROVE  Stepped(p)
<1> DEFINE w == wire[p, "presence"]
           s == IF Connected(p, "presence") THEN No ELSE Quiet
<1>1. /\ pc[p] = "stop" /\ PublishOffline(p) /\ Goto(p, "drain") /\ run' = run
      /\ raced' = (raced \/ link[p, "presence"] = "sent")
  BY DEF StopPresence
<1>2. /\ Spoken(p, "presence", s, link[p, "presence"])
      /\ parting'[p] = "unsaid" /\ op' = op
  BY <1>1, OnPublishOffline DEF Vouched, No, Quiet
<1>3. /\ MqttTypeOK' /\ Others(p)
      /\ wire'[p, "presence"] = w \o s /\ wire'[p, "selector"] = wire[p, "selector"]
      /\ link'[p, "presence"] = link[p, "presence"]
      /\ session' = session /\ online' = online
  BY <1>2, Roles DEF Spoken
<1>4. /\ pc'[p] = "drain"
      /\ \A q \in Proc \ {p} : pc'[q] = pc[q] /\ run'[q] = run[q]
  BY <1>1 DEF Goto, Vouched, ProcessTypeOK
<1>5. Fits(p) /\ Stage(p) /\ Silent(p) /\ w \in Seq(Packet) /\ op[p] # "write" /\ op[p] # "ask"
  BY <1>1, Roles DEF Vouched, MqttTypeOK, Silent
<1>6. ~Connected(p, "presence") => w \o s = w
  BY <1>5, ConcatEmptySeq DEF Quiet
<1>7. Fits(p)'
  <2>1. Fit(w \o s, link[p, "presence"], session[p], "presence")
    <3>1. Fit(w, link[p, "presence"], session[p], "presence")
      BY <1>5, Roles DEF Fits
    <3>2. CASE Connected(p, "presence")
      BY <1>5, <3>1, <3>2, FitSay DEF Connected, No, Packet
    <3>3. QED
      BY <1>6, <3>1, <3>2
  <2>2. QED
    BY <1>2, <2>1, Roles, SpokenFits
<1>8. Silent(p)'
  BY <1>1, <1>2, <1>3, <1>4, <1>5 DEF Silent
<1>9. Stage(p)'
  <2>1. ~HasPresence(run[p]) => w = Quiet /\ link[p, "presence"] = "closed"
    BY <1>1, <1>5 DEF Stage
  <2>2. link[p, "presence"] = "closed" => w \o s = w
    BY <1>6 DEF Connected
  <2>3. QED
    BY <1>1, <1>3, <1>4, <1>5, <2>1, <2>2 DEF Stage
<1>10. ASSUME ~raced'
       PROVE  Words(p)' /\ (Claims(p) => Claims(p)')
  <2>1. Words(p) /\ link[p, "presence"] # "sent" /\ link[p, "presence"] \in Link
    BY <1>1, <1>10, Roles DEF Vouched, MqttTypeOK
  <2>2. CASE link[p, "presence"] = "open"
    <3>1. w \in {Quiet, Yes} /\ s = No
      BY <1>1, <2>1, <2>2 DEF Words, Connected
    <3>2. w \o s \in {No, YesNo}
      BY <3>1, ShapesGoOn
    <3>3. Words(p)'
      BY <1>2, <1>3, <1>4, <2>2, <3>2 DEF Words, Shapes
    <3>4. w \o s \notin {Quiet, Bye}
      BY <3>2, ShapesDiffer
    <3>5. QED
      BY <1>3, <3>3, <3>4 DEF Claims
  <2>3. CASE link[p, "presence"] \in {"closed", "retry"}
    <3>1. w \o s = w
      BY <1>6, <2>3 DEF Connected
    <3>2. Words(p)'
      BY <1>1, <1>2, <1>3, <1>4, <2>1, <2>3, <3>1 DEF Words
    <3>3. QED
      BY <1>3, <2>3, <3>1, <3>2 DEF Claims
  <2>4. QED
    BY <2>1, <2>2, <2>3 DEF Link
<1>11. QED
  BY <1>1, <1>3, <1>4, <1>7, <1>8, <1>9, <1>10 DEF Stepped, Good, Vouched

\* stop() lets go, of a broker that has heard it or never will.
LEMMA SteppedDrain ==
  ASSUME Vouched, NEW p \in Proc, Drain(p)
  PROVE  Stepped(p)
<1> DEFINE s == IF link[p, "presence"] = "open" THEN Bye ELSE Quiet
<1>1. /\ pc[p] = "drain" /\ Disconnect(p) /\ Goto(p, "exit") /\ run' = run /\ raced' = raced
  BY DEF Drain, history
<1>2. /\ Spoken(p, "presence", Goodbye(p, "presence"), "closed")
      /\ wire[p, "presence"] = Quiet /\ link[p, "presence"] # "sent"
      /\ parting'[p] = "no" /\ op' = op
  BY <1>1, OnDisconnect DEF Vouched, Quiet
<1>3. s = Goodbye(p, "presence") /\ Quiet \o s = s
  BY <1>2, ShapesGoOn DEF Goodbye, Connected, Bye, Quiet, Shapes
<1>4. /\ MqttTypeOK' /\ Others(p)
      /\ wire'[p, "presence"] = s /\ wire'[p, "selector"] = wire[p, "selector"]
      /\ link'[p, "presence"] = "closed"
      /\ session' = session /\ online' = online
  BY <1>2, <1>3, Roles DEF Spoken
<1>5. /\ pc'[p] = "exit"
      /\ \A q \in Proc \ {p} : pc'[q] = pc[q] /\ run'[q] = run[q]
  BY <1>1 DEF Goto, Vouched, ProcessTypeOK
<1>6. Fits(p) /\ Stage(p) /\ Silent(p)
  BY DEF Vouched
<1>7. Fits(p)'
  <2>1. Fit(Quiet, link[p, "presence"], session[p], "presence")
    BY <1>2, <1>6, Roles DEF Fits
  <2>2. Fit(Quiet \o s, "closed", session[p], "presence")
    <3>1. CASE link[p, "presence"] = "open"
      <4>1. Quiet \in Seq(Packet) /\ "disconnect" \in Packet
        BY ShapesGoOn DEF Shapes, Packet
      <4>2. QED
        BY <2>1, <3>1, <4>1, FitSay DEF Bye
    <3>2. CASE link[p, "presence"] # "open"
      BY <1>3, <2>1, <3>2, FitLink
    <3>3. QED
      BY <3>1, <3>2
  <2>3. Fit(wire[p, "presence"] \o Goodbye(p, "presence"), "closed", session[p], "presence")
    BY <1>2, <1>3, <2>2
  <2>4. QED
    BY <1>2, <2>3, Roles, SpokenFits
<1>8. Silent(p)' /\ Stage(p)'
  <2>1. ~HasPresence(run[p]) => s = Quiet
    BY <1>1, <1>6 DEF Stage
  <2>2. QED
    BY <1>1, <1>2, <1>4, <1>5, <1>6, <2>1 DEF Silent, Stage
<1>9. Words(p)'
  BY <1>2, <1>4, <1>5 DEF Words, Shapes
<1>10. Claims(p) => Claims(p)'
  BY <1>1, <1>2, <1>4, <1>5, ShapesDiffer DEF Claims
<1>11. QED
  BY <1>1, <1>4, <1>5, <1>7, <1>8, <1>9, <1>10 DEF Stepped, Good

\* The steps of main() that leave the broker alone, well or badly.
LEMMA SteppedAlone ==
  ASSUME Vouched, NEW p \in Proc,
         \/ EnforcePveGuestsMasked(p) \/ MaskFails(p) \/ PresenceFails(p)
         \/ \E m \in Mode : ResolveLocally(p, m)
         \/ SelectorUnavailable(p) \/ ResolveRaises(p)
         \/ Work(p) \/ PoweroffFails(p) \/ \E left \in BOOLEAN : WorkFails(p, left)
         \/ After(p) \/ Sigterm(p)
  PROVE  Stepped(p)
<1>1. CASE EnforcePveGuestsMasked(p) \/ MaskFails(p)
  <2>1. /\ pc[p] = "mask" /\ Goto(p, AfterMask(p))
        /\ UNCHANGED mqtt /\ run' = run /\ raced' = raced
    BY <1>1 DEF EnforcePveGuestsMasked, MaskFails, history
  <2>2. CASE run[p].replicate_now
    <3>1. Goto(p, "work")
      BY <2>1, <2>2 DEF AfterMask
    <3>2. QED
      BY <2>1, <3>1, GoodGoto
  <2>3. CASE ~run[p].replicate_now
    <3>1. Goto(p, "presence")
      BY <2>1, <2>3 DEF AfterMask
    <3>2. QED
      BY <2>1, <2>3, <3>1, GoodGoto
  <2>4. QED
    BY <2>2, <2>3
<1>2. CASE PresenceFails(p)
  BY <1>2, GoodGoto DEF PresenceFails, history
<1>3. ASSUME NEW m \in Mode, ResolveLocally(p, m) PROVE Stepped(p)
  BY <1>3, GoodGoto DEF ResolveLocally, AfterDecision, history
<1>4. CASE SelectorUnavailable(p)
  <2>1. SelectorsWrite(run[p]) \/ pc[p] \notin {"clear", "publish"}
    BY DEF Vouched, Silent
  <2>2. QED
    BY <1>4, <2>1, GoodGoto DEF SelectorUnavailable, AfterDecision, AfterWrite, history
<1>5. CASE ResolveRaises(p)
  BY <1>5, GoodGoto DEF ResolveRaises, Raise, history
<1>6. CASE Work(p)
  BY <1>6, GoodGoto DEF Work
<1>7. CASE PoweroffFails(p)
  BY <1>7, GoodGoto DEF PoweroffFails
<1>8. ASSUME NEW left \in BOOLEAN, WorkFails(p, left) PROVE Stepped(p)
  BY <1>8, GoodGoto DEF WorkFails, Raise
<1>9. CASE After(p)
  BY <1>9, GoodGoto DEF After, history
<1>10. CASE Sigterm(p)
  BY <1>10, GoodGoto DEF Sigterm
<1>11. QED
  BY <1>1, <1>2, <1>3, <1>4, <1>5, <1>6, <1>7, <1>8, <1>9, <1>10

\* A process begins with nothing left of the one that had its id.
LEMMA SteppedBegin ==
  ASSUME Vouched, NEW p \in Proc, NEW c \in Runs, Start(p, c)
  PROVE  Stepped(p)
<1>1. /\ pc[p] = "none" /\ Gone(p) /\ UNCHANGED mqtt /\ raced' = raced
      /\ run' = [run EXCEPT ![p] = c]
      /\ Goto(p, IF Accepted(c) THEN "mask" ELSE "exit")
  BY DEF Start
<1>2. /\ pc'[p] \in {"mask", "exit"}
      /\ \A q \in Proc \ {p} : pc'[q] = pc[q] /\ run'[q] = run[q]
  BY <1>1 DEF Goto, Vouched, ProcessTypeOK
<1>3. wire[p, "presence"] = Quiet /\ wire[p, "selector"] = <<>>
  BY <1>1, Roles DEF Gone, Quiet
<1>4. link[p, "presence"] = "closed" /\ op[p] = "none"
  BY <1>1 DEF Vouched, Stage, Silent, MqttTypeOK
<1>5. Stage(p)'
  BY <1>1, <1>2, <1>3, <1>4 DEF Stage, mqtt, clients
<1>6. Says(wire[p, "selector"], {"connect", "ask", "disconnect"})
  BY <1>3, NothingSaid
<1>7. QED
  BY <1>1, <1>2, <1>4, <1>5, <1>6, GoodPlain

LEMMA SteppedExit ==
  ASSUME Vouched, NEW p \in Proc, Exit(p)
  PROVE  Stepped(p)
<1>1. pc[p] = "exit" /\ Forget({p}) /\ UNCHANGED mqtt /\ raced' = raced
  BY DEF Exit
<1>2. /\ pc'[p] = "none"
      /\ \A q \in Proc \ {p} : pc'[q] = pc[q] /\ run'[q] = run[q]
  BY <1>1 DEF Forget
<1>3. op[p] = "none" /\ link[p, "presence"] = "closed"
  BY <1>1 DEF Vouched, Stage, Silent, MqttTypeOK
<1>4. Stage(p)'
  BY <1>2, <1>3, <1>1 DEF Stage, mqtt, clients
<1>5. QED
  BY <1>1, <1>2, <1>3, <1>4, GoodPlain

\* Whoever dies, the broker still has the will.
LEMMA VouchedDie ==
  ASSUME Vouched, ProcessTypeOK', NEW P \in SUBSET Proc, NEW flushed \in BOOLEAN, NEW left,
         Die(P, flushed, left)
  PROVE  Vouched'
<1>1. Vanish(P, flushed) /\ Forget(P) /\ raced' = raced
  BY DEF Die
<1>2. MqttTypeOK
  BY DEF Vouched
<1>3. MqttTypeOK'
  <2>1. "closed" \in Link /\ <<>> \in Seq(Packet)
    BY Packets DEF Link
  <2>2. link' \in [Proc \X Role -> Link]
    BY <1>1, <1>2, <2>1 DEF Vanish, MqttTypeOK
  <2>3. wire' \in [Proc \X Role -> Seq(Packet)]
    BY <1>1, <1>2, <2>1 DEF Vanish, MqttTypeOK
  <2>4. /\ op' \in [Proc -> {"none", "ask", "write"}]
        /\ parting' \in [Proc -> {"no", "unsaid", "said"}]
    BY <1>1, <1>2 DEF Vanish, MqttTypeOK
  <2>5. sent' \in [Proc -> BOOLEAN] /\ done' \in [Proc -> BOOLEAN]
    BY <1>1 DEF Vanish
  <2>6. QED
    BY <1>1, <1>2, <2>2, <2>3, <2>4, <2>5 DEF Vanish, MqttTypeOK
<1>4. online' = online /\ session' = session
  BY <1>1 DEF Vanish
<1>5. ASSUME NEW q \in Proc
      PROVE  /\ Fits(q)' /\ Stage(q)' /\ Silent(q)'
             /\ Words(q) => Words(q)'
             /\ Claims(q) => Claims(q)'
  <2>1. Fits(q) /\ Stage(q) /\ Silent(q)
    BY DEF Vouched
  <2>2. CASE q \in P
    <3>1. /\ \A r \in Role : link'[q, r] = "closed" /\ wire'[q, r] \in {wire[q, r], <<>>}
          /\ op'[q] = "none" /\ parting'[q] = "no" /\ pc'[q] = "none"
      BY <1>1, <2>2 DEF Vanish, Forget
    <3>2. Fits(q)'
      <4> SUFFICES ASSUME NEW r \in Role PROVE Fit(wire'[q, r], "closed", session[q], r)
        BY <1>4, <3>1 DEF Fits
      <4>1. Fit(<<>>, "closed", session[q], r) /\ Fit(wire[q, r], "closed", session[q], r)
        BY <2>1, FitEmpty, FitLink DEF Fits
      <4>2. QED
        BY <3>1, <4>1
    <3>3. Silent(q)'
      BY <2>1, <3>1, NothingSaid, Roles DEF Silent
    <3>4. Stage(q)'
      BY <3>1, Roles DEF Stage
    <3>5. Words(q) => Words(q)'
      BY <3>1, Roles DEF Words, Shapes, Quiet
    <3>6. Claims(q) => Claims(q)'
      BY <1>4, <3>1, Roles, ShapesDiffer DEF Claims, Quiet
    <3>7. QED
      BY <3>2, <3>3, <3>4, <3>5, <3>6
  <2>3. CASE q \notin P
    <3>1. /\ \A r \in Role : link'[q, r] = link[q, r] /\ wire'[q, r] = wire[q, r]
          /\ op'[q] = op[q] /\ parting'[q] = parting[q] /\ pc'[q] = pc[q] /\ run'[q] = run[q]
      BY <1>1, <2>3 DEF Vanish, Forget
    <3>2. /\ link'[q, "presence"] = link[q, "presence"] /\ wire'[q, "presence"] = wire[q, "presence"]
          /\ wire'[q, "selector"] = wire[q, "selector"]
      BY <3>1, Roles
    <3>3. Fits(q)' /\ Silent(q)' /\ Stage(q)'
      BY <1>4, <2>1, <3>1, <3>2 DEF Fits, Silent, Stage
    <3>4. (Words(q) => Words(q)') /\ (Claims(q) => Claims(q)')
      BY <1>4, <3>1, <3>2 DEF Words, Claims
    <3>5. QED
      BY <3>3, <3>4
  <2>4. QED
    BY <2>2, <2>3
<1>6. QED
  BY <1>1, <1>3, <1>4, <1>5 DEF Vouched

LEMMA VouchedSame ==
  ASSUME Vouched, ProcessTypeOK', UNCHANGED <<mqtt, process, raced>>
  PROVE  Vouched'
<1>1. /\ UNCHANGED <<online, session, link, wire, op, sent, done, parting>>
      /\ UNCHANGED <<pc, run, raced>>
  BY DEF mqtt, clients, process
<1>2. MqttTypeOK'
  BY <1>1 DEF Vouched, MqttTypeOK
<1>3. \A p \in Proc : Fits(p)' /\ Stage(p)' /\ Silent(p)'
  BY <1>1 DEF Vouched, Fits, Stage, Silent
<1>4. \A p \in Proc : (Words(p)' <=> Words(p)) /\ (Claims(p)' <=> Claims(p))
  BY <1>1 DEF Words, Claims
<1>5. QED
  BY <1>1, <1>2, <1>3, <1>4 DEF Vouched

-----------------------------------------------------------------------------
(* The theorems. *)

LEMMA VouchedStepped ==
  ASSUME Vouched, ProcessTypeOK', NEW p \in Proc, Stepped(p)
  PROVE  Vouched'
BY VouchedOne DEF Stepped

LEMMA VouchedInit == Init => Vouched
<1> SUFFICES ASSUME Init PROVE Vouched
  OBVIOUS
<1>1. ProcessTypeOK
  BY InOrderInit DEF InOrder
<1>2. /\ online = "false" /\ pc = [p \in Proc |-> "none"]
      /\ session = [p \in Proc |-> "none"] /\ op = [p \in Proc |-> "none"]
      /\ link = [c \in Proc \X Role |-> "closed"] /\ wire = [c \in Proc \X Role |-> <<>>]
      /\ sent = [p \in Proc |-> FALSE] /\ done = [p \in Proc |-> FALSE]
      /\ parting = [p \in Proc |-> "no"]
  BY DEF Init, MqttInit, Fresh
<1>3. MqttTypeOK
  BY <1>2, Packets DEF MqttTypeOK, Link
<1>4. ASSUME NEW p \in Proc PROVE Fits(p) /\ Stage(p) /\ Silent(p) /\ Words(p)
  <2>1. /\ \A r \in Role : wire[p, r] = <<>> /\ link[p, r] = "closed"
        /\ session[p] = "none" /\ op[p] = "none" /\ pc[p] = "none" /\ parting[p] = "no"
    BY <1>2
  <2>2. Fits(p)
    BY <2>1, FitEmpty DEF Fits
  <2>3. Stage(p) /\ Silent(p) /\ Words(p)
    BY <2>1, NothingSaid, Roles DEF Stage, Silent, Words, Shapes, Quiet
  <2>4. QED
    BY <2>2, <2>3
<1>5. QED
  BY <1>1, <1>2, <1>3, <1>4 DEF Vouched

LEMMA VouchedStep ==
  ASSUME Vouched, InOrder, [Next]_vars
  PROVE  Vouched'
<1>1. ProcessTypeOK'
  BY InOrderStep DEF InOrder
<1>2. ASSUME NEW p \in Proc, Advance(p) PROVE Vouched'
  <2>1. CASE Exit(p)
    BY <1>1, <2>1, SteppedExit, VouchedStepped
  <2>2. CASE PresenceStart(p) \/ StopPresence(p) \/ Drain(p)
    BY <1>1, <2>2, SteppedStart, SteppedStop, SteppedDrain, VouchedStepped
  <2>3. CASE \/ AskBroker(p) \/ OpenToWrite(p) \/ Transmit(p) \/ Written(p) \/ WriteRaises(p)
             \/ \E m \in Mode : Answered(p, m)
    BY <1>1, <2>3, SteppedSelector, VouchedStepped
  <2>4. CASE \/ EnforcePveGuestsMasked(p) \/ Work(p) \/ After(p)
             \/ \E m \in Mode : ResolveLocally(p, m)
    BY <1>1, <2>4, SteppedAlone, VouchedStepped
  <2>5. QED
    BY <1>2, <2>1, <2>2, <2>3, <2>4 DEF Advance
<1>3. ASSUME NEW p \in Proc, Network(p) \/ (\E r \in Role : LinkLoss(p, r)),
             UNCHANGED <<node, process, history, calm>>
      PROVE  Vouched'
  <2>1. UNCHANGED <<pc, run, raced>>
    BY <1>3 DEF process, history
  <2>2. MqttTypeOK' /\ Others(p) /\ Good(p)
    BY <1>3, <2>1, GoodNetwork
  <2>3. Stepped(p)
    BY <2>1, <2>2 DEF Stepped
  <2>4. QED
    BY <1>1, <2>3, VouchedStepped
<1>4. ASSUME NEW p \in Proc, Fault(p) PROVE Vouched'
  <2>1. CASE \/ MaskFails(p) \/ PresenceFails(p) \/ SelectorUnavailable(p) \/ ResolveRaises(p)
             \/ PoweroffFails(p) \/ \E left \in BOOLEAN : WorkFails(p, left)
    BY <1>1, <2>1, SteppedAlone, VouchedStepped
  <2>2. ASSUME NEW left \in BOOLEAN, Kill(p, left) PROVE Vouched'
    BY <1>1, <2>2, VouchedDie DEF Kill
  <2>3. QED
    BY <1>3, <1>4, <2>1, <2>2 DEF Fault
<1>5. ASSUME NEW left, PowerLoss(left) PROVE Vouched'
  BY <1>1, <1>5, VouchedDie DEF PowerLoss
<1>6. CASE Disturbance
  <2>1. ASSUME NEW p \in Proc, NEW c \in Runs, Start(p, c) PROVE Vouched'
    BY <1>1, <2>1, SteppedBegin, VouchedStepped
  <2>2. ASSUME NEW p \in Proc, Sigterm(p) PROVE Vouched'
    BY <1>1, <2>2, SteppedAlone, VouchedStepped
  <2>3. CASE Unmask
    BY <1>1, <2>3, VouchedSame DEF Unmask
  <2>4. QED
    BY <1>4, <1>5, <1>6, <2>1, <2>2, <2>3, RunsAssumption DEF Disturbance, Boot, ByHand, PowerDown
<1>7. CASE UNCHANGED <<mqtt, process, raced>>
  BY <1>1, <1>7, VouchedSame
<1>8. QED
  BY <1>2, <1>3, <1>6, <1>7 DEF Next, Online, Settle, vars, history

\* In every state a broker that has online as true holds a session whose end
\* makes it false, unless some stop() published before it was connected.
THEOREM VouchedInvariant == Spec => [](Vouched /\ InOrder)
<1>1. Init => Vouched /\ InOrder
  BY VouchedInit, InOrderInit
<1>2. (Vouched /\ InOrder) /\ [Next]_vars => (Vouched /\ InOrder)'
  BY VouchedStep, InOrderStep
<1>3. QED
  BY <1>1, <1>2, PTL DEF Spec

\* With every process gone and the broker done with them, online is false,
\* whichever of them were killed, cut off or took the session from each other.
THEOREM OfflineSafe == Spec => []OfflineWhenGone
<1>1. Vouched => OfflineWhenGone
  <2> SUFFICES ASSUME Vouched, \A p \in Proc : pc[p] = "none" /\ Gone(p)
               PROVE  online = "false" \/ raced
    BY DEF OfflineWhenGone
  <2>1. \A p \in Proc : ~Claims(p)
    BY DEF Gone, Claims
  <2>2. QED
    BY <2>1 DEF Vouched, MqttTypeOK
<1>2. QED
  BY <1>1, VouchedInvariant, PTL

\* A rehearsal never says anything but that it reads.
THEOREM DryRunQuiet == Spec => []DryRunSendsNothing
<1>1. Vouched => DryRunSendsNothing
  <2> SUFFICES ASSUME Vouched, NEW p \in Proc, NEW r \in Role,
                      pc[p] # "none", run[p].dry_run, ~run[p].exercise_selectors,
                      NEW i \in DOMAIN wire[p, r]
               PROVE  wire[p, r][i] \in {"connect", "ask", "disconnect"}
    BY DEF DryRunSendsNothing
  <2>1. Stage(p) /\ Silent(p) /\ wire[p, r] \in Seq(Packet)
    BY DEF Vouched, MqttTypeOK
  <2>2. i \in 1..Len(wire[p, r])
    BY <2>1, LenProperties
  <2>3. Says(wire[p, r], {"connect", "ask", "disconnect"})
    <3>1. CASE r = "presence"
      BY <2>1, <3>1, NothingSaid DEF Stage, HasPresence, Quiet
    <3>2. CASE r = "selector"
      BY <2>1, <3>2 DEF Silent, SelectorsWrite
    <3>3. QED
      BY <3>1, <3>2 DEF Role
  <2>4. QED
    BY <2>2, <2>3 DEF Says
<1>2. QED
  BY <1>1, VouchedInvariant, PTL

\* What the types of Controller say of the node and of what is remembered.
NodeTypeOK ==
  /\ power \in {"on", "stopping", "off"}
  /\ masked \in BOOLEAN /\ onboot \in BOOLEAN /\ exposed \in BOOLEAN /\ spoilt \in BOOLEAN
  /\ raced \in BOOLEAN /\ calm \in BOOLEAN

\* A refresh sets the flag or leaves it.
LEMMA LeavesType ==
  ASSUME onboot \in BOOLEAN, NEW left \in BOOLEAN,
         RefreshLeaves(left) \/ UNCHANGED onboot
  PROVE  onboot' \in BOOLEAN
BY DEF RefreshLeaves

LEMMA NodeTypeStep ==
  ASSUME NodeTypeOK, [Next]_vars
  PROVE  NodeTypeOK'
<1> USE DEF NodeTypeOK
<1>1. CASE UNCHANGED <<node, history, calm>>
  BY <1>1 DEF node, history
<1>2. ASSUME NEW p \in Proc, Advance(p) PROVE NodeTypeOK'
  <2>1. CASE EnforcePveGuestsMasked(p)
    BY <2>1 DEF EnforcePveGuestsMasked
  <2>2. CASE Work(p)
    <3>1. onboot' \in BOOLEAN
      BY <2>2, LeavesType DEF Work
    <3>2. QED
      BY <2>2, <3>1 DEF Work
  <2>3. CASE StopPresence(p) \/ Exit(p)
    BY <2>3 DEF StopPresence, Exit, node
  <2>4. CASE ~EnforcePveGuestsMasked(p) /\ ~Work(p) /\ ~StopPresence(p) /\ ~Exit(p)
    BY <1>1, <1>2, <2>4
       DEF Advance, PresenceStart, ResolveLocally, Answered, AskBroker, OpenToWrite, Transmit,
           Written, WriteRaises, After, Drain
  <2>5. QED
    BY <2>1, <2>2, <2>3, <2>4
<1>3. ASSUME NEW P, NEW flushed, NEW left \in BOOLEAN, Die(P, flushed, left),
             power' \in {"on", "stopping", "off"}
      PROVE  NodeTypeOK'
  <2>1. onboot' \in BOOLEAN
    BY <1>3, LeavesType DEF Die
  <2>2. QED
    BY <1>3, <2>1 DEF Die
<1>4. ASSUME NEW p \in Proc, Fault(p) PROVE NodeTypeOK'
  <2>1. ASSUME NEW left \in BOOLEAN, WorkFails(p, left) PROVE NodeTypeOK'
    <3>1. onboot' \in BOOLEAN
      BY <2>1, LeavesType DEF WorkFails
    <3>2. spoilt' \in BOOLEAN
      BY <2>1 DEF WorkFails, Restoring
    <3>3. QED
      BY <2>1, <3>1, <3>2 DEF WorkFails
  <2>2. CASE PoweroffFails(p)
    <3>1. onboot' \in BOOLEAN
      BY <2>2, LeavesType DEF PoweroffFails
    <3>2. QED
      BY <2>2, <3>1 DEF PoweroffFails
  <2>3. CASE ResolveRaises(p)
    BY <2>3 DEF ResolveRaises, node, history
  <2>4. ASSUME NEW left \in BOOLEAN, Kill(p, left) PROVE NodeTypeOK'
    BY <1>3, <2>4 DEF Kill
  <2>5. QED
    BY <1>1, <1>4, <2>1, <2>2, <2>3, <2>4
       DEF Fault, MaskFails, PresenceFails, SelectorUnavailable
<1>5. ASSUME NEW left \in BOOLEAN, PowerLoss(left) PROVE NodeTypeOK'
  BY <1>3, <1>5 DEF PowerLoss
<1>6. CASE Disturbance
  <2>1. ASSUME NEW p \in Proc, NEW c, Start(p, c), power' \in {"on", "stopping", "off"}
        PROVE  NodeTypeOK'
    BY <2>1 DEF Start
  <2>2. ASSUME NEW p \in Proc, Sigterm(p) PROVE NodeTypeOK'
    BY <2>2 DEF Sigterm, node
  <2>3. CASE Unmask
    BY <2>3 DEF Unmask
  <2>4. QED
    BY <1>4, <1>5, <1>6, <2>1, <2>2, <2>3 DEF Disturbance, Boot, ByHand, PowerDown
<1>7. CASE Settle
  BY <1>7 DEF Settle, node, history
<1>8. QED
  BY <1>1, <1>2, <1>6, <1>7 DEF Next, Online, vars

\* main(), the node and the connections stay within their types.
THEOREM TypeCorrect == Spec => []TypeOK
<1>1. Init => NodeTypeOK
  BY DEF Init, NodeTypeOK
<1>2. Vouched /\ NodeTypeOK => TypeOK
  BY DEF Vouched, ProcessTypeOK, NodeTypeOK, TypeOK
<1>3. Spec => []NodeTypeOK
  BY <1>1, NodeTypeStep, PTL DEF Spec
<1>4. QED
  BY <1>2, <1>3, VouchedInvariant, PTL
=============================================================================
