----------------------------- MODULE ModeProofs -----------------------------
(***************************************************************************)
(* Proofs about ModeResolution, for any kinds of online selector and any    *)
(* number of dongles plugged in at once.                                   *)
(***************************************************************************)
EXTENDS ModeCalm, FiniteSetTheorems, TLAPS

\* A dongle found was in at some time of the look; one that was in all that time
\* is found once its label was looked for.
Seen ==
  /\ matched \subseteq ever
  /\ IF pc = "dongle"
       THEN /\ steady \subseteq Valid(dongles) /\ Valid(dongles) \subseteq ever
            /\ \A i \in 1..(looking - 1) : Labels[i] \in steady => Labels[i] \in matched
       ELSE matched = {} /\ looking = 1

\* The request this boot read is pending when the boot is decided only if a call
\* failed.
Consumed ==
  /\ pc \in {"dongle", "online"} => ~unanswered
  /\ pc \in {"publish", "reset", "decided"} /\ ~dry /\ unanswered => trouble

\* A rehearsal never comes to where the code writes.
Rehearsed == dry => pc \notin {"clear", "publish", "reset"}

\* The status is the mode from its publication on.
Told ==
  /\ pc = "reset" => online = "mqtt" /\ status = mode
  /\ StatusTellsTheMode

Resolved == TypeOK /\ Seen /\ Consumed /\ Rehearsed /\ Told

\* There are three labels, one for each mode.
LEMMA LabelsAreModes ==
  /\ Len(Labels) = 3
  /\ \A i \in 1..3 : Labels[i] \in Mode
  /\ \A m \in Mode : \E i \in 1..3 : Labels[i] = m
<1>1. Labels[1] = "emergency" /\ Labels[2] = "lab" /\ Labels[3] = "replication" /\ Len(Labels) = 3
  BY DEF Labels
<1>2. \A i \in 1..3 : i = 1 \/ i = 2 \/ i = 3
  OBVIOUS
<1>3. \A i \in 1..3 : Labels[i] \in Mode
  BY <1>1, <1>2 DEF Mode
<1>4. \A m \in Mode : \E i \in 1..3 : Labels[i] = m
  BY <1>1 DEF Mode
<1>5. QED
  BY <1>1, <1>3, <1>4

\* An opinion of the dongles is that of the only one that matched.
LEMMA OpinionOfOne ==
  ASSUME NEW M, M \subseteq Mode, DongleOpinion(M) # "none"
  PROVE  M = {DongleOpinion(M)} /\ DongleOpinion(M) \in Mode
<1>1. IsFiniteSet(M) /\ Cardinality(M) = 1
  <2>1. IsFiniteSet(Mode)
    <3>1. IsFiniteSet({"emergency"})
      BY FS_Singleton
    <3>2. IsFiniteSet({"emergency"} \cup {"lab"})
      BY <3>1, FS_AddElement
    <3>3. IsFiniteSet(({"emergency"} \cup {"lab"}) \cup {"replication"})
      BY <3>2, FS_AddElement
    <3>4. Mode = ({"emergency"} \cup {"lab"}) \cup {"replication"}
      BY DEF Mode
    <3>5. QED
      BY <3>3, <3>4
  <2>2. QED
    BY <2>1, FS_Subset DEF DongleOpinion
<1>2. PICK m : M = {m}
  BY <1>1, FS_Singleton
<1>3. (CHOOSE n \in M : TRUE) = m
  BY <1>2
<1>4. QED
  BY <1>1, <1>2, <1>3 DEF DongleOpinion

LEMMA ResolvedInit == Init => Resolved
<1> SUFFICES ASSUME Init PROVE Resolved
  OBVIOUS
<1> USE DEF Init, NoLook
<1>1. TypeOK
  <2>1. Len(Labels) = 3
    BY LabelsAreModes
  <2>2. dongles \in [Mode -> Slot]
    BY DEF Slot
  <2>3. looking \in 1..(Len(Labels) + 1) /\ request \in Mode
    BY <2>1 DEF Mode
  <2>4. QED
    BY <2>2, <2>3 DEF TypeOK
<1>2. Seen
  BY DEF Seen
<1>3. QED
  BY <1>1, <1>2 DEF Resolved, Consumed, Rehearsed, Told, StatusTellsTheMode

\* Every step of the resolution, of its failures and of the world around it.
LEMMA ResolvedStep ==
  ASSUME Resolved, [Next]_vars
  PROVE  Resolved'
<1> USE LabelsAreModes
<1> USE DEF Resolved, TypeOK, Running, Seen, Consumed, Rehearsed, Told, StatusTellsTheMode
<1>1. CASE UNCHANGED vars
  BY <1>1 DEF vars, look, history, Valid
<1>2. CASE Boot(FALSE) \/ Boot(TRUE)
  <2>1. Valid(dongles) \subseteq Mode
    BY DEF Valid
  <2>2. looking = 1 /\ looking' = 1 /\ matched = {} /\ matched' = {}
    BY <1>2 DEF Boot
  <2>3. Seen'
    BY <1>2, <2>2 DEF Boot, Valid
  <2>4. TypeOK'
    BY <1>2, <2>1 DEF Boot
  <2>5. QED
    BY <1>2, <2>3, <2>4 DEF Boot
<1>3. ASSUME NEW m \in Mode, LookAt(m)
      PROVE  Resolved'
  <2>1. looking \in 1..3 /\ m = Labels[looking] /\ looking' = looking + 1
    BY <1>3 DEF LookAt
  <2>2. m \in steady => m \in matched'
    BY <1>3 DEF LookAt, Valid
  <2>3. \A i \in 1..(looking' - 1) : Labels[i] \in steady' => Labels[i] \in matched'
    <3> SUFFICES ASSUME NEW i \in 1..looking, Labels[i] \in steady
                 PROVE  Labels[i] \in matched'
      BY <1>3, <2>1 DEF LookAt
    <3>1. CASE i = looking
      BY <3>1, <2>1, <2>2
    <3>2. CASE i # looking
      BY <3>2, <1>3, <2>1 DEF LookAt
    <3>3. QED
      BY <3>1, <3>2
  <2>4. matched' \subseteq ever'
    BY <1>3 DEF LookAt, Valid
  <2>5. QED
    BY <1>3, <2>1, <2>3, <2>4 DEF LookAt, history, Valid
<1>4. ASSUME NEW m \in Mode, MarkerRaises(m)
      PROVE  Resolved'
  BY <1>4 DEF MarkerRaises, EndLook, history
<1>5. CASE ConsultDongle
  <2>1. DongleOpinion(matched) # "none" => DongleOpinion(matched) \in Mode
    BY OpinionOfOne
  <2>2. mode' \in Mode \cup {"none"} /\ pc' \in {"online", "decided", "publish"}
    BY <1>5, <2>1 DEF ConsultDongle, Decide
  <2>3. looking' \in 1..(Len(Labels) + 1)
    BY <1>5 DEF ConsultDongle, EndLook
  <2>4. TypeOK'
    BY <1>5, <2>2, <2>3 DEF ConsultDongle, EndLook, history
  <2>5. IF dry THEN pc' \in {"online", "decided"} ELSE pc' \in {"online", "publish"}
    BY <1>5 DEF ConsultDongle, Decide
  <2>6. Seen'
    BY <1>5, <2>2 DEF ConsultDongle, EndLook
  <2>7. Consumed'
    BY <1>5, <2>2 DEF ConsultDongle, history
  <2>8. Rehearsed' /\ Told'
    BY <1>5, <2>2, <2>5 DEF ConsultDongle
  <2>9. QED
    BY <2>4, <2>6, <2>7, <2>8
<1>6. CASE NoOnlineSelector
  BY <1>6 DEF NoOnlineSelector, Decide, look, history, Mode
<1>7. CASE ReadRequest
  BY <1>7 DEF ReadRequest, Decide, OnlineOpinion, look, Mode
<1>8. CASE Clear
  BY <1>8 DEF Clear, Reset, look, Mode
<1>9. CASE Publish
  BY <1>9 DEF Publish, AfterStatus, look, history
<1>10. CASE PublishReset
  BY <1>10 DEF PublishReset, Reset, look, Mode
<1>11. ASSUME NEW failure \in Failures, RequestUnread(failure)
       PROVE  Resolved'
  BY <1>11 DEF RequestUnread, Decide, look, Mode
<1>12. ASSUME NEW failure \in Failures, NEW landed \in BOOLEAN, ClearFails(failure, landed)
       PROVE  Resolved'
  BY <1>12 DEF ClearFails, Reset, Leave, look, Mode
<1>13. ASSUME NEW landed \in BOOLEAN, PublishFails(landed)
       PROVE  Resolved'
  BY <1>13 DEF PublishFails, Reset, Leave, look, Mode
<1>14. CASE GoDown
  BY <1>14 DEF GoDown, look
<1>15. CASE TurnOff
  BY <1>15 DEF TurnOff, look, history
<1>16. ASSUME NEW m \in Mode, NEW slot \in Slot, Plug(m, slot)
       PROVE  Resolved'
  BY <1>16 DEF Plug, Valid, history
<1>17. ASSUME NEW value \in Mode, SetRequest(value)
       PROVE  Resolved'
  BY <1>17 DEF SetRequest, look
<1>18. CASE Crash
  BY <1>18 DEF Crash, EndLook, history
<1>19. QED
  BY <1>1, <1>2, <1>3, <1>4, <1>5, <1>6, <1>7, <1>8, <1>9, <1>10, <1>11, <1>12, <1>13,
     <1>14, <1>15, <1>16, <1>17, <1>18
     DEF Next, Resolve, Trouble, Cycle, People

\* The inductive invariant of the resolution (mode.py:142-210).
THEOREM ResolvedInvariant == Spec => []Resolved
  BY ResolvedInit, ResolvedStep, PTL DEF Spec

\* The state of a resolution keeps its types.
THEOREM TypeCorrect == Spec => []TypeOK
<1>1. Resolved => TypeOK
  BY DEF Resolved
<1>2. QED
  BY <1>1, ResolvedInvariant, PTL

\* The status published is the mode of the boot, unless a call failed
\* (mode.py:189-210).
THEOREM StatusTold == Spec => []StatusTellsTheMode
<1>1. Resolved => StatusTellsTheMode
  BY DEF Resolved, Told
<1>2. QED
  BY <1>1, ResolvedInvariant, PTL

\* No Emergency without its dongle, alone in all the time of the look
\* (dongle.py:38-57, mode.py:154-184).
THEOREM EmergencySafe == Spec => EmergencyNeedsItsDongle
<1> DEFINE Backed == mode' = "emergency" /\ mode # "emergency" =>
                       "emergency" \in ever /\ steady \subseteq {"emergency"}
<1>1. Resolved /\ [Next]_vars => [Backed]_vars
  <2> SUFFICES ASSUME Resolved, Next, mode' = "emergency", mode # "emergency"
               PROVE  "emergency" \in ever /\ steady \subseteq {"emergency"}
    BY DEF vars
  <2>1. ConsultDongle
    BY DEF Next, Resolve, Trouble, Cycle, People, Boot, LookAt, MarkerRaises, NoOnlineSelector,
           ReadRequest, OnlineOpinion, Decide, RequestUnread, Clear, ClearFails, Publish,
           PublishReset, PublishFails, GoDown, TurnOff, Plug, SetRequest, Crash
  <2>2. DongleOpinion(matched) = "emergency" /\ pc = "dongle" /\ looking > Len(Labels)
    BY <2>1 DEF ConsultDongle, Decide
  <2>3. matched = {"emergency"}
    BY <2>2, OpinionOfOne DEF Resolved, TypeOK
  <2>4. steady \subseteq matched
    <3> SUFFICES ASSUME NEW m \in steady PROVE m \in matched
      OBVIOUS
    <3>1. PICK i \in 1..3 : Labels[i] = m
      BY LabelsAreModes DEF Resolved, TypeOK
    <3>2. i \in 1..(looking - 1)
      BY <2>2, LabelsAreModes DEF Resolved, TypeOK
    <3>3. QED
      BY <2>2, <3>1, <3>2 DEF Resolved, Seen
  <2>5. QED
    BY <2>3, <2>4 DEF Resolved, Seen
<1>2. QED
  BY <1>1, ResolvedInvariant, PTL DEF Spec, EmergencyNeedsItsDongle

\* A request is acted on twice only after a call failed (mode.py:173-183).
THEOREM OneShot == Spec => LabIsOneShot
<1>1. Resolved /\ [Next]_vars => [stale' /\ ~stale => trouble]_vars
  <2> SUFFICES ASSUME Resolved, Next, stale', ~stale
               PROVE  trouble
    BY DEF vars
  <2>1. GoDown
    BY DEF Next, Resolve, Trouble, Cycle, People, Boot, LookAt, MarkerRaises, ConsultDongle,
           NoOnlineSelector, ReadRequest, RequestUnread, Clear, ClearFails, Publish, PublishReset,
           PublishFails, TurnOff, Plug, SetRequest, Crash, Reset, Leave, history
  <2>2. QED
    BY <2>1 DEF GoDown, Resolved, Consumed, TypeOK
<1>2. QED
  BY <1>1, ResolvedInvariant, PTL DEF Spec, LabIsOneShot

\* A rehearsal writes nothing (mode.py:174, 195-198).
THEOREM RehearsalSafe == Spec => RehearsalWritesNothing
<1>1. Resolved /\ [Next]_vars => [dry /\ pc' # pc => request' = request /\ status' = status]_vars
  <2> SUFFICES ASSUME Resolved, Next, dry, pc' # pc
               PROVE  request' = request /\ status' = status
    BY DEF vars
  <2>1. pc \notin {"clear", "publish", "reset"}
    BY DEF Resolved, Rehearsed
  <2>2. QED
    BY <2>1 DEF Next, Resolve, Trouble, Cycle, People, Boot, LookAt, MarkerRaises, ConsultDongle,
           NoOnlineSelector, ReadRequest, RequestUnread, Clear, ClearFails, Publish, PublishReset,
           PublishFails, GoDown, TurnOff, Plug, SetRequest, Crash
<1>2. QED
  BY <1>1, ResolvedInvariant, PTL DEF Spec, RehearsalWritesNothing

-----------------------------------------------------------------------------
(* The promise. *)

\* A boot has a mode from its decision to its end, and comes to the reset of a
\* request with one that was acted on, or over MQTT.
Chooses ==
  /\ mode # "none" <=> pc \in {"clear", "publish", "reset", "decided"}
  /\ pc = "clear" => mode = "lab"

LEMMA ChoosesInit == Init => Chooses
BY DEF Init, NoLook, Chooses

LEMMA ChoosesStep ==
  ASSUME Resolved, Chooses, [Next]_vars
  PROVE  Chooses'
<1> USE DEF Resolved, TypeOK, Chooses
<1>1. CASE ConsultDongle
  <2>1. DongleOpinion(matched) # "none" => DongleOpinion(matched) \in Mode
    BY OpinionOfOne
  <2>2. QED
    BY <1>1, <2>1 DEF ConsultDongle, Decide, EndLook, Mode
<1>2. CASE ~ConsultDongle
  BY <1>2 DEF Next, Resolve, Trouble, Cycle, People, Boot, LookAt, MarkerRaises, EndLook,
              NoOnlineSelector, ReadRequest, OnlineOpinion, Decide, RequestUnread, Clear,
              ClearFails, Failures, Publish, AfterStatus, PublishReset, PublishFails, GoDown,
              TurnOff, Plug, SetRequest, Crash, Running, vars, look, Mode
<1>3. QED
  BY <1>1, <1>2

LEMMA ChoosesInvariant == Spec => []Chooses
BY ChoosesInit, ChoosesStep, ResolvedInvariant, PTL DEF Spec

\* Before anything is plugged in or asked for there is nothing to keep.
LEMMA PromiseInit == Init => Promise!Init
<1> SUFFICES ASSUME Init PROVE Promise!Init
  OBVIOUS
<1>1. Asked = "none" /\ Chosen = "none" /\ Keys = {}
  BY DEF Init, Asked, Chosen, Keys
<1>2. (online # "none") \in BOOLEAN /\ (trouble /\ ~dry) = FALSE
  BY DEF Init
<1>3. QED
  BY <1>1, <1>2 DEF Init, Promise!Init

\* Whatever is decided by a dongle is decided by one of the keys.
LEMMA KeyOfOpinion ==
  ASSUME Resolved, ConsultDongle, DongleOpinion(matched) # "none"
  PROVE  DongleOpinion(matched) \in Keys /\ DongleOpinion(matched) \in Mode
<1> DEFINE m == DongleOpinion(matched)
<1>1. matched = {m} /\ m \in Mode
  BY OpinionOfOne DEF Resolved, TypeOK
<1>2. pc = "dongle" /\ looking > Len(Labels)
  BY DEF ConsultDongle
<1> HIDE DEF m
<1>3. steady \subseteq matched
  <2> SUFFICES ASSUME NEW n \in steady PROVE n \in matched
    OBVIOUS
  <2>1. PICK i \in 1..3 : Labels[i] = n
    BY LabelsAreModes DEF Resolved, TypeOK
  <2>2. i \in 1..(looking - 1)
    BY <1>2, LabelsAreModes DEF Resolved, TypeOK
  <2>3. QED
    BY <1>2, <2>1, <2>2 DEF Resolved, Seen
<1>4. m \in ever /\ steady \subseteq {m}
  BY <1>1, <1>3 DEF Resolved, Seen
<1>5. QED
  BY <1>1, <1>2, <1>4 DEF Keys, m

LEMMA KeysAreModes == Resolved' => Keys' \subseteq Promise!Mode
BY DEF Resolved, TypeOK, Keys, Mode, Promise!Mode

\* A step of the look, of the dongles and of a boot that comes to nothing.
LEMMA PromiseUndecided ==
  ASSUME Resolved, Resolved', Chooses, [Next]_vars,
         UNCHANGED <<online, request, status, dry, mode, unanswered, trouble>>
  PROVE  Promise!Plug
<1>1. Asked' = Asked /\ Chosen' = Chosen /\ Keys' \subseteq Promise!Mode
  BY KeysAreModes DEF Asked, Chosen
<1>2. QED
  BY <1>1 DEF Promise!Plug

LEMMA PromiseStep ==
  ASSUME Resolved, Resolved', Chooses, Chooses', [Next]_vars
  PROVE  [Promise!Next]_(Promise!promise)
<1> USE DEF Chooses, Promise!Next
<1>0. Resolved => TypeOK
  BY DEF Resolved
<1>1. CASE UNCHANGED <<online, request, status, dry, mode, unanswered, trouble>>
  BY <1>1, PromiseUndecided
<1>2. CASE Boot(FALSE) \/ Boot(TRUE)
  <2>1. /\ Chosen = "none" /\ Chosen' = "none" /\ Asked' = Asked
        /\ (trouble /\ ~dry)' = FALSE
        /\ Keys' \subseteq Promise!Mode
    BY <1>2, KeysAreModes DEF Boot, Chosen, Asked
  <2>2. Promise!Begin
    BY <1>2, <2>1 DEF Boot, Promise!Begin
  <2>3. QED
    BY <2>2
<1>3. CASE ConsultDongle
  <2>1. CASE DongleOpinion(matched) = "none"
    BY <1>1, <1>3, <2>1 DEF ConsultDongle, history
  <2>2. CASE DongleOpinion(matched) # "none" /\ dry
    <3>1. /\ Chosen' = Chosen /\ Asked' = Asked /\ Keys' \subseteq Promise!Mode
          /\ UNCHANGED <<online, status, dry, trouble>>
      BY <1>3, <2>2, KeysAreModes DEF ConsultDongle, Chosen, Asked, history
    <3>2. QED
      BY <3>1 DEF Promise!Plug
  <2>3. CASE DongleOpinion(matched) # "none" /\ ~dry
    <3> DEFINE m == DongleOpinion(matched)
    <3>1. m \in Keys /\ m \in Promise!Mode
      BY <1>3, <2>3, KeyOfOpinion DEF Mode, Promise!Mode
    <3>2. /\ Chosen = "none" /\ Chosen' = m /\ ~unanswered
          /\ UNCHANGED <<online, request, status, dry, unanswered, trouble>>
          /\ Keys' = {}
      BY <1>3, <2>3 DEF ConsultDongle, Decide, Chosen, Resolved, Consumed, history, Keys
    <3>3. Asked' = Asked
      BY <3>2 DEF Asked
    <3>4. Promise!Decide(m)
      BY <3>1, <3>2, <3>3 DEF Promise!Decide
    <3>5. QED
      BY <3>1, <3>4
  <2>4. QED
    BY <2>1, <2>2, <2>3
<1>4. ASSUME Chosen = "none", Chosen' = "replication", Asked' = Asked,
             ~trouble \/ trouble', pc = "online", pc' # "dongle", UNCHANGED <<online, status, dry>>
      PROVE  Promise!Next
  <2>1. Promise!Decide("replication") /\ "replication" \in Promise!Mode
    BY <1>4 DEF Promise!Decide, Promise!Mode, Keys
  <2>2. QED
    BY <2>1
<1>5. CASE NoOnlineSelector
  <2>1. CASE dry
    BY <1>5, <2>1 DEF NoOnlineSelector, Decide, Chosen, Asked, Keys, history, Promise!promise
  <2>2. CASE ~dry
    BY <1>4, <1>5, <2>2 DEF NoOnlineSelector, Decide, Chosen, Asked, history, Resolved, Consumed
  <2>3. QED
    BY <2>1, <2>2
<1>6. CASE ReadRequest
  <2>1. CASE dry
    <3>1. Chosen' = Chosen /\ Asked' = Asked /\ Keys' = Keys
      BY <1>6, <2>1 DEF ReadRequest, Decide, Chosen, Asked, Keys, look
    <3>2. QED
      BY <1>6, <2>1, <3>1 DEF ReadRequest, Promise!promise
  <2>2. CASE ~dry /\ OnlineOpinion(request) = "none"
    <3>1. ~unanswered /\ ~unanswered'
      BY <1>6, <2>2 DEF ReadRequest, Resolved, Consumed
    <3>2. QED
      BY <1>4, <1>6, <2>2, <3>1 DEF ReadRequest, Decide, Chosen, Asked
  <2>3. CASE ~dry /\ OnlineOpinion(request) # "none"
    <3>1. /\ Chosen = "none" /\ Chosen' = "lab" /\ Keys' = {}
          /\ Asked = "open" /\ Asked' = "held"
          /\ UNCHANGED <<online, status, dry, trouble>>
      BY <1>6, <2>3 DEF ReadRequest, OnlineOpinion, Chosen, Asked, Keys, Resolved, Consumed
    <3>2. Promise!Decide("lab") /\ "lab" \in Promise!Mode
      BY <3>1 DEF Promise!Decide, Promise!Mode
    <3>3. QED
      BY <3>2
  <2>4. QED
    BY <2>1, <2>2, <2>3
<1>7. ASSUME NEW failure \in Failures, RequestUnread(failure)
      PROVE  [Promise!Next]_(Promise!promise)
  <2>1. /\ pc = "online" /\ mode = "none" /\ trouble' /\ pc' # "dongle" /\ ~unanswered
        /\ UNCHANGED <<online, request, status, dry, look, unanswered>>
    BY <1>7 DEF RequestUnread, Decide, Resolved, Consumed
  <2>2. CASE dry
    BY <2>1, <2>2 DEF Chosen, Asked, Keys, Promise!promise
  <2>3. CASE ~dry /\ failure = "raises"
    <3>1. mode' = mode
      BY <1>7, <2>3 DEF RequestUnread
    <3>2. Promise!Fail
      BY <2>1, <2>3, <3>1 DEF Chosen, Asked, Keys, Promise!Fail
    <3>3. QED
      BY <3>2
  <2>4. CASE ~dry /\ failure # "raises"
    <3>1. mode' = "replication"
      BY <1>7, <2>4 DEF RequestUnread, Decide
    <3>2. QED
      BY <1>4, <2>1, <2>4, <3>1 DEF Chosen, Asked
  <2>5. QED
    BY <2>2, <2>3, <2>4
\* What a decided boot writes, well or badly.
<1>8. ASSUME pc \in {"clear", "publish", "reset"}, mode' = mode, pc' # "dongle",
             Reset \/ Leave, status' \in {status, mode}, trouble' \in {trouble, TRUE},
             UNCHANGED <<online, dry, look>>
      PROVE  [Promise!Next]_(Promise!promise)
  <2>1. ~dry /\ mode # "none"
    BY <1>8 DEF Resolved, Rehearsed
  <2>2. /\ Chosen = mode /\ Chosen' = Chosen /\ Keys = {} /\ Keys' = {}
        /\ Asked' \in {Asked, "none"}
    BY <1>8, <2>1 DEF Chosen, Keys, Asked, Reset, Leave
  <2>3. (trouble /\ ~dry)' \in {(trouble /\ ~dry), TRUE}
    <3>1. CASE trouble' = trouble
      BY <1>8, <3>1
    <3>2. CASE trouble' = TRUE
      BY <1>8, <2>1, <3>2
    <3>3. QED
      BY <1>8, <3>1, <3>2
  <2>4. Promise!Write
    BY <1>8, <2>1, <2>2, <2>3 DEF Promise!Write
  <2>5. QED
    BY <2>4
<1>9. CASE Clear \/ Publish \/ PublishReset
  <2>1. CASE Clear \/ PublishReset
    BY <1>8, <2>1 DEF Clear, PublishReset
  <2>2. CASE Publish
    BY <1>8, <2>2 DEF Publish, AfterStatus, Leave, history
  <2>3. QED
    BY <1>9, <2>1, <2>2
<1>10. ASSUME NEW landed \in BOOLEAN, PublishFails(landed)
       PROVE  [Promise!Next]_(Promise!promise)
  <2>1. pc \in {"publish", "reset"} /\ status' \in {status, mode} /\ (Reset \/ Leave)
    BY <1>10 DEF PublishFails
  <2>2. QED
    BY <1>8, <1>10, <2>1 DEF PublishFails
<1>11. ASSUME NEW failure \in Failures, NEW landed \in BOOLEAN, ClearFails(failure, landed)
       PROVE  [Promise!Next]_(Promise!promise)
  <2>1. /\ pc = "clear" /\ trouble' /\ (Reset \/ Leave)
        /\ UNCHANGED <<online, status, dry, look>>
    BY <1>11 DEF ClearFails
  <2>2. CASE failure # "raises"
    BY <1>8, <1>11, <2>1, <2>2 DEF ClearFails
  <2>3. CASE failure = "raises"
    <3>1. mode' = "none" /\ pc' = "aborted" /\ mode = "lab" /\ ~dry
      BY <1>11, <2>1, <2>3 DEF ClearFails, Resolved, Rehearsed
    <3>2. /\ Chosen = "lab" /\ Chosen' = "none" /\ Keys = {} /\ Keys' = {}
          /\ Asked' = "none" \/ Asked' = IF Asked = "held" THEN "open" ELSE Asked
      BY <2>1, <3>1 DEF Chosen, Keys, Asked, Reset, Leave
    <3>3. Promise!Drop
      BY <2>1, <3>1, <3>2 DEF Promise!Drop
    <3>4. QED
      BY <3>3
  <2>4. QED
    BY <2>2, <2>3
\* The end of a boot, and of one that did not come to its end.
<1>12. ASSUME pc' \notin {"dongle"}, mode' = "none", mode # "none", ~dry,
              UNCHANGED <<online, request, status, dry, unanswered, trouble>>
       PROVE  /\ Chosen = mode /\ Chosen' = "none" /\ Keys = {} /\ Keys' = {}
              /\ Asked' = IF Asked = "held" THEN "open" ELSE Asked
  BY <1>12 DEF Chosen, Keys, Asked
<1>13. CASE GoDown
  <2>1. /\ pc = "decided" /\ mode # "none" /\ mode' = "none" /\ pc' = "off"
        /\ UNCHANGED <<online, request, status, dry, unanswered, trouble>>
    BY <1>13 DEF GoDown
  <2>2. CASE dry
    BY <2>1, <2>2 DEF Chosen, Asked, Keys, Promise!promise
  <2>3. CASE ~dry
    <3>1. /\ Asked = "held" => trouble
          /\ online # "none" => status = mode \/ trouble
      BY <2>1, <2>3 DEF Asked, Resolved, Consumed, Told, StatusTellsTheMode
    <3>2. Promise!End
      BY <1>12, <2>1, <2>3, <3>1 DEF Promise!End
    <3>3. QED
      BY <3>2
  <2>4. QED
    BY <2>2, <2>3
<1>14. CASE Crash
  <2>1. /\ mode' = "none" /\ pc' = "off"
        /\ UNCHANGED <<online, request, status, dry, unanswered, trouble>>
    BY <1>14 DEF Crash, history
  <2>2. CASE mode = "none"
    BY <1>1, <2>1, <2>2
  <2>3. CASE dry
    <3>1. Chosen' = Chosen /\ Asked' = Asked /\ Keys' \subseteq Promise!Mode
      BY <2>1, <2>3, KeysAreModes DEF Chosen, Asked
    <3>2. Promise!Plug
      BY <2>1, <3>1 DEF Promise!Plug
    <3>3. QED
      BY <3>2
  <2>4. CASE mode # "none" /\ ~dry
    <3>1. Promise!Drop
      BY <1>12, <2>1, <2>4 DEF Promise!Drop
    <3>2. QED
      BY <3>1
  <2>5. QED
    BY <2>2, <2>3, <2>4
<1>15. ASSUME NEW value \in Mode, SetRequest(value)
       PROVE  [Promise!Next]_(Promise!promise)
  <2>1. /\ Chosen' = Chosen /\ Keys' = Keys /\ Asked' \in {"none", "open"}
        /\ online # "none" /\ UNCHANGED <<online, status, dry, trouble>>
    BY <1>15 DEF SetRequest, Chosen, Keys, Asked, look
  <2>2. Promise!Ask
    BY <2>1 DEF Promise!Ask
  <2>3. QED
    BY <2>2
<1>16. CASE \/ UNCHANGED vars \/ TurnOff
            \/ \E m \in Mode : LookAt(m) \/ MarkerRaises(m)
            \/ \E m \in Mode, slot \in Slot : Plug(m, slot)
  BY <1>1, <1>16 DEF vars, history, TurnOff, LookAt, MarkerRaises, Plug
<1>17. QED
  BY <1>2, <1>3, <1>5, <1>6, <1>7, <1>9, <1>10, <1>11, <1>13, <1>14, <1>15, <1>16
     DEF Next, Resolve, Trouble, Cycle, People

\* A resolution keeps its promise to the owner of the switch and to the operator,
\* whatever fails, is swapped, overwritten or cut off (mode.py:142-210).
THEOREM PromiseKept == Spec => ImplementsBootPromise
  BY PromiseInit, PromiseStep, ResolvedInvariant, ChoosesInvariant, PTL
     DEF Spec, ImplementsBootPromise, Promise!Spec

\* Where the request is an input_select, whatever a resolution takes back it has
\* acted on: it is publish_result over MQTT alone that does not keep to
\* mqtt_ha.py:169 (home_assistant.py:46-66).
THEOREM RestSafe == Spec => RestResetsWhatItActedOn
<1> DEFINE ActedOn == online = "rest" /\ request = "lab" /\ request' # "lab" /\ pc' # pc
                        => mode = "lab"
<1>1. Resolved /\ Chooses /\ [Next]_vars => [ActedOn]_vars
  <2> SUFFICES ASSUME Resolved, Chooses, Next,
                      online = "rest", request = "lab", request' # "lab", pc' # pc
               PROVE  mode = "lab"
    BY DEF vars
  <2>1. pc # "reset"
    BY DEF Resolved, Told
  <2>2. pc = "clear"
    BY <2>1
       DEF Next, Resolve, Trouble, Cycle, People, Boot, LookAt, MarkerRaises, ConsultDongle,
           NoOnlineSelector, ReadRequest, RequestUnread, Clear, ClearFails, Publish, PublishReset,
           PublishFails, Leave, GoDown, TurnOff, Plug, SetRequest, Crash
  <2>3. QED
    BY <2>2 DEF Chooses
<1>2. QED
  BY <1>1, ResolvedInvariant, ChoosesInvariant, PTL DEF Spec, RestResetsWhatItActedOn

-----------------------------------------------------------------------------
(* The quiet time. *)

\* The quiet time takes steps away and adds none, so all of the above holds of the
\* specification that TLC checks, too.
THEOREM CalmIsSpec == CalmSpec => Spec
<1>1. CalmInit => Init
  BY DEF CalmInit
<1>2. [CalmNext]_<<vars, calm>> => [Next]_vars
  BY DEF CalmNext, Settle, Next, Cycle
<1>3. QED
  BY <1>1, <1>2, PTL DEF CalmSpec, Spec

\* Without a switch nobody has asked for anything.
Switchless == online = "none" => request = "replication"

LEMMA SwitchlessInvariant == Spec => []Switchless
<1>1. Init => Switchless
  BY DEF Init, Switchless
<1>2. TypeOK /\ Switchless /\ [Next]_vars => Switchless'
  BY DEF TypeOK, Switchless, vars, history, Next, Resolve, Trouble, Cycle, People, Boot, LookAt,
         MarkerRaises, ConsultDongle, NoOnlineSelector, ReadRequest, RequestUnread, Clear,
         ClearFails, Publish, PublishReset, PublishFails, Reset, Leave, GoDown, TurnOff, Plug,
         SetRequest, Crash
<1>3. QED
  BY <1>1, <1>2, TypeCorrect, PTL DEF Spec

\* With no dongle in, a boot of the quiet time has found none, and has decided for
\* Replication only over a switch that was not at Lab and is not since.
Attentive ==
  /\ calm /\ Recognised
  /\ dongles = [m \in Mode |-> "nothing"]
  /\ matched = {}
  /\ mode = "replication" => request # "lab"

LEMMA AttentiveStep ==
  ASSUME TypeOK, Chooses, Switchless, Attentive, [CalmNext]_<<vars, calm>>
  PROVE  Attentive'
<1> USE DEF Attentive
<1>1. calm' /\ Recognised' /\ (Resolve \/ Cycle \/ UNCHANGED vars)
  <2>1. calm' /\ (Resolve \/ Cycle \/ UNCHANGED vars)
    BY DEF CalmNext, Settle
  <2>2. online' = online
    BY <2>1 DEF vars, Resolve, Cycle, Boot, LookAt, MarkerRaises, ConsultDongle, NoOnlineSelector,
           ReadRequest, Clear, Publish, PublishReset, GoDown, TurnOff
  <2>3. QED
    BY <2>1, <2>2 DEF Recognised
<1>2. CASE UNCHANGED vars
  BY <1>1, <1>2 DEF vars, look
<1>3. CASE Cycle
  BY <1>1, <1>3 DEF Cycle, Boot, GoDown, TurnOff, look
<1>4. ASSUME NEW m \in Mode, LookAt(m) \/ MarkerRaises(m)
      PROVE  Attentive'
  BY <1>1, <1>4 DEF LookAt, MarkerRaises, EndLook
<1>5. CASE ConsultDongle
  <2>1. Cardinality({}) = 0
    BY FS_EmptySet
  <2>2. DongleOpinion(matched) = "none"
    BY <2>1 DEF DongleOpinion
  <2>3. QED
    BY <1>1, <1>5, <2>2 DEF ConsultDongle, EndLook
<1>6. CASE NoOnlineSelector
  BY <1>1, <1>6 DEF NoOnlineSelector, Switchless, look
<1>7. CASE ReadRequest
  BY <1>1, <1>7 DEF ReadRequest, OnlineOpinion, Decide, look
<1>8. CASE Clear \/ Publish \/ PublishReset
  BY <1>1, <1>8 DEF Clear, Publish, PublishReset, Reset, look
<1>9. QED
  BY <1>1, <1>2, <1>3, <1>4, <1>5, <1>6, <1>7, <1>8 DEF Resolve

\* A request that stands when a boot of the quiet time begins is not overlooked by
\* it, which is the half of LabHonoured that needs no fairness
\* (selectors/__init__.py:42-54, mode.py:154-184).
THEOREM NothingOverlooked == CalmSpec => NoRequestOverlooked
<1> DEFINE Rest == calm /\ Recognised /\ pc = "off" /\ dongles = [m \in Mode |-> "nothing"]
<1>1. Resolved /\ Chooses /\ Rest => Attentive
  BY DEF Resolved, Seen, Chooses, Attentive
<1>2. TypeOK /\ Chooses /\ Switchless /\ Attentive /\ [CalmNext]_<<vars, calm>> => Attentive'
  BY AttentiveStep
<1>3. Attentive => (mode = "replication" => request # "lab")
  BY DEF Attentive
<1>4. QED
  BY <1>1, <1>2, <1>3, CalmIsSpec, TypeCorrect, ResolvedInvariant, ChoosesInvariant,
     SwitchlessInvariant, PTL DEF NoRequestOverlooked, CalmSpec
=============================================================================
