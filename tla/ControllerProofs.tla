-------------------------- MODULE ControllerProofs --------------------------
(***************************************************************************)
(* Proofs about Controller that need nothing of the broker: they hold for  *)
(* any number of processes side by side, any settings, and whatever the    *)
(* connections do.                                                         *)
(***************************************************************************)
EXTENDS Controller, TLAPS

ProcessTypeOK ==
  /\ pc \in [Proc -> Stages]
  /\ run \in [Proc -> Runs]
  /\ mode \in [Proc -> Mode]
  /\ rc \in [Proc -> {0, 1}]
  /\ \A f \in {worked, asked, stopped} : f \in [Proc -> BOOLEAN]

\* Someone has to have lifted the mask, and some refresh to have ended badly.
Guarded == (~masked => exposed) /\ (onboot => spoilt)

\* The mask and the flag change together with what is remembered of them.
LEMMA GuardedStep ==
  ASSUME Guarded, [Next]_vars
  PROVE  Guarded'
<1> USE DEF Guarded
<1>1. CASE UNCHANGED <<masked, onboot, exposed, spoilt>>
  BY <1>1
<1>2. ASSUME NEW p \in Proc, Advance(p)
      PROVE  Guarded'
  <2>1. CASE EnforcePveGuestsMasked(p)
    BY <2>1 DEF EnforcePveGuestsMasked
  <2>2. CASE Work(p)
    BY <2>2 DEF Work, RefreshLeaves
  <2>3. CASE ~EnforcePveGuestsMasked(p) /\ ~Work(p)
    BY <1>1, <1>2, <2>3
       DEF Advance, PresenceStart, ResolveLocally, Answered, AskBroker, OpenToWrite, Transmit,
           Written, WriteRaises, After, StopPresence, Drain, Exit, node, history
  <2>4. QED
    BY <2>1, <2>2, <2>3
<1>3. ASSUME NEW P, NEW flushed, NEW left, Die(P, flushed, left)
      PROVE  Guarded'
  BY <1>3 DEF Die, RefreshLeaves
<1>4. ASSUME NEW p \in Proc, Fault(p)
      PROVE  Guarded'
  <2>1. ASSUME NEW left \in BOOLEAN, WorkFails(p, left)
        PROVE  Guarded'
    BY <2>1 DEF WorkFails, RefreshLeaves
  <2>2. CASE PoweroffFails(p)
    BY <2>2 DEF PoweroffFails, RefreshLeaves
  <2>3. QED
    BY <1>1, <1>3, <1>4, <2>1, <2>2
       DEF Fault, MaskFails, PresenceFails, SelectorUnavailable, ResolveRaises, Kill, node, history
<1>5. CASE Unmask
  BY <1>5 DEF Unmask
<1>6. QED
  BY <1>1, <1>2, <1>3, <1>4, <1>5
     DEF Next, Disturbance, Online, Sigterm, Boot, ByHand, Start, PowerLoss, PowerDown, Settle,
         vars, node, history

\* Whatever is killed, unmasked or run by hand, however many processes interleave and
\* whichever guests a refresh passes over, guests start behind the controller's
\* back only after both faults.
THEOREM ShadowSafe == Spec => ShadowNeedsTwoFaults
<1>1. Init => Guarded
  BY DEF Init, Guarded
<1>2. Guarded /\ [Next]_vars => [StartAll => exposed /\ spoilt]_vars
  BY DEF Guarded, StartAll
<1>3. QED
  BY <1>1, <1>2, GuardedStep, PTL DEF Spec, ShadowNeedsTwoFaults

-----------------------------------------------------------------------------
(* How a process comes to its end. *)

\* Exit status 0 is given for a mode that ended well, and an exit with a
\* presence has its reason long before it comes to it.
Accounted(p) ==
  /\ rc[p] = 0 => worked[p]
  /\ pc[p] = "after" => /\ ~run[p].replicate_now
                        /\ rc[p] = 0 /\ Restoring(p) /\ PowersOff(run[p]) => asked[p]
  /\ pc[p] \in {"stop", "drain"} => asked[p] \/ stopped[p]
  /\ pc[p] = "exit" /\ HasPresence(run[p]) /\ Accepted(run[p]) /\ ~run[p].replicate_now =>
       asked[p] \/ stopped[p]

InOrder == ProcessTypeOK /\ \A p \in Proc : Accounted(p)

\* A process that is left alone stays accounted for.
LEMMA AccountedUntouched ==
  ASSUME NEW q, Accounted(q),
         pc'[q] = pc[q], run'[q] = run[q], mode'[q] = mode[q], rc'[q] = rc[q],
         worked'[q] = worked[q], asked'[q] = asked[q], stopped'[q] = stopped[q]
  PROVE  Accounted(q)'
BY DEF Accounted, Restoring

\* A process that is gone has nothing to account for.
LEMMA AccountedForget ==
  ASSUME InOrder, NEW P \in SUBSET Proc, Forget(P)
  PROVE  InOrder'
<1> USE DEF InOrder, ProcessTypeOK
<1>1. pc' \in [Proc -> Stages] /\ rc' \in [Proc -> {0, 1}]
  BY DEF Forget, Stages
<1>2. mode' \in [Proc -> Mode]
  BY DEF Forget, Mode
<1>3. /\ worked' \in [Proc -> BOOLEAN] /\ asked' \in [Proc -> BOOLEAN]
      /\ stopped' \in [Proc -> BOOLEAN]
  BY DEF Forget
<1>4. run' \in [Proc -> Runs]
  <2>1. \A p \in P : AnyRun \in Runs
    <3>1. SUFFICES ASSUME NEW p \in P PROVE Runs # {}
      BY DEF AnyRun
    <3>2. QED
      BY run[p] \in Runs
  <2>2. QED
    BY <2>1 DEF Forget
<1>5. ASSUME NEW q \in Proc
      PROVE  Accounted(q)'
  <2>1. CASE q \in P
    <3>1. pc'[q] = "none" /\ rc'[q] = 1
      BY <2>1 DEF Forget
    <3>2. QED
      BY <3>1 DEF Accounted
  <2>2. CASE q \notin P
    <3>1. /\ pc'[q] = pc[q] /\ run'[q] = run[q] /\ mode'[q] = mode[q] /\ rc'[q] = rc[q]
      BY <2>2 DEF Forget
    <3>2. worked'[q] = worked[q] /\ asked'[q] = asked[q] /\ stopped'[q] = stopped[q]
      BY <2>2 DEF Forget
    <3>3. QED
      BY <3>1, <3>2, AccountedUntouched
  <2>3. QED
    BY <2>1, <2>2
<1>6. QED
  BY <1>1, <1>2, <1>3, <1>4, <1>5

\* No process, nothing to account for.
LEMMA InOrderInit == Init => InOrder
<1> SUFFICES ASSUME Init PROVE InOrder
  OBVIOUS
<1>1. AnyRun \in Runs
  BY RunsAssumption DEF AnyRun
<1>2. ProcessTypeOK
  BY <1>1 DEF Init, Fresh, ProcessTypeOK, Stages, Mode
<1>3. QED
  BY <1>2 DEF Init, Fresh, InOrder, Accounted

\* A step of one process p.
LEMMA InOrderOne ==
  ASSUME InOrder, NEW p \in Proc, ProcessTypeOK', Accounted(p)',
         \A q \in Proc : q # p =>
           /\ pc'[q] = pc[q] /\ run'[q] = run[q] /\ mode'[q] = mode[q] /\ rc'[q] = rc[q]
           /\ worked'[q] = worked[q] /\ asked'[q] = asked[q] /\ stopped'[q] = stopped[q]
  PROVE  InOrder'
BY AccountedUntouched DEF InOrder

\* A step of p in main() up to the mode being run.
LEMMA InOrderGoto ==
  ASSUME InOrder, NEW p \in Proc, NEW s, Goto(p, s), mode' \in [Proc -> Mode],
         s \in Stages \ {"after", "stop", "drain", "exit"},
         \A q \in Proc : q # p => mode'[q] = mode[q],
         UNCHANGED <<run, rc, worked, asked, stopped>>
  PROVE  InOrder'
<1> USE DEF InOrder, ProcessTypeOK
<1>1. ProcessTypeOK'
  BY DEF Goto
<1>2. pc'[p] = s /\ \A q \in Proc : q # p => pc'[q] = pc[q]
  BY DEF Goto
<1>3. Accounted(p)'
  BY <1>2 DEF Accounted
<1>4. QED
  BY <1>1, <1>2, <1>3, InOrderOne

\* An exception out of a process that is not yet at its end.
LEMMA InOrderRaise ==
  ASSUME InOrder, NEW p \in Proc, Raise(p), mode' \in [Proc -> Mode],
         \A q \in Proc : q # p => mode'[q] = mode[q],
         UNCHANGED <<run, worked, asked, stopped>>
  PROVE  InOrder'
<1> USE DEF InOrder, ProcessTypeOK
<1>1. ProcessTypeOK'
  BY DEF Raise, Goto, Stages
<1>2. /\ rc'[p] = 1
      /\ pc'[p] = IF run[p].replicate_now THEN "exit" ELSE "after"
      /\ \A q \in Proc : q # p => pc'[q] = pc[q] /\ rc'[q] = rc[q]
  BY DEF Raise, Goto
<1>3. Accounted(p)'
  BY <1>2 DEF Accounted
<1>4. QED
  BY <1>1, <1>2, <1>3, InOrderOne

\* The steps of main().
LEMMA InOrderAdvance ==
  ASSUME InOrder, NEW p \in Proc, Advance(p)
  PROVE  InOrder'
<1> USE DEF InOrder, ProcessTypeOK
<1>1. CASE EnforcePveGuestsMasked(p)
  BY <1>1, InOrderGoto DEF EnforcePveGuestsMasked, AfterMask, Stages
<1>2. CASE PresenceStart(p)
  BY <1>2, InOrderGoto DEF PresenceStart, Stages, history
<1>3. ASSUME NEW m \in Mode, ResolveLocally(p, m) \/ Answered(p, m)
      PROVE  InOrder'
  <2>1. /\ mode' \in [Proc -> Mode]
        /\ \A q \in Proc : q # p => mode'[q] = mode[q]
    BY <1>3 DEF ResolveLocally, Answered, Decide
  <2>2. UNCHANGED <<run, rc, worked, asked, stopped>>
    BY <1>3 DEF ResolveLocally, Answered, history
  <2>3. \E s \in {"clear", "publish", "work"} : Goto(p, s)
    BY <1>3 DEF ResolveLocally, Answered, AfterDecision
  <2>4. QED
    BY <2>1, <2>2, <2>3, InOrderGoto DEF Stages
<1>4. CASE AskBroker(p)
  BY <1>4, InOrderGoto DEF AskBroker, Stages, history
<1>5. CASE OpenToWrite(p) \/ Transmit(p)
  BY <1>5, AccountedUntouched DEF OpenToWrite, Transmit, process, history
<1>6. CASE Written(p)
  BY <1>6, InOrderGoto DEF Written, AfterWrite, Stages, history
<1>7. CASE WriteRaises(p)
  <2>1. mode' \in [Proc -> Mode] /\ \A q \in Proc : q # p => mode'[q] = mode[q]
    BY <1>7 DEF WriteRaises, Mode
  <2>2. UNCHANGED <<run, worked, asked, stopped>>
    BY <1>7 DEF WriteRaises, history
  <2>3. Raise(p) \/ (Goto(p, "work") /\ UNCHANGED rc)
    BY <1>7 DEF WriteRaises
  <2>4. QED
    BY <2>1, <2>2, <2>3, InOrderGoto, InOrderRaise DEF Stages
<1>8. CASE Work(p)
  <2>1. pc' = [pc EXCEPT ![p] = IF run[p].replicate_now THEN "exit" ELSE "after"]
    BY <1>8 DEF Work, Goto
  <2>2. /\ rc' = [rc EXCEPT ![p] = 0]
        /\ worked' = [worked EXCEPT ![p] = TRUE]
        /\ UNCHANGED <<run, mode, stopped>>
    BY <1>8 DEF Work
  <2>3. asked' = [asked EXCEPT ![p] = Restoring(p) /\ PowersOff(run[p])]
    BY <1>8 DEF Work
  <2>4. asked' \in [Proc -> BOOLEAN]
    BY <2>3 DEF Restoring, PowersOff
  <2>5. ProcessTypeOK'
    BY <2>1, <2>2, <2>4 DEF Stages
  <2>6. Restoring(p)' = Restoring(p)
    BY <2>2 DEF Restoring
  <2>7. asked'[p] = (Restoring(p) /\ PowersOff(run[p]))
    BY <2>3
  <2>8. Accounted(p)'
    BY <2>1, <2>2, <2>6, <2>7 DEF Accounted
  <2>9. QED
    BY <2>1, <2>2, <2>3, <2>5, <2>8, InOrderOne
<1>9. CASE After(p)
  <2>1. /\ pc' = [pc EXCEPT ![p] = IF ~HasPresence(run[p]) THEN "exit"
                                    ELSE IF NodeStaysUp(p) THEN "hold" ELSE "stop"]
        /\ pc[p] = "after"
        /\ UNCHANGED <<run, mode, rc, worked, asked, stopped>>
    BY <1>9 DEF After, Goto, history
  <2>2. HasPresence(run[p]) /\ ~NodeStaysUp(p) => asked[p]
    BY <2>1 DEF Accounted, NodeStaysUp, Restoring, PowersOff
  <2>3. ProcessTypeOK'
    BY <2>1 DEF Stages
  <2>4. Accounted(p)'
    BY <2>1, <2>2 DEF Accounted
  <2>5. QED
    BY <2>1, <2>3, <2>4, InOrderOne
<1>10. CASE StopPresence(p) \/ Drain(p)
  <2>1. /\ pc[p] \in {"stop", "drain"}
        /\ pc' = [pc EXCEPT ![p] = IF pc[p] = "stop" THEN "drain" ELSE "exit"]
        /\ UNCHANGED <<run, mode, rc, worked, asked, stopped>>
    BY <1>10 DEF StopPresence, Drain, Goto, history
  <2>2. ProcessTypeOK'
    BY <2>1 DEF Stages
  <2>3. Accounted(p)'
    BY <2>1 DEF Accounted
  <2>4. QED
    BY <2>1, <2>2, <2>3, InOrderOne
<1>11. CASE Exit(p)
  BY <1>11, AccountedForget DEF Exit
<1>12. QED
  BY <1>1, <1>2, <1>3, <1>4, <1>5, <1>6, <1>7, <1>8, <1>9, <1>10, <1>11 DEF Advance

\* What goes wrong in a process.
LEMMA InOrderFault ==
  ASSUME InOrder, NEW p \in Proc, Fault(p)
  PROVE  InOrder'
<1> USE DEF InOrder, ProcessTypeOK
<1>1. CASE MaskFails(p)
  BY <1>1, InOrderGoto DEF MaskFails, AfterMask, Stages, history
<1>2. CASE PresenceFails(p)
  BY <1>2, InOrderGoto DEF PresenceFails, Stages, history
<1>3. CASE SelectorUnavailable(p)
  BY <1>3, InOrderGoto DEF SelectorUnavailable, AfterDecision, AfterWrite, Stages, history
<1>4. CASE ResolveRaises(p)
  BY <1>4, InOrderRaise DEF ResolveRaises, history
<1>5. ASSUME NEW left \in BOOLEAN, WorkFails(p, left)
      PROVE  InOrder'
  BY <1>5, InOrderRaise DEF WorkFails
<1>6. CASE PoweroffFails(p)
  <2>1. /\ pc' = [pc EXCEPT ![p] = "after"]
        /\ rc' = [rc EXCEPT ![p] = 0]
        /\ worked' = [worked EXCEPT ![p] = TRUE]
        /\ asked' = [asked EXCEPT ![p] = TRUE]
        /\ ~run[p].replicate_now
        /\ UNCHANGED <<run, mode, stopped>>
    BY <1>6 DEF PoweroffFails, PowersOff, Goto
  <2>2. ProcessTypeOK'
    BY <2>1 DEF Stages
  <2>3. Accounted(p)'
    BY <2>1 DEF Accounted
  <2>4. QED
    BY <2>1, <2>2, <2>3, InOrderOne
<1>7. ASSUME NEW left \in BOOLEAN, Kill(p, left)
      PROVE  InOrder'
  BY <1>7, AccountedForget DEF Kill, Die
<1>8. CASE UNCHANGED <<process, history>>
  BY <1>8, AccountedUntouched DEF process, history
<1>9. QED
  BY <1>1, <1>2, <1>3, <1>4, <1>5, <1>6, <1>7, <1>8 DEF Fault

\* systemd, the power and the people.
LEMMA InOrderDisturbance ==
  ASSUME InOrder, Disturbance
  PROVE  InOrder'
<1> USE DEF InOrder, ProcessTypeOK
<1>1. ASSUME NEW p \in Proc, Sigterm(p)
      PROVE  InOrder'
  <2>1. /\ pc' = [pc EXCEPT ![p] = "stop"]
        /\ stopped' = [stopped EXCEPT ![p] = TRUE]
        /\ UNCHANGED <<run, mode, rc, worked, asked>>
    BY <1>1 DEF Sigterm, Goto
  <2>2. ProcessTypeOK'
    BY <2>1 DEF Stages
  <2>3. Accounted(p)'
    BY <2>1 DEF Accounted
  <2>4. QED
    BY <2>1, <2>2, <2>3, InOrderOne
<1>2. ASSUME NEW p \in Proc, NEW c \in Runs, Start(p, c)
      PROVE  InOrder'
  <2>1. /\ pc' = [pc EXCEPT ![p] = IF Accepted(c) THEN "mask" ELSE "exit"]
        /\ run' = [run EXCEPT ![p] = c]
        /\ UNCHANGED <<mode, rc, worked, asked, stopped>>
    BY <1>2 DEF Start, Goto
  <2>2. ProcessTypeOK'
    BY <2>1 DEF Stages
  <2>3. Accounted(p)'
    BY <2>1 DEF Accounted
  <2>4. QED
    BY <2>1, <2>2, <2>3, InOrderOne
<1>3. ASSUME NEW left \in BOOLEAN, PowerLoss(left)
      PROVE  InOrder'
  BY <1>3, AccountedForget DEF PowerLoss, Die
<1>4. CASE Unmask
  BY <1>4, AccountedUntouched DEF Unmask, process
<1>5. QED
  BY <1>1, <1>2, <1>3, <1>4, InOrderFault, RunsAssumption DEF Disturbance, Boot, ByHand, PowerDown

\* Every step keeps every process accounted for.
LEMMA InOrderStep ==
  ASSUME InOrder, [Next]_vars
  PROVE  InOrder'
<1>1. CASE UNCHANGED <<process, history>>
  BY <1>1, AccountedUntouched DEF InOrder, ProcessTypeOK, process, history
<1>2. QED
  BY <1>1, InOrderAdvance, InOrderDisturbance DEF Next, Online, Settle, vars

\* An exit status of 0, however long after, means that the mode ended well.
THEOREM CleanExitSafe == Spec => CleanExitMeansDone
<1>1. InOrder /\ [Next]_vars =>
        [\A p \in Proc : pc[p] = "exit" /\ pc'[p] = "none" /\ rc[p] = 0 => worked[p]]_vars
  BY DEF InOrder, Accounted
<1>2. QED
  BY <1>1, InOrderInit, InOrderStep, PTL DEF Spec, CleanExitMeansDone

\* A process with a presence stays until it is told to go or has asked for the
\* poweroff, in any company.
THEOREM ResidentSafe == Spec => ResidentUntilStopped
<1>1. InOrder /\ [Next]_vars =>
        [\A p \in Proc : pc[p] = "exit" /\ pc'[p] = "none" /\ HasPresence(run[p])
           /\ Accepted(run[p]) /\ ~run[p].replicate_now => asked[p] \/ stopped[p]]_vars
  BY DEF InOrder, Accounted
<1>2. QED
  BY <1>1, InOrderInit, InOrderStep, PTL DEF Spec, ResidentUntilStopped
=============================================================================
