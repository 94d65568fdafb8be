---------------------------- MODULE PromiseProofs ----------------------------
(***************************************************************************)
(* Proofs that a refresh keeps the promise of StandbySet, and a node in     *)
(* sync in sync, for any guest ids, settings and number of backups, with    *)
(* one run at a time.                                                      *)
(***************************************************************************)
EXTENDS RefreshProofs, RefreshCalm

\* No disk is newer than the newest archive of its guest, on the share or in
\* the hands of a run.
Newest ==
  /\ \A v \in VMID : guest[v].disk <= clock
  /\ \A a \in Latest(share) : guest[a.vmid].disk <= a.taken
  /\ \A p \in Proc : \A a \in found[p] : a.taken <= clock /\ guest[a.vmid].disk <= a.taken

Sound == Orderly /\ Newest

\* What a command leaves half-way is no newer than what was there.
LEMMA DamagedOlder ==
  ASSUME TypeOK, NEW v \in VMID, NEW d \in Damages
  PROVE  /\ Damaged(v, d) \in {guest[v], NoGuest, TornGuest}
         /\ Damaged(v, d).disk <= guest[v].disk
<1>1. Damaged(v, d) \in {guest[v], NoGuest, TornGuest}
  BY DEF Damages, Damaged
<1>2. guest[v].disk \in Int /\ -1 <= guest[v].disk
  BY StampAssumption DEF TypeOK, Guest, Torn
<1>3. QED
  BY <1>1, <1>2 DEF NoGuest, TornGuest, Torn

\* Nor is what a dying process leaves.
LEMMA InterruptOlder ==
  ASSUME TypeOK, NEW P \in SUBSET Proc, Interrupt(P), NEW v \in VMID
  PROVE  /\ guest'[v] \in {guest[v], NoGuest, TornGuest}
         /\ guest'[v].disk <= guest[v].disk
<1>1. PICK d \in [UNION {InFlight(p) : p \in P} -> Damages] :
        guest' = [w \in VMID |-> IF w \in DOMAIN d THEN Damaged(w, d[w]) ELSE guest[w]]
  BY DEF Interrupt
<1>2. CASE v \in DOMAIN d
  <2>1. guest'[v] = Damaged(v, d[v]) /\ d[v] \in Damages
    BY <1>1, <1>2
  <2>2. QED
    BY <2>1, DamagedOlder
<1>3. CASE v \notin DOMAIN d
  <2>1. guest'[v] = guest[v]
    BY <1>1, <1>3
  <2>2. guest[v].disk \in Int
    BY StampAssumption DEF TypeOK, Guest, Torn
  <2>3. QED
    BY <2>1, <2>2
<1>4. QED
  BY <1>2, <1>3

\* A step that makes no disk newer and learns no archive but the latest of the
\* share keeps Newest.
LEMMA NewestUnlessRestored ==
  ASSUME Sound, TypeOK', UNCHANGED <<share, clock>>,
         \A v \in VMID : guest'[v].disk <= guest[v].disk,
         \A p \in Proc : found'[p] \subseteq found[p] \cup Latest(share)
  PROVE  Newest'
<1> USE DEF Sound, Newest
<1>1. TypeOK /\ StampsUnique
  BY DEF Orderly, Bookkeeping
<1>2. \A v \in VMID : guest[v].disk \in Int /\ guest'[v].disk \in Int
  BY <1>1, StampAssumption DEF TypeOK, Guest, Torn
<1>3. clock \in Int /\ \A a \in Archive : a.vmid \in VMID /\ a.taken \in Int
  BY <1>1, StampAssumption DEF TypeOK, Archive
<1>4. Latest(share) \subseteq share /\ share \subseteq Archive
  BY <1>1 DEF TypeOK, Latest
<1>5. \A v \in VMID : guest'[v].disk <= clock'
  BY <1>2, <1>3
<1>6. \A a \in Latest(share)' : guest'[a.vmid].disk <= a.taken
  BY <1>2, <1>3, <1>4 DEF Latest
<1>7. ASSUME NEW p \in Proc, NEW a \in found'[p]
      PROVE  a.taken <= clock' /\ guest'[a.vmid].disk <= a.taken
  <2>1. a \in Archive
    BY <1>7 DEF TypeOK
  <2>2. a.taken <= clock /\ guest[a.vmid].disk <= a.taken
    BY <1>1, <1>4, <1>7 DEF StampsUnique
  <2>3. QED
    BY <1>2, <1>3, <2>1, <2>2
<1>8. QED
  BY <1>5, <1>6, <1>7

\* A node that was never replicated to has no disk at all.
LEMMA SoundInit == Init => Sound
<1> SUFFICES ASSUME Init PROVE Sound
  OBVIOUS
<1>1. Orderly
  BY OrderlyInit
<1>2. QED
  BY <1>1 DEF Init, NoRun, Sound, Newest, Latest, NoGuest, Torn

\* No step of a run but a restore makes a disk newer.
LEMMA NewestAdvance ==
  ASSUME Alone, Sound, TypeOK', NEW p \in Proc, Advance(p)
  PROVE  Newest'
<1>1. TypeOK /\ StampsUnique /\ Holdings(p) /\ Tally(p)
  BY DEF Sound, Orderly, Bookkeeping
<1>2. \A v \in VMID : guest[v] \in Guest /\ guest[v].disk \in Int /\ -1 <= guest[v].disk
  BY <1>1, StampAssumption DEF TypeOK, Guest, Torn
<1>3. ASSUME UNCHANGED <<share, clock, guest, found>>
      PROVE  Newest'
  BY <1>3, <1>2, NewestUnlessRestored
<1>4. CASE Scan(p)
  <2>1. Latest(Visible) \subseteq Latest(share)
    BY DEF Latest, Visible
  <2>2. \A q \in Proc : found'[q] \subseteq found[q] \cup Latest(share)
    BY <1>1, <1>4, <2>1 DEF Scan, TypeOK
  <2>3. QED
    BY <1>2, <1>4, <2>2, NewestUnlessRestored DEF Scan, machine
<1>5. ASSUME NEW v \in VMID, DestroyOrphan(p, v)
      PROVE  Newest'
  <2>1. \A w \in VMID : guest'[w].disk <= guest[w].disk
    BY <1>1, <1>2, <1>5 DEF DestroyOrphan, TypeOK, NoGuest, Torn
  <2>2. QED
    BY <1>5, <2>1, NewestUnlessRestored DEF DestroyOrphan
<1>6. ASSUME NEW a \in Archive, RestoreGuest(p, a)
      PROVE  Newest'
  <2> USE DEF Sound, Newest
  <2>1. /\ a \in share /\ a \in found[p] /\ a.vmid \in VMID /\ a.taken \in Int
        /\ guest' = [guest EXCEPT ![a.vmid] = Restored(a)]
        /\ UNCHANGED <<share, clock, found>>
    BY <1>1, <1>6 DEF RestoreGuest, Visible, Holdings, IsNext, Archive
  <2>2. guest'[a.vmid].disk = a.taken /\ \A v \in VMID : v # a.vmid => guest'[v] = guest[v]
    BY <1>1, <2>1 DEF TypeOK, Restored
  <2>3. a.taken <= clock
    BY <1>1, <2>1 DEF StampsUnique
  <2>4. \A v \in VMID : guest'[v].disk <= clock'
    BY <2>1, <2>2, <2>3
  <2>5. ASSUME NEW b \in Latest(share)'
        PROVE  guest'[b.vmid].disk <= b.taken
    <3>1. b \in Latest(share) /\ b.vmid \in VMID
      BY <1>1, <2>1 DEF Latest, TypeOK, Archive
    <3>2. b.vmid = a.vmid => a.taken <= b.taken
      BY <2>1, <3>1 DEF Latest
    <3>3. QED
      BY <2>2, <3>1, <3>2
  <2>6. ASSUME NEW q \in Proc, NEW b \in found'[q]
        PROVE  b.taken <= clock' /\ guest'[b.vmid].disk <= b.taken
    <3>1. b \in found[p] /\ b.vmid \in VMID /\ b.taken \in Int
      BY <1>1, <2>1, <2>6 DEF Alone, TypeOK, Archive
    <3>2. b.vmid = a.vmid => b = a
      BY <1>1, <2>1, <3>1 DEF Holdings, OneEach
    <3>3. QED
      BY <2>1, <2>2, <3>1, <3>2
  <2>7. QED
    BY <2>4, <2>5, <2>6
<1>7. ASSUME NEW a \in Archive, SetOnboot(p, a)
      PROVE  Newest'
  <2>1. a.vmid \in VMID
    BY DEF Archive
  <2>2. Quiet(guest[a.vmid]).disk = guest[a.vmid].disk
    BY <1>2, <2>1, QuietType
  <2>3. \A v \in VMID : guest'[v].disk <= guest[v].disk
    BY <1>1, <1>2, <1>7, <2>1, <2>2 DEF SetOnboot, TypeOK
  <2>4. QED
    BY <1>7, <2>3, <1>2, NewestUnlessRestored DEF SetOnboot
<1>8. CASE Finish(p)
  <2>1. \A q \in Proc : found'[q] \subseteq found[q]
    BY <1>8 DEF Finish, Forget
  <2>2. QED
    BY <1>2, <1>8, <2>1, NewestUnlessRestored DEF Finish
<1>9. QED
  BY <1>3, <1>4, <1>5, <1>6, <1>7, <1>8
     DEF Advance, CheckMount, Mount, MountFails, ReadConfig, NothingFound, Plan, OrphansDone,
         RestoreNothing, RestoreDry, SetOnbootFails, RestoreDone, Unmount, machine

\* A failed tool, or the death of a process, makes no disk newer.
LEMMA NewestFault ==
  ASSUME Sound, TypeOK', NEW p \in Proc, Fault(p)
  PROVE  Newest'
<1>1. TypeOK
  BY DEF Sound, Orderly, Bookkeeping
<1>2. \A v \in VMID : guest[v].disk \in Int
  BY <1>1, StampAssumption DEF TypeOK, Guest, Torn
<1>3. ASSUME UNCHANGED <<share, clock, found>>, \A v \in VMID : guest'[v].disk <= guest[v].disk
      PROVE  Newest'
  BY <1>3, NewestUnlessRestored
<1>4. ASSUME NEW v \in VMID, NEW d \in Damages, DestroyFails(p, v, d)
      PROVE  Newest'
  <2>1. \A w \in VMID : guest'[w].disk <= guest[w].disk
    BY <1>1, <1>2, <1>4, DamagedOlder DEF DestroyFails, TypeOK
  <2>2. QED
    BY <1>3, <1>4, <2>1 DEF DestroyFails
<1>5. ASSUME NEW a \in Archive, NEW d \in Damages, RestoreFails(p, a, d) \/ RestoreTimesOut(p, a, d)
      PROVE  Newest'
  <2>1. a.vmid \in VMID /\ guest' = [guest EXCEPT ![a.vmid] = Damaged(a.vmid, d)]
    BY <1>5 DEF RestoreFails, RestoreTimesOut, Archive
  <2>2. \A w \in VMID : guest'[w].disk <= guest[w].disk
    BY <1>1, <1>2, <2>1, DamagedOlder DEF TypeOK
  <2>3. QED
    BY <1>3, <1>5, <2>2 DEF RestoreFails, RestoreTimesOut
<1>6. CASE PoweroffFails(p) \/ Kill(p)
  <2>1. \A v \in VMID : guest'[v].disk <= guest[v].disk
    BY <1>1, <1>2, <1>6, InterruptOlder DEF PoweroffFails, Kill, machine
  <2>2. \A q \in Proc : found'[q] \subseteq found[q]
    BY <1>6 DEF PoweroffFails, Kill, Interrupt, Forget
  <2>3. QED
    BY <1>6, <2>1, <2>2, NewestUnlessRestored DEF PoweroffFails, Kill, machine
<1>7. CASE UNCHANGED <<share, clock, guest, found>>
  BY <1>2, <1>3, <1>7
<1>8. QED
  BY <1>4, <1>5, <1>6, <1>7
     DEF Fault, MountFails, ListingFails, ReadRaises, ReadConfig, SetOnbootFails, UnmountFails, machine

\* Main writes with ever newer stamps and never prunes the latest archive of a
\* guest alone; a guest made by hand has a disk older than any archive.
LEMMA NewestAround ==
  ASSUME Sound, TypeOK',
         \/ \E v \in VMID, tag \in BOOLEAN : Backup(v, tag)
         \/ \E a \in Archive : Prune(a)
         \/ \E v \in VMID : RemoveFromMain(v) \/ MakeByHand(v)
  PROVE  Newest'
<1> USE DEF Sound, Newest
<1>1. TypeOK /\ StampsUnique
  BY DEF Orderly, Bookkeeping
<1>2. \A v \in VMID : guest[v].disk \in Int
  BY <1>1, StampAssumption DEF TypeOK, Guest, Torn
<1>3. clock \in Nat /\ \A a \in Archive : a.vmid \in VMID /\ a.taken \in 1..MaxStamp
  BY <1>1, StampAssumption DEF TypeOK, Archive
<1>4. share \subseteq Archive /\ \A p \in Proc : found[p] \subseteq Archive
  BY <1>1 DEF TypeOK
<1>5. ASSUME NEW v \in VMID, NEW tag \in BOOLEAN, Backup(v, tag)
      PROVE  Newest'
  <2> DEFINE new == [vmid |-> v, taken |-> clock + 1, tagged |-> tag]
  <2>1. /\ clock' = clock + 1
        /\ share' = share \cup {new}
        /\ UNCHANGED <<guest, found>>
    BY <1>5 DEF Backup, run
  <2>2. Latest(share)' \subseteq Latest(share) \cup {new}
    BY <2>1 DEF Latest
  <2>3. new.vmid = v /\ new.taken = clock + 1
    OBVIOUS
  <2>4. guest[v].disk <= clock + 1
    BY <1>2, <1>3
  <2>5. \A a \in Latest(share)' : guest'[a.vmid].disk <= a.taken
    BY <2>1, <2>2, <2>3, <2>4
  <2>6. \A w \in VMID : guest'[w].disk <= clock'
    BY <1>2, <1>3, <2>1
  <2>7. \A p \in Proc : \A a \in found'[p] : a.taken <= clock' /\ guest'[a.vmid].disk <= a.taken
    BY <1>3, <1>4, <2>1
  <2>8. QED
    BY <2>5, <2>6, <2>7
<1>6. ASSUME NEW a \in Archive, Prune(a)
      PROVE  Newest'
  <2>1. PICK b \in share : b.vmid = a.vmid /\ ~(b.taken <= a.taken)
    BY <1>6 DEF Prune, Latest
  <2>2. Latest(share)' \subseteq Latest(share)
    <3>1. Latest(share)' \subseteq share
      BY <1>6 DEF Prune, Latest
    <3>2. ASSUME NEW c \in Latest(share)', NEW e \in share, e.vmid = c.vmid
          PROVE  e.taken <= c.taken
      <4>1. CASE e # a
        BY <1>6, <3>2, <4>1 DEF Prune, Latest
      <4>2. CASE e = a
        <5>1. b # a /\ b.taken <= c.taken
          BY <1>3, <1>6, <2>1, <3>2, <4>2 DEF Prune, Latest
        <5>2. QED
          BY <1>3, <1>4, <2>1, <3>1, <4>2, <5>1
      <4>3. QED
        BY <4>1, <4>2
    <3>3. QED
      BY <3>1, <3>2 DEF Latest
  <2>3. QED
    BY <1>6, <2>2 DEF Prune, run
<1>7. ASSUME NEW v \in VMID, RemoveFromMain(v)
      PROVE  Newest'
  <2>1. Latest(share)' \subseteq Latest(share)
    BY <1>7 DEF RemoveFromMain, Latest
  <2>2. QED
    BY <1>7, <2>1 DEF RemoveFromMain, run
<1>8. ASSUME NEW v \in VMID, MakeByHand(v)
      PROVE  Newest'
  <2>1. /\ guest' = [guest EXCEPT ![v] = HandMadeGuest]
        /\ UNCHANGED <<share, clock, found>>
    BY <1>8 DEF MakeByHand, run
  <2>2. \A w \in VMID : guest'[w].disk = guest[w].disk \/ guest'[w].disk = 0
    BY <1>1, <2>1 DEF TypeOK, HandMadeGuest
  <2>3. Latest(share)' = Latest(share) /\ Latest(share) \subseteq share
    BY <2>1 DEF Latest
  <2>4. \A a \in Archive : a.vmid \in VMID /\ 0 <= a.taken
    BY <1>3
  <2>5. \A w \in VMID : guest'[w].disk <= clock'
    BY <1>3, <2>1, <2>2
  <2>6. \A a \in Latest(share)' : guest'[a.vmid].disk <= a.taken
    BY <1>4, <2>2, <2>3, <2>4
  <2>7. ASSUME NEW p \in Proc, NEW a \in found'[p]
        PROVE  a.taken <= clock' /\ guest'[a.vmid].disk <= a.taken
    <3>1. a \in found[p] /\ a \in Archive
      BY <1>4, <2>1, <2>7
    <3>2. QED
      BY <2>1, <2>2, <2>4, <3>1
  <2>8. QED
    BY <2>5, <2>6, <2>7
<1>9. QED
  BY <1>5, <1>6, <1>7, <1>8

\* While only one process can run, every step keeps the state sound.
LEMMA SoundStep ==
  ASSUME Alone, Sound, [Next]_vars
  PROVE  Sound'
<1>1. Orderly' /\ TypeOK' /\ TypeOK
  BY OrderlyStep DEF Sound, Orderly, Bookkeeping
<1>2. \A v \in VMID : guest[v].disk \in Int
  BY <1>1, StampAssumption DEF TypeOK, Guest, Torn
<1>3. CASE UNCHANGED <<share, clock, guest, found>>
  BY <1>1, <1>2, <1>3, NewestUnlessRestored DEF Sound
<1>4. CASE PowerLoss
  <2>1. \A v \in VMID : guest'[v].disk <= guest[v].disk
    BY <1>1, <1>4, InterruptOlder DEF PowerLoss
  <2>2. \A q \in Proc : found'[q] \subseteq found[q]
    BY <1>4 DEF PowerLoss, Interrupt, Forget
  <2>3. QED
    BY <1>1, <1>4, <2>1, <2>2, NewestUnlessRestored DEF PowerLoss, Sound
<1>5. QED
  BY <1>1, <1>3, <1>4, NewestAdvance, NewestFault, NewestAround
     DEF Next, Around, Schedule, PowerCut, PowerDown, Begin, Wake, vars, machine, run, Sound

\* With one run at a time the copies are never newer than what main offers: the
\* inductive invariant behind the next theorems.
THEOREM SoundInvariant == Alone /\ Spec => []Sound
<1>1. ASSUME Alone
      PROVE  Sound /\ [Next]_vars => Sound'
  BY <1>1, SoundStep
<1>2. SUFFICES ASSUME Alone PROVE Spec => []Sound
  OBVIOUS
<1>3. QED
  BY <1>1, <1>2, SoundInit, PTL DEF Spec

-----------------------------------------------------------------------------
(* The steps of a refresh as steps of the promise. *)

\* What is on offer, without the union.
LEMMA OfferedIs ==
  ASSUME NEW a
  PROVE  a \in Offered <=> (a \in share /\ a.tagged) \/ \E p \in Proc : a \in backups[p]
BY DEF Offered

\* A step that changes no copy and offers nothing new withdraws.
LEMMA StepWithdraws ==
  ASSUME \A v \in VMID : CopyIn(guest[v])' = CopyIn(guest[v]), Offered' \subseteq Offered
  PROVE  Promise!Next
<1>1. Copies' = Copies
  BY DEF Copies
<1>2. QED
  BY <1>1 DEF Promise!Next, Promise!Withdraw

\* So does one that leaves guests and share alone and selects nothing.
LEMMA StepSelectsNothing ==
  ASSUME \A v \in VMID : CopyIn(guest[v])' = CopyIn(guest[v]),
         share' \subseteq share, \A p \in Proc : backups'[p] \subseteq backups[p]
  PROVE  Promise!Next
<1>1. ASSUME NEW a \in Offered'
      PROVE  a \in Offered
  BY OfferedIs DEF Offered
<1>2. QED
  BY <1>1, StepWithdraws

\* The guest a command works on may be lost.
LEMMA StepLoses ==
  ASSUME Sound, NEW p \in Proc, NEW v \in InFlight(p),
         guest' \in [VMID -> Guest],
         \A w \in VMID : w # v => guest'[w] = guest[w],
         guest'[v] \in {guest[v], NoGuest, TornGuest},
         share' = share, \A q \in Proc : backups'[q] \subseteq backups[q]
  PROVE  Promise!Next
<1>1. v \in VMID /\ Bookkeeping /\ InHand(p)
  BY DEF Sound, Orderly, InFlight
<1>2. PICK a \in backups[p] : TRUE
  BY <1>1, InFlightAllowed
<1>3. Offered # {}
  BY <1>2, OfferedIs
<1>4. guest[v].conf = "standby" \/ v \in Wanted(p)
  BY <1>1 DEF InFlight, IsNext, IsLowest, InHand, Bookkeeping, Tally, Wanted
<1>5. Copies[v].conf = "standby" \/ \E b \in Offered : b.vmid = v
  BY <1>1, <1>4, OfferedIs DEF Wanted, Copies, CopyIn
<1>6. Offered' \subseteq Offered
  <2>1. ASSUME NEW b \in Offered'
        PROVE  b \in Offered
    BY OfferedIs DEF Offered
  <2>2. QED
    BY <2>1
<1>7. CASE guest'[v] = guest[v]
  BY <1>6, <1>7, StepWithdraws DEF CopyIn
<1>8. CASE guest'[v] \in {NoGuest, TornGuest}
  <2>1. CopyIn(guest'[v]) \in {Promise!NoCopy, Promise!TornCopy}
    BY <1>8 DEF CopyIn, NoGuest, TornGuest, Torn, Promise!NoCopy, Promise!TornCopy
  <2>2. Copies' = [Copies EXCEPT ![v] = CopyIn(guest'[v])]
    BY <1>1 DEF Copies, CopyIn
  <2>3. Promise!Lose(v)
    BY <1>3, <1>5, <1>6, <2>1, <2>2 DEF Promise!Lose
  <2>4. QED
    BY <1>1, <2>3 DEF Promise!Next
<1>9. QED
  BY <1>7, <1>8

\* A process that dies loses no guest but the one it was working on.
LEMMA StepInterrupts ==
  ASSUME Alone, Sound, TypeOK', NEW P \in SUBSET Proc, Interrupt(P), share' = share
  PROVE  Promise!Next
<1>1. TypeOK /\ Bookkeeping
  BY DEF Sound, Orderly, Bookkeeping
<1>2. \A q \in Proc : backups'[q] \subseteq backups[q]
  BY DEF Interrupt, Forget
<1>3. CASE \A v \in VMID : guest'[v] = guest[v]
  BY <1>2, <1>3, StepSelectsNothing DEF CopyIn
<1>4. CASE \E v \in VMID : guest'[v] # guest[v]
  <2>1. PICK v \in VMID : guest'[v] # guest[v]
    BY <1>4
  <2>2. PICK p \in P : v \in InFlight(p)
    BY <2>1, InterruptHits
  <2>3. ASSUME NEW w \in VMID, guest'[w] # guest[w]
        PROVE  w = v
    <3>1. PICK q \in P : w \in InFlight(q)
      BY <2>3, InterruptHits
    <3>2. q = p
      BY DEF Alone
    <3>3. v \in Nat /\ w \in Nat
      BY VMIDAssumption
    <3>4. todo[p] \in SUBSET Archive
      BY <1>1 DEF TypeOK
    <3>5. QED
      BY <2>2, <3>1, <3>2, <3>3, <3>4, NextUnique DEF InFlight, IsLowest
  <2>4. guest'[v] \in {guest[v], NoGuest, TornGuest}
    BY <1>1, InterruptOlder
  <2>5. QED
    BY <1>2, <2>2, <2>3, <2>4, StepLoses DEF TypeOK
<1>5. QED
  BY <1>3, <1>4

\* What a run does.
LEMMA StepAdvances ==
  ASSUME Alone, Sound, TypeOK', NEW p \in Proc, Advance(p)
  PROVE  Promise!Next
<1>1. TypeOK /\ Bookkeeping /\ Tally(p) /\ InHand(p) /\ Holdings(p)
  BY DEF Sound, Orderly, Bookkeeping
<1>2. ASSUME UNCHANGED <<share, guest>>, \A q \in Proc : backups'[q] \subseteq backups[q]
      PROVE  Promise!Next
  BY <1>2, StepSelectsNothing DEF CopyIn
<1>3. ASSUME NEW a \in Archive, ReadConfig(p, a, a \in Visible)
      PROVE  Promise!Next
  <2>1. ASSUME NEW b \in Offered'
        PROVE  b \in Offered
    <3>1. b \in backups'[p] => b \in backups[p] \/ (b \in share /\ b.tagged)
      BY <1>1, <1>3 DEF ReadConfig, Visible, TypeOK
    <3>2. share' = share /\ \A q \in Proc : q # p => backups'[q] = backups[q]
      BY <1>1, <1>3 DEF ReadConfig, machine, TypeOK
    <3>3. (b \in share' /\ b.tagged) \/ \E q \in Proc : b \in backups'[q]
      BY <2>1 DEF Offered
    <3>4. QED
      BY <3>1, <3>2, <3>3, OfferedIs
  <2>2. guest' = guest
    BY <1>3 DEF ReadConfig, machine
  <2>3. QED
    BY <2>1, <2>2, StepWithdraws DEF CopyIn
<1>4. ASSUME NEW v \in VMID, DestroyOrphan(p, v)
      PROVE  Promise!Next
  <2>1. CASE cfg[p].dry_run
    <3>1. guest' = guest
      BY <1>1, <1>4, <2>1 DEF DestroyOrphan, TypeOK
    <3>2. QED
      BY <1>2, <1>4, <3>1 DEF DestroyOrphan
  <2>2. CASE ~cfg[p].dry_run
    <3>1. v \in InFlight(p)
      BY <1>4, <2>2 DEF DestroyOrphan, InFlight
    <3>2. guest'[v] = NoGuest /\ \A w \in VMID : w # v => guest'[w] = guest[w]
      BY <1>1, <1>4, <2>2 DEF DestroyOrphan, TypeOK
    <3>3. share' = share /\ backups' = backups
      BY <1>4 DEF DestroyOrphan
    <3>4. QED
      BY <3>1, <3>2, <3>3, StepLoses DEF TypeOK
  <2>3. QED
    BY <2>1, <2>2
<1>5. ASSUME NEW a \in Archive, RestoreGuest(p, a)
      PROVE  Promise!Next
  <2>1. /\ a \in backups[p] /\ a \in found[p] /\ a.vmid \in VMID
        /\ guest' = [guest EXCEPT ![a.vmid] = Restored(a)]
        /\ UNCHANGED <<share, backups>>
    BY <1>1, <1>5 DEF RestoreGuest, Tally, Holdings, IsNext, Archive
  <2>2. a \in Offered /\ Offered' = Offered
    BY <2>1, OfferedIs DEF Offered
  <2>3. CopyIn(Restored(a)) = Promise!CopyOf(a)
    BY DEF CopyIn, Restored, Promise!CopyOf
  <2>4. Copies' = [Copies EXCEPT ![a.vmid] = Promise!CopyOf(a)]
    BY <1>1, <2>1, <2>3 DEF Copies, TypeOK
  <2>5. Copies[a.vmid].disk <= a.taken
    BY <2>1 DEF Sound, Newest, Copies, CopyIn
  <2>6. Promise!Renew(a)
    BY <2>2, <2>4, <2>5 DEF Promise!Renew
  <2>7. QED
    BY <2>6 DEF Promise!Next
<1>6. ASSUME NEW a \in Archive, SetOnboot(p, a)
      PROVE  Promise!Next
  <2>1. a.vmid \in VMID /\ guest' = [guest EXCEPT ![a.vmid] = Quiet(guest[a.vmid])]
    BY <1>6 DEF SetOnboot, Archive
  <2>2. guest[a.vmid] \in Guest
    BY <1>1, <2>1 DEF TypeOK
  <2>3. CopyIn(Quiet(guest[a.vmid])) = CopyIn(guest[a.vmid])
    BY <2>2, QuietType DEF CopyIn
  <2>4. \A v \in VMID : CopyIn(guest[v])' = CopyIn(guest[v])
    BY <1>1, <2>1, <2>3 DEF TypeOK
  <2>5. QED
    BY <1>6, <2>4, StepSelectsNothing DEF SetOnboot
<1>7. CASE Finish(p)
  <2>1. \A q \in Proc : backups'[q] \subseteq backups[q]
    BY <1>7 DEF Finish, Forget
  <2>2. QED
    BY <1>2, <1>7, <2>1 DEF Finish
<1>8. QED
  BY <1>2, <1>3, <1>4, <1>5, <1>6, <1>7
     DEF Advance, CheckMount, Mount, MountFails, Scan, NothingFound, Plan, OrphansDone,
         RestoreNothing, RestoreDry, SetOnbootFails, RestoreDone, Unmount, machine

\* What goes wrong with it.
LEMMA StepFails ==
  ASSUME Alone, Sound, TypeOK', NEW p \in Proc, Fault(p)
  PROVE  Promise!Next
<1>1. TypeOK /\ Bookkeeping
  BY DEF Sound, Orderly, Bookkeeping
<1>2. ASSUME UNCHANGED <<share, guest>>, \A q \in Proc : backups'[q] \subseteq backups[q]
      PROVE  Promise!Next
  BY <1>2, StepSelectsNothing DEF CopyIn
<1>3. ASSUME NEW v \in VMID, v \in InFlight(p), NEW d \in Damages,
             guest' = [guest EXCEPT ![v] = Damaged(v, d)], UNCHANGED <<share, backups>>
      PROVE  Promise!Next
  <2>1. guest'[v] = Damaged(v, d) /\ \A w \in VMID : w # v => guest'[w] = guest[w]
    BY <1>1, <1>3 DEF TypeOK
  <2>2. guest'[v] \in {guest[v], NoGuest, TornGuest}
    BY <1>1, <2>1, DamagedOlder
  <2>3. QED
    BY <1>3, <2>1, <2>2, StepLoses DEF TypeOK
<1>4. ASSUME NEW v \in VMID, NEW d \in Damages, DestroyFails(p, v, d)
      PROVE  Promise!Next
  BY <1>3, <1>4 DEF DestroyFails, InFlight
<1>5. ASSUME NEW a \in Archive, NEW d \in Damages, RestoreFails(p, a, d) \/ RestoreTimesOut(p, a, d)
      PROVE  Promise!Next
  <2>1. a.vmid \in VMID /\ a.vmid \in InFlight(p)
    BY <1>5 DEF RestoreFails, RestoreTimesOut, InFlight, Archive, IsNext
  <2>2. QED
    BY <1>3, <1>5, <2>1 DEF RestoreFails, RestoreTimesOut
<1>6. ASSUME NEW a \in Archive, ReadConfig(p, a, FALSE)
      PROVE  Promise!Next
  BY <1>1, <1>2, <1>6 DEF ReadConfig, machine, TypeOK
<1>7. CASE PoweroffFails(p)
  <2>1. \A q \in Proc : backups'[q] \subseteq backups[q]
    BY <1>7 DEF PoweroffFails, Forget
  <2>2. QED
    BY <1>2, <1>7, <2>1 DEF PoweroffFails, machine
<1>8. CASE Kill(p)
  BY <1>8, StepInterrupts DEF Kill
<1>9. QED
  BY <1>2, <1>4, <1>5, <1>6, <1>7, <1>8
     DEF Fault, MountFails, ListingFails, ReadRaises, SetOnbootFails, UnmountFails, machine

\* Main's next archive is newer than all there is.
LEMMA StepOffers ==
  ASSUME Sound, NEW v \in VMID, NEW tag \in BOOLEAN, Backup(v, tag)
  PROVE  Promise!Next
<1> DEFINE new == [vmid |-> v, taken |-> clock + 1, tagged |-> tag]
<1>1. TypeOK /\ StampsUnique /\ \A p \in Proc : Holdings(p)
  BY DEF Sound, Orderly, Bookkeeping
<1>2. /\ clock < MaxStamp
      /\ share' = share \cup {new}
      /\ UNCHANGED <<guest, backups>>
  BY DEF Backup, run
<1>3. clock \in Nat /\ new \in Archive
  BY <1>1, <1>2, StampAssumption DEF TypeOK, Archive
<1>4. Copies' = Copies
  BY <1>2 DEF Copies
<1>5. CASE ~tag
  <2>1. Offered' \subseteq Offered
    BY <1>2, <1>5 DEF Offered
  <2>2. QED
    BY <1>4, <2>1 DEF Promise!Next, Promise!Withdraw
<1>6. CASE tag
  <2>1. Offered' = Offered \cup {new}
    BY <1>2, <1>6 DEF Offered
  <2>2. ASSUME NEW b \in Offered
        PROVE  b.taken < new.taken
    <3>1. b \in share \/ \E p \in Proc : b \in found[p]
      BY <1>1, OfferedIs DEF Holdings
    <3>2. b \in Archive /\ b.taken <= clock
      BY <1>1, <3>1 DEF StampsUnique, Sound, Newest, TypeOK
    <3>3. QED
      BY <1>3, <3>2, StampAssumption DEF Archive
  <2>3. ASSUME NEW w \in VMID
        PROVE  Copies[w].disk < new.taken
    <3>1. guest[w].disk <= clock /\ guest[w].disk \in Int
      BY <1>1, StampAssumption DEF Sound, Newest, TypeOK, Guest, Torn
    <3>2. QED
      BY <1>3, <3>1 DEF Copies, CopyIn
  <2>4. Promise!Offer(new)
    BY <1>4, <2>1, <2>2, <2>3 DEF Promise!Offer
  <2>5. QED
    BY <1>3, <2>4 DEF Promise!Next
<1>7. QED
  BY <1>5, <1>6

\* A guest made by hand takes a free id.
LEMMA StepMakesByHand ==
  ASSUME TypeOK, NEW v \in VMID, MakeByHand(v)
  PROVE  Promise!Next
<1>1. guest[v] = NoGuest /\ guest' = [guest EXCEPT ![v] = HandMadeGuest]
      /\ UNCHANGED <<share, backups>>
  BY DEF MakeByHand, run
<1>2. Copies[v] = Promise!NoCopy
  BY <1>1 DEF Copies, CopyIn, NoGuest, Torn, Promise!NoCopy
<1>3. Copies' = [Copies EXCEPT ![v] = Promise!HandMade]
  BY <1>1 DEF TypeOK, Copies, CopyIn, HandMadeGuest, Promise!HandMade
<1>4. Offered' = Offered
  BY <1>1 DEF Offered
<1>5. Promise!MakeByHand(v)
  BY <1>2, <1>3, <1>4 DEF Promise!MakeByHand
<1>6. QED
  BY <1>5 DEF Promise!Next

\* Every step of the refresh is one of the promise.
LEMMA PromiseStep ==
  ASSUME Alone, Sound, [Next]_vars
  PROVE  Promise!Next
<1>1. TypeOK /\ TypeOK'
  BY TypeStep DEF Sound, Orderly, Bookkeeping
<1>2. ASSUME share' \subseteq share, UNCHANGED <<guest, backups>>
      PROVE  Promise!Next
  BY <1>2, StepSelectsNothing DEF CopyIn
<1>3. CASE PowerLoss
  BY <1>1, <1>3, StepInterrupts DEF PowerLoss
<1>4. ASSUME NEW a \in Archive, Prune(a)
      PROVE  Promise!Next
  BY <1>2, <1>4 DEF Prune, run
<1>5. ASSUME NEW v \in VMID, RemoveFromMain(v)
      PROVE  Promise!Next
  BY <1>2, <1>5 DEF RemoveFromMain, run
<1>6. CASE \/ \E p \in Proc, c \in Configs : Begin(p, c)
           \/ Wake
           \/ UNCHANGED vars
  BY <1>2, <1>6 DEF Begin, Wake, vars, machine, run
<1>7. QED
  BY <1>1, <1>3, <1>4, <1>5, <1>6, StepAdvances, StepFails, StepOffers, StepMakesByHand
     DEF Next, Around, Schedule, PowerCut, PowerDown

\* A node that was never replicated to has promised nothing yet.
LEMMA PromiseInit == Init => Promise!Init
<1> SUFFICES ASSUME Init PROVE Promise!Init
  OBVIOUS
<1>1. Offered = {}
  BY DEF Init, NoRun, Offered
<1>2. Copies = [v \in VMID |-> Promise!NoCopy]
  BY DEF Init, Copies, CopyIn, NoGuest, Torn, Promise!NoCopy
<1>3. QED
  BY <1>1, <1>2 DEF Promise!Init

\* With one run at a time, the refresh implements the standby set it promises,
\* whatever fails, dies or is done by hand in between.
THEOREM PromiseKept == Alone /\ Spec => ImplementsStandbySet
<1>1. ASSUME Alone
      PROVE  Sound /\ [Next]_vars => [Promise!Next]_<<Offered, Copies>>
  BY <1>1, PromiseStep
<1>2. SUFFICES ASSUME Alone PROVE Spec => ImplementsStandbySet
  OBVIOUS
<1>3. Alone /\ Spec => []Sound
  BY SoundInvariant
<1>4. QED
  BY <1>1, <1>2, <1>3, PromiseInit, PTL DEF Spec, ImplementsStandbySet, Promise!Spec

\* No step of the promise puts an older state of a guest in place of a newer.
LEMMA PromiseNoRollback ==
  ASSUME Alone, Sound, [Next]_vars, NEW v \in VMID,
         guest[v].conf = "standby", guest[v]'.conf = "standby"
  PROVE  guest[v]'.disk = Torn \/ guest[v]'.disk >= guest[v].disk
<1>1. TypeOK /\ TypeOK'
  BY TypeStep DEF Sound, Orderly, Bookkeeping
<1>2. /\ Copies[v].disk = guest[v].disk /\ Copies'[v].disk = guest[v]'.disk
      /\ Copies[v].conf = "standby" /\ Copies'[v].conf = "standby"
  BY DEF Copies, CopyIn
<1>3. guest[v].disk \in Int /\ guest[v]'.disk \in Int
  BY <1>1, StampAssumption DEF TypeOK, Guest, Torn
<1> DEFINE Onward == guest[v]'.disk = Torn \/ guest[v]'.disk >= guest[v].disk
<1>4. CASE Copies' = Copies
  BY <1>2, <1>3, <1>4
<1>5. ASSUME NEW w, NEW c, Copies' = [Copies EXCEPT ![w] = c], v # w
      PROVE  Onward
  <2>1. Copies'[v] = Copies[v]
    BY <1>5 DEF Copies
  <2>2. QED
    BY <1>2, <1>3, <2>1
<1>6. ASSUME NEW c, Copies' = [Copies EXCEPT ![v] = c]
      PROVE  Copies'[v] = c
  BY <1>6 DEF Copies
<1>7. ASSUME NEW a \in Archive, Promise!Renew(a)
      PROVE  Onward
  <2>1. CASE v = a.vmid
    <3>1. Copies'[v] = Promise!CopyOf(a)
      BY <1>6, <1>7, <2>1 DEF Promise!Renew
    <3>2. Copies[v].disk <= Copies'[v].disk
      BY <1>7, <2>1, <3>1 DEF Promise!Renew, Promise!CopyOf
    <3>3. QED
      BY <1>2, <3>2
  <2>2. CASE v # a.vmid
    BY <1>5, <1>7, <2>2 DEF Promise!Renew
  <2>3. QED
    BY <2>1, <2>2
<1>8. ASSUME NEW w \in VMID, Promise!Lose(w)
      PROVE  Onward
  <2>1. PICK c \in {Promise!NoCopy, Promise!TornCopy} : Copies' = [Copies EXCEPT ![w] = c]
    BY <1>8 DEF Promise!Lose
  <2>2. CASE v = w
    <3>1. c.disk = Torn
      BY <2>1 DEF Promise!NoCopy, Promise!TornCopy, Torn
    <3>2. QED
      BY <1>2, <1>6, <2>1, <2>2, <3>1
  <2>3. QED
    BY <1>5, <2>1, <2>2
<1>9. ASSUME NEW w \in VMID, Promise!MakeByHand(w)
      PROVE  Onward
  <2>1. v # w
    BY <1>2, <1>9 DEF Promise!MakeByHand, Promise!NoCopy
  <2>2. QED
    BY <1>5, <1>9, <2>1 DEF Promise!MakeByHand
<1>10. QED
  BY <1>4, <1>7, <1>8, <1>9, PromiseStep DEF Promise!Next, Promise!Offer, Promise!Withdraw

\* With one run at a time a standby guest never goes back to an older state of
\* itself.
THEOREM NeverRolledBack == Alone /\ Spec => NoRollback
<1> DEFINE Onward == \A v \in VMID :
             guest[v].conf = "standby" /\ guest[v]'.conf = "standby" =>
               guest[v]'.disk = Torn \/ guest[v]'.disk >= guest[v].disk
<1>1. ASSUME Alone
      PROVE  Sound /\ [Next]_vars => [Onward]_vars
  BY <1>1, PromiseNoRollback
<1>2. SUFFICES ASSUME Alone PROVE Spec => NoRollback
  OBVIOUS
<1>3. Alone /\ Spec => []Sound
  BY SoundInvariant
<1>4. QED
  BY <1>1, <1>2, <1>3, PTL DEF Spec, NoRollback

\* A command of a run works on a guest with the tag or on one it selected, so a
\* guest made by hand changes only if it has the id of a selected archive.
LEMMA HandMadeUntouched ==
  ASSUME Orderly, [Next]_vars, NEW v \in VMID, guest[v].conf = "other", guest[v]' # guest[v]
  PROVE  \E p \in Proc : v \in Wanted(p)
<1>1. TypeOK /\ Bookkeeping /\ \A p \in Proc : InHand(p) /\ Tally(p)
  BY DEF Orderly, Bookkeeping
<1>2. ASSUME NEW p \in Proc, v \in InFlight(p)
      PROVE  v \in Wanted(p)
  BY <1>1, <1>2 DEF InHand, Tally, InFlight, IsNext, IsLowest, Wanted
<1>3. ASSUME NEW p \in Proc, Advance(p)
      PROVE  v \in Wanted(p)
  <2>1. ASSUME NEW w \in VMID, DestroyOrphan(p, w)
        PROVE  FALSE
    BY <1>1, <2>1 DEF DestroyOrphan, TypeOK, IsLowest, InHand
  <2>2. ASSUME NEW a \in Archive, RestoreGuest(p, a) \/ SetOnboot(p, a)
        PROVE  v \in Wanted(p)
    <3>1. v = a.vmid
      BY <1>1, <2>2 DEF RestoreGuest, SetOnboot, TypeOK, Archive
    <3>2. QED
      BY <1>1, <2>2, <3>1 DEF RestoreGuest, SetOnboot, IsNext, Tally, Wanted
  <2>3. QED
    BY <1>3, <2>1, <2>2
       DEF Advance, CheckMount, Mount, MountFails, Scan, ReadConfig, NothingFound, Plan,
           OrphansDone, RestoreNothing, RestoreDry, SetOnbootFails, RestoreDone, Unmount,
           Finish, machine
<1>4. ASSUME NEW p \in Proc, Fault(p)
      PROVE  \E q \in Proc : v \in Wanted(q)
  <2>1. ASSUME NEW w \in VMID, NEW d \in Damages, DestroyFails(p, w, d)
        PROVE  FALSE
    BY <1>1, <2>1 DEF DestroyFails, TypeOK, IsLowest, InHand
  <2>2. ASSUME NEW a \in Archive, NEW d \in Damages,
               RestoreFails(p, a, d) \/ RestoreTimesOut(p, a, d)
        PROVE  v \in Wanted(p)
    <3>1. v = a.vmid
      BY <1>1, <2>2 DEF RestoreFails, RestoreTimesOut, TypeOK, Archive
    <3>2. QED
      BY <1>1, <2>2, <3>1 DEF RestoreFails, RestoreTimesOut, IsNext, Tally, Wanted
  <2>3. CASE Kill(p)
    BY <1>2, <2>3, InterruptHits DEF Kill
  <2>4. QED
    BY <1>4, <2>1, <2>2, <2>3
       DEF Fault, MountFails, ListingFails, ReadRaises, ReadConfig, SetOnbootFails, UnmountFails,
           PoweroffFails, machine
<1>5. CASE PowerLoss
  BY <1>2, <1>5, InterruptHits DEF PowerLoss
<1>6. ASSUME NEW w \in VMID, MakeByHand(w)
      PROVE  FALSE
  BY <1>1, <1>6 DEF MakeByHand, TypeOK, NoGuest
<1>7. QED
  BY <1>3, <1>4, <1>5, <1>6
     DEF Next, Around, Schedule, PowerCut, PowerDown, Backup, Prune, RemoveFromMain, Begin, Wake,
         vars, machine

\* With one run at a time a guest made by hand is overwritten only by main's
\* guest of the same id.
THEOREM HandMadeSafe == Alone /\ Spec => HandMadeGuestsSurvive
<1> DEFINE Spared == \A v \in VMID :
             guest[v].conf = "other" /\ guest[v]' # guest[v] => \E p \in Proc : v \in Wanted(p)
<1>1. Orderly /\ [Next]_vars => [Spared]_vars
  BY HandMadeUntouched
<1>2. SUFFICES ASSUME Alone PROVE Spec => HandMadeGuestsSurvive
  OBVIOUS
<1>3. Alone /\ Spec => []Orderly
  BY OrderlyInvariant
<1>4. QED
  BY <1>1, <1>2, <1>3, PTL DEF Spec, HandMadeGuestsSurvive

-----------------------------------------------------------------------------
(* The quiet time. *)

\* It takes steps away and adds none: what holds of Spec holds of CalmSpec.
THEOREM CalmIsSpec == CalmSpec => Spec
<1>1. CalmInit => Init
  BY DEF CalmInit
<1>2. [CalmNext]_<<vars, calm>> => [Next]_vars
  BY DEF CalmNext, Settle, Next
<1>3. QED
  BY <1>1, <1>2, PTL DEF CalmSpec, Spec

\* A real run under way has selected, or has yet to read, all that main keeps on
\* standby, and nothing else; one that selected nothing is on its way out.
Complete(p) ==
  ~cfg[p].dry_run =>
    /\ pc[p] = "read" =>
         /\ found[p] = Latest(share)
         /\ \A a \in found[p] : a.tagged => a \in todo[p] \cup backups[p]
    /\ \/ pc[p] \in {"orphans", "restore", "onboot"}
       \/ pc[p] \in {"unmount", "verdict"} /\ backups[p] # {}
       => /\ found[p] = Latest(share)
          /\ \A a \in found[p] : a.tagged => a \in backups[p]

\* A run selects nothing that is not tagged, and by the time the node goes down it
\* is over.
Halting ==
  \A p \in Proc : /\ \A a \in backups[p] : a.tagged
                  /\ power = "stopping" => pc[p] = "idle"

Steady == Orderly /\ Halting /\ calm /\ InSync /\ \A p \in Proc : Complete(p)

LEMMA HaltingInit == Init => Halting
  BY DEF Init, NoRun, Halting

LEMMA HaltingStep ==
  ASSUME Alone, TypeOK, Halting, [Next]_vars
  PROVE  Halting'
<1> SUFFICES ASSUME NEW p \in Proc
             PROVE  /\ \A a \in backups'[p] : a.tagged
                    /\ power' = "stopping" => pc'[p] = "idle"
  BY DEF Halting
<1> USE DEF TypeOK, Halting
<1>1. ASSUME Forget({p}) \/ Forget(Proc)
      PROVE  pc'[p] = "idle" /\ backups'[p] = {}
  BY <1>1 DEF Forget
<1>2. CASE Advance(p)
  BY <1>1, <1>2
     DEF Advance, CheckMount, Mount, MountFails, Scan, ReadConfig, NothingFound, Plan,
         DestroyOrphan, OrphansDone, RestoreGuest, RestoreNothing, RestoreDry, SetOnboot,
         SetOnbootFails, RestoreDone, Unmount, Finish, Goto, machine
<1>3. CASE Fault(p)
  BY <1>1, <1>3
     DEF Fault, MountFails, ListingFails, ReadRaises, ReadConfig, SetOnbootFails, DestroyFails,
         RestoreFails, RestoreTimesOut, UnmountFails, PoweroffFails, Kill, Interrupt, Goto, machine
<1>4. ASSUME NEW c \in Configs, Begin(p, c)
      PROVE  /\ \A a \in backups'[p] : a.tagged
             /\ power' = "stopping" => pc'[p] = "idle"
  BY <1>4 DEF Begin, Goto, machine
<1>5. CASE PowerLoss
  BY <1>1, <1>5 DEF PowerLoss, Interrupt
<1>6. CASE UNCHANGED run /\ (UNCHANGED power \/ power' = "on")
  BY <1>6 DEF run
<1>7. QED
  BY <1>2, <1>3, <1>4, <1>5, <1>6
     DEF Alone, Next, Around, Schedule, PowerCut, PowerDown, Backup, Prune, RemoveFromMain,
         MakeByHand, Wake, vars, machine

LEMMA HaltingInvariant == Alone /\ Spec => []Halting
<1>1. SUFFICES ASSUME Alone PROVE Spec => []Halting
  OBVIOUS
<1>2. TypeOK /\ Halting /\ [Next]_vars => Halting'
  BY <1>1, HaltingStep
<1>3. QED
  BY <1>2, HaltingInit, TypeCorrect, PTL DEF Spec

\* A step that leaves guests and share alone leaves the node in sync.
LEMMA SyncUnmoved ==
  ASSUME InSync, UNCHANGED <<share, guest>>
  PROVE  InSync'
BY DEF InSync, Latest

\* With the share as it was, a run stays complete from one step to the next.
LEMMA CompleteAdvance ==
  ASSUME Alone, Orderly, NEW p \in Proc, Complete(p), Advance(p)
  PROVE  Complete(p)'
<1>1. /\ TypeOK /\ Holdings(p) /\ InHand(p)
  BY DEF Orderly, Bookkeeping
<1>2. Latest(share)' = Latest(share)
  BY DEF Advance, CheckMount, Mount, MountFails, Scan, ReadConfig, NothingFound, Plan,
         DestroyOrphan, OrphansDone, RestoreGuest, RestoreNothing, RestoreDry, SetOnboot,
         SetOnbootFails, RestoreDone, Unmount, Finish, machine, Latest
<1> USE <1>1, <1>2 DEF TypeOK, Goto, Complete
<1>3. CASE CheckMount(p) \/ Mount(p) \/ MountFails(p)
  BY <1>3 DEF CheckMount, Mount, MountFails, Holdings, machine
<1>4. CASE Scan(p)
  <2>1. ~cfg[p].dry_run => Visible = share
    BY <1>4 DEF Scan, InHand, Busy, Visible
  <2>2. /\ UNCHANGED cfg /\ pc'[p] = "read"
        /\ found'[p] = Latest(Visible) /\ todo'[p] = Latest(Visible)
    BY <1>4 DEF Scan, machine
  <2>3. QED
    BY <2>1, <2>2
<1>5. ASSUME NEW a \in Archive, ReadConfig(p, a, a \in Visible)
      PROVE  Complete(p)'
  <2>1. ~cfg[p].dry_run => a \in Visible
    BY <1>5 DEF ReadConfig, Holdings, IsNext, InHand, Busy, Visible, Latest
  <2>2. QED
    BY <1>5, <2>1 DEF ReadConfig
<1>6. CASE NothingFound(p) \/ Plan(p) \/ OrphansDone(p) \/ RestoreDone(p) \/ Unmount(p)
  BY <1>6 DEF NothingFound, Plan, OrphansDone, RestoreDone, Unmount
<1>7. ASSUME NEW v \in VMID, DestroyOrphan(p, v)
      PROVE  Complete(p)'
  BY <1>7 DEF DestroyOrphan
<1>8. ASSUME NEW a \in Archive,
             \/ RestoreGuest(p, a) \/ RestoreNothing(p, a) \/ RestoreDry(p, a)
             \/ SetOnboot(p, a) \/ SetOnbootFails(p, a)
      PROVE  Complete(p)'
  BY <1>8 DEF RestoreGuest, RestoreNothing, RestoreDry, SetOnboot, SetOnbootFails
<1>9. CASE Finish(p)
  BY <1>9 DEF Finish, Forget
<1>10. QED
  BY <1>3, <1>4, <1>5, <1>6, <1>7, <1>8, <1>9 DEF Advance

\* A run in a quiet time only puts back what is there and destroys what main does
\* not back up.
LEMMA SteadyAdvance ==
  ASSUME Alone, Steady, NEW p \in Proc, Advance(p)
  PROVE  InSync'
<1>1. /\ TypeOK /\ Holdings(p) /\ Condemned(p) /\ Tally(p) /\ InHand(p) /\ Complete(p)
      /\ \A a \in backups[p] : a.tagged
  BY DEF Steady, Orderly, Bookkeeping, Halting
<1>2. InSync
  BY DEF Steady
<1>3. Latest(share) \subseteq share /\ Latest(share) \subseteq Archive
  BY <1>1 DEF Latest, TypeOK
<1>4. \A a, b \in Latest(share) : a.vmid = b.vmid => a.taken = b.taken
  BY <1>3 DEF Latest, Archive
<1> USE <1>1 DEF TypeOK, Goto
<1>5. CASE UNCHANGED <<share, guest>>
  BY <1>2, <1>5, SyncUnmoved
<1>6. CASE \/ CheckMount(p) \/ Mount(p) \/ MountFails(p) \/ Scan(p) \/ NothingFound(p)
           \/ Plan(p) \/ OrphansDone(p) \/ RestoreDone(p) \/ Unmount(p) \/ Finish(p)
  BY <1>5, <1>6
     DEF CheckMount, Mount, MountFails, Scan, NothingFound, Plan, OrphansDone, RestoreDone,
         Unmount, Finish, machine
<1>7. ASSUME NEW a \in Archive,
             \/ ReadConfig(p, a, a \in Visible) \/ RestoreNothing(p, a) \/ RestoreDry(p, a)
             \/ SetOnbootFails(p, a)
      PROVE  InSync'
  BY <1>5, <1>7 DEF ReadConfig, RestoreNothing, RestoreDry, SetOnbootFails, machine
<1>8. ASSUME NEW v \in VMID, DestroyOrphan(p, v)
      PROVE  InSync'
  <2>1. /\ v \notin Wanted(p)
        /\ guest' = [guest EXCEPT ![v] = IF cfg[p].dry_run THEN guest[v] ELSE NoGuest]
        /\ pc[p] = "orphans" /\ UNCHANGED share
    BY <1>8 DEF DestroyOrphan, Condemned, IsLowest
  <2>2. Latest(share)' = Latest(share)
    BY <2>1 DEF Latest
  <2>3. CASE cfg[p].dry_run
    BY <1>5, <2>1, <2>3
  <2>4. CASE ~cfg[p].dry_run
    <3>1. \A a \in Latest(share) : a.tagged => a.vmid # v
      BY <2>1, <2>4 DEF Complete, Wanted
    <3>2. guest'[v] = NoGuest /\ \A w \in VMID : w # v => guest'[w] = guest[w]
      BY <2>1, <2>4
    <3>3. QED
      BY <1>2, <1>3, <2>2, <3>1, <3>2 DEF InSync, InFence, NoGuest, Archive
  <2>5. QED
    BY <2>3, <2>4
<1>9. ASSUME NEW a \in Archive, RestoreGuest(p, a)
      PROVE  InSync'
  <2>1. /\ UNCHANGED share
        /\ guest' = [guest EXCEPT ![a.vmid] = Restored(a)]
        /\ a.vmid \in VMID /\ a.tagged /\ a \in Latest(share)
    BY <1>9 DEF RestoreGuest, Tally, Holdings, Complete, IsNext, Archive
  <2>2. Latest(share)' = Latest(share)
    BY <2>1 DEF Latest
  <2>3. /\ guest'[a.vmid].conf = "standby" /\ guest'[a.vmid].disk = a.taken
        /\ \A w \in VMID : w # a.vmid => guest'[w] = guest[w]
    BY <2>1 DEF Restored
  <2>4. QED
    BY <1>2, <1>3, <1>4, <2>1, <2>2, <2>3 DEF InSync, InFence, Archive
<1>10. ASSUME NEW a \in Archive, SetOnboot(p, a)
       PROVE  InSync'
  <2>1. /\ UNCHANGED share /\ a.vmid \in VMID
        /\ guest' = [guest EXCEPT ![a.vmid] = Quiet(guest[a.vmid])]
    BY <1>10 DEF SetOnboot, Archive
  <2>2. Latest(share)' = Latest(share)
    BY <2>1 DEF Latest
  <2>3. \A w \in VMID : guest'[w].conf = guest[w].conf /\ guest'[w].disk = guest[w].disk
    BY <2>1, QuietType
  <2>4. \A b \in Latest(share)' : b \in Latest(share) /\ b.vmid \in VMID
    BY <1>3, <2>2 DEF Archive
  <2>5. \A b \in Latest(share)' : b.tagged =>
          guest'[b.vmid].conf = "standby" /\ guest'[b.vmid].disk = b.taken
    BY <1>2, <2>3, <2>4 DEF InSync
  <2>6. \A v \in VMID : guest'[v].conf = "standby" =>
          \/ \E b \in Latest(share)' : b.vmid = v /\ b.tagged
          \/ \E c \in Configs : ~InFence(c, v)
    BY <1>2, <2>2, <2>3 DEF InSync
  <2>7. QED
    BY <2>5, <2>6 DEF InSync, InFence
<1>11. QED
  BY <1>6, <1>7, <1>8, <1>9, <1>10 DEF Advance

\* A step of a quiet time, by what it leaves alone: one of a run, the beginning of
\* one, one that leaves all of a run's concerns as they are, and the poweroff,
\* which finds no run and so hits no guest.
LEMMA CalmSteps ==
  ASSUME Alone, TypeOK, TypeOK', Halting, calm, [CalmNext]_<<vars, calm>>
  PROVE  \/ \E p \in Proc : Advance(p)
         \/ \E p \in Proc, c \in Configs : Begin(p, c)
         \/ UNCHANGED <<share, guest, run>> /\ (UNCHANGED power \/ power' = "on")
         \/ /\ UNCHANGED <<share, guest>> /\ power' = "off"
            /\ \A p \in Proc : pc'[p] = "idle"
<1>1. CASE UNCHANGED vars
  BY <1>1 DEF vars, machine
<1>2. CASE Wake
  BY <1>2 DEF Wake
<1>3. CASE PowerDown
  <2>1. \A q \in Proc : InFlight(q) = {}
    BY <1>3 DEF PowerDown, Halting, InFlight
  <2>2. \A v \in VMID : guest'[v] = guest[v]
    BY <1>3, <2>1, InterruptHits DEF PowerDown, PowerLoss
  <2>3. guest' = guest
    BY <2>2 DEF TypeOK
  <2>4. share' = share /\ power' = "off" /\ \A q \in Proc : pc'[q] = "idle"
    BY <1>3 DEF PowerDown, PowerLoss, Interrupt, Forget
  <2>5. QED
    BY <2>3, <2>4
<1>4. QED
  BY <1>1, <1>2, <1>3 DEF CalmNext, Schedule, Settle

\* So runs stay complete, whatever the node has in its guests.
LEMMA CompleteStep ==
  ASSUME Alone, Orderly, TypeOK', Halting, calm, \A p \in Proc : Complete(p),
         [CalmNext]_<<vars, calm>>
  PROVE  calm' /\ \A p \in Proc : Complete(p)'
<1>1. TypeOK
  BY DEF Orderly, Bookkeeping
<1>2. calm'
  BY DEF CalmNext, Settle
<1>3. ASSUME NEW p \in Proc, Advance(p)
      PROVE  Complete(p)'
  BY <1>3, CompleteAdvance
<1>4. ASSUME NEW p \in Proc, NEW c \in Configs, Begin(p, c)
      PROVE  Complete(p)'
  <2>1. pc'[p] = "check"
    BY <1>1, <1>4 DEF Begin, Goto, TypeOK
  <2>2. QED
    BY <2>1 DEF Complete
<1>5. ASSUME UNCHANGED <<share, run>>, NEW p \in Proc
      PROVE  Complete(p)'
  <2>1. Latest(share)' = Latest(share)
    BY <1>5 DEF Latest
  <2>2. QED
    BY <1>5, <2>1 DEF Complete, run
<1>6. ASSUME NEW p \in Proc, pc'[p] = "idle"
      PROVE  Complete(p)'
  BY <1>6 DEF Complete
<1>7. QED
  BY <1>1, <1>2, <1>3, <1>4, <1>5, <1>6, CalmSteps DEF Alone

LEMMA SteadyStep ==
  ASSUME Alone, Steady, [CalmNext]_<<vars, calm>>
  PROVE  Steady'
<1>1. [Next]_vars /\ TypeOK
  BY DEF CalmNext, Settle, Next, Steady, Orderly, Bookkeeping
<1>2. Orderly' /\ Halting' /\ TypeOK'
  BY <1>1, OrderlyStep, HaltingStep DEF Steady, Orderly, Bookkeeping
<1>3. calm' /\ \A p \in Proc : Complete(p)'
  BY <1>2, CompleteStep DEF Steady
<1>4. InSync'
  <2>1. UNCHANGED <<share, guest>> => InSync'
    BY SyncUnmoved DEF Steady
  <2>2. ASSUME NEW p \in Proc, Advance(p) PROVE InSync'
    BY <2>2, SteadyAdvance
  <2>3. ASSUME NEW p \in Proc, NEW c \in Configs, Begin(p, c) PROVE InSync'
    BY <2>1, <2>3 DEF Begin, machine
  <2>4. QED
    BY <1>1, <1>2, <2>1, <2>2, <2>3, CalmSteps DEF Steady
<1>5. QED
  BY <1>2, <1>3, <1>4 DEF Steady

\* In a quiet time a node that was once in sync at rest stays so at every moment,
\* which is the half of Convergence that needs no fairness.
THEOREM StaysInSync == Alone /\ CalmSpec => SyncIsKept
<1> DEFINE Rest == calm /\ InSync /\ (\A p \in Proc : pc[p] = "idle")
<1>1. SUFFICES ASSUME Alone PROVE CalmSpec => SyncIsKept
  OBVIOUS
<1>2. Alone /\ Spec => []Orderly
  BY OrderlyInvariant
<1>3. Alone /\ Spec => []Halting
  BY HaltingInvariant
<1>4. Orderly /\ Halting /\ Rest => Steady
  BY DEF Steady, Complete
<1>5. Steady /\ [CalmNext]_<<vars, calm>> => Steady'
  BY <1>1, SteadyStep
<1>6. Steady => InSync
  BY DEF Steady
<1>7. QED
  BY <1>1, <1>2, <1>3, <1>4, <1>5, <1>6, CalmIsSpec, PTL DEF SyncIsKept, CalmSpec

\* What the quiet time keeps from its first rest on, whatever the node then has.
Truthful ==
  /\ Orderly /\ Halting /\ calm
  /\ \A p \in Proc : Complete(p)
  /\ power = "stopping" => InSync

\* A complete run that asks for the poweroff leaves nothing to be done.
LEMMA VerdictInSync ==
  ASSUME Orderly, Halting, NEW p \in Proc, Complete(p), cfg[p].remove_orphans,
         pc[p] = "verdict", PowersOff(p)
  PROVE  InSync
<1>1. /\ TypeOK /\ Tally(p) /\ InHand(p)
      /\ failed[p] = {} /\ restored[p] # {} /\ ~raised[p] /\ ~cfg[p].dry_run
  BY DEF Orderly, Bookkeeping, PowersOff, Ok
<1>2. backups[p] # {} /\ \A a \in backups[p] : a.vmid \in restored[p]
  BY <1>1 DEF Tally, Wanted
<1>3. /\ \A a \in backups[p] : guest[a.vmid] = Quiet(Restored(a))
      /\ Orphans(p) = {}
  BY <1>1, <1>2 DEF InHand
<1>4. /\ found[p] = Latest(share)
      /\ \A a \in Latest(share) : a.tagged => a \in backups[p]
  BY <1>1, <1>2 DEF Complete
<1>5. \A a \in Latest(share) : a.tagged =>
        guest[a.vmid].conf = "standby" /\ guest[a.vmid].disk = a.taken
  BY <1>3, <1>4 DEF Quiet, Restored
<1>6. ASSUME NEW v \in VMID, guest[v].conf = "standby"
      PROVE  \/ \E a \in Latest(share) : a.vmid = v /\ a.tagged
             \/ \E c \in Configs : ~InFence(c, v)
  <2>1. v \in Wanted(p) \/ ~InFence(cfg[p], v)
    BY <1>3, <1>6 DEF Orphans
  <2>2. \A a \in backups[p] : a \in Latest(share) /\ a.tagged
    BY <1>4 DEF Orderly, Bookkeeping, Holdings, Halting
  <2>3. cfg[p] \in Configs
    BY <1>1 DEF TypeOK
  <2>4. QED
    BY <2>1, <2>2, <2>3 DEF Wanted
<1>7. QED
  BY <1>5, <1>6 DEF InSync

LEMMA TruthfulStep ==
  ASSUME Alone, \A c \in Configs : c.remove_orphans, Truthful, [CalmNext]_<<vars, calm>>
  PROVE  Truthful'
<1>1. [Next]_vars /\ TypeOK
  BY DEF CalmNext, Settle, Next, Truthful, Orderly, Bookkeeping
<1>2. Orderly' /\ Halting' /\ TypeOK'
  BY <1>1, OrderlyStep, HaltingStep DEF Truthful, Orderly, Bookkeeping
<1>3. calm' /\ \A p \in Proc : Complete(p)'
  BY <1>2, CompleteStep DEF Truthful
<1>4. ASSUME power' = "stopping"
      PROVE  InSync'
  <2>1. UNCHANGED <<share, guest, power>> => InSync'
    BY <1>4, SyncUnmoved DEF Truthful
  <2>2. ASSUME NEW p \in Proc, Finish(p), ~UNCHANGED power
        PROVE  InSync'
    BY <1>1, <2>2, VerdictInSync, SyncUnmoved DEF Finish, Truthful, TypeOK
  <2>3. ASSUME NEW p \in Proc, Advance(p)
        PROVE  InSync'
    <3>1. pc[p] # "idle"
      BY <2>3
         DEF Advance, CheckMount, Mount, MountFails, Scan, ReadConfig, NothingFound, Plan,
             DestroyOrphan, OrphansDone, RestoreGuest, RestoreNothing, RestoreDry, SetOnboot,
             SetOnbootFails, RestoreDone, Unmount, Finish
    <3>2. power # "stopping"
      BY <3>1 DEF Truthful, Halting
    <3>3. Finish(p)
      BY <1>4, <2>3, <3>2
         DEF Advance, CheckMount, Mount, MountFails, Scan, ReadConfig, NothingFound, Plan,
             DestroyOrphan, OrphansDone, RestoreGuest, RestoreNothing, RestoreDry, SetOnboot,
             SetOnbootFails, RestoreDone, Unmount, machine
    <3>4. QED
      BY <1>4, <2>2, <3>2, <3>3
  <2>4. QED
    BY <1>1, <1>2, <1>4, <2>1, <2>3, CalmSteps DEF Truthful, Begin, machine
<1>5. QED
  BY <1>2, <1>3, <1>4 DEF Truthful

\* Where every run removes orphans, a quiet-time poweroff is never one too early:
\* whatever state the faults left, the node that goes to sleep is in sync.
THEOREM PoweroffInSync ==
  Alone /\ (\A c \in Configs : c.remove_orphans) /\ CalmSpec => PoweroffMeansSync
<1> DEFINE Rest == calm /\ power # "stopping" /\ (\A p \in Proc : pc[p] = "idle")
<1>1. SUFFICES ASSUME Alone, \A c \in Configs : c.remove_orphans
               PROVE  CalmSpec => PoweroffMeansSync
  OBVIOUS
<1>2. Alone /\ Spec => []Orderly
  BY OrderlyInvariant
<1>3. Alone /\ Spec => []Halting
  BY HaltingInvariant
<1>4. Orderly /\ Halting /\ Rest => Truthful
  BY DEF Truthful, Complete
<1>5. Truthful /\ [CalmNext]_<<vars, calm>> => Truthful'
  BY <1>1, TruthfulStep
<1>6. Truthful => (power = "stopping" => InSync)
  BY DEF Truthful
<1>7. QED
  BY <1>1, <1>2, <1>3, <1>4, <1>5, <1>6, CalmIsSpec, PTL DEF PoweroffMeansSync, CalmSpec
=============================================================================
